-------------------------- MODULE DurableExecution --------------------------
(***************************************************************************)
(* The durable-execution kernel (kuberic-dex): hosts that replay one       *)
(* linear workflow from a checkpoint, and persist every step of it by      *)
(* compare-and-swap on the checkpoint's revision.  Several hosts may serve *)
(* the same execution; each of them may crash at any step, and the store   *)
(* may leave the outcome of a compare-and-swap unknown.                    *)
(*                                                                         *)
(* An activity of the workflow is ordinary (run by the ActivityRunner, at  *)
(* least once, at most MaxAttempts attempts) or strict (a prepared         *)
(* command, observed before it is dispatched, redelivered once and only on *)
(* proof that the first attempt was not admitted).                         *)
(*                                                                         *)
(* Abstracted: the clock (a wake-up time that has not come is a turn that  *)
(* is not taken), payload bytes and their limits, and workflow code that   *)
(* is not deterministic.  An attempt identity is a number that occurs      *)
(* nowhere else in the state: host epochs are random, counters unique.     *)
(***************************************************************************)
EXTENDS Integers, FiniteSets, Sequences

CONSTANTS
    Host,         \* processes that drive the execution
    Worlds,       \* the executions a behaviour may run, records of
                  \*   steps: activities the workflow runs, one after the other
                  \*   strict: those that are strict effects
                  \*   attempts: ActivityOptions::max_attempts
                  \*   faults: what may go wrong, of "crash", "unknown" and "wait"
                  \*   budget: how often, in all
                  \*   fair: whether the hosts are scheduled fairly
    None

\* What an activity may have ended with, and under which attempt.
Results ==
    {None} \cup ({None, "ok", "failed", "noAdmission", "retryable", "wait"} \X Nat)

ASSUME HostAssumption == IsFiniteSet(Host)

ASSUME WorldAssumption ==
    \A w \in Worlds :
        /\ w.steps \in Nat \ {0} /\ w.strict \subseteq 1..w.steps
        /\ w.attempts \in Nat \ {0} /\ w.budget \in Nat
        /\ None \notin [1..w.steps -> Results]

VARIABLES
    world,     \* the execution of this behaviour, fixed
    store,     \* the checkpoint and its revision; revision 0: absent
    job,       \* what each host is in the middle of
    sent,      \* strict commands on their way to the external system
    admitted,  \* strict commands the external system has taken
    exposed,   \* history: every <<activity, attempt>> ever stored as exposed
    started,   \* history: every <<activity, attempt>> a host has started
    waits,     \* history: accepted handler waits
    budget     \* faults that may still happen

vars == <<world, store, job, sent, admitted, exposed, started, waits, budget>>

Steps == world.steps
Strict == world.strict
MaxAttempts == world.attempts

-----------------------------------------------------------------------------
(* Activity records and what an operation does to one. *)

Scheduled ==
    [st |-> "scheduled", att |-> 0, ord |-> 1, ledger |-> <<>>, res |-> None]

LedgerValid(ledger) ==
    \/ Len(ledger) <= 1
    \/ /\ Len(ledger) = 2
       /\ ledger[1].st = "noAdmission"
       /\ ledger[1].id # ledger[2].id

Expose(i, r, a) ==
    [r EXCEPT !.st = "exposed", !.att = a,
              !.ledger = IF i \in Strict
                         THEN Append(@, [id |-> a, st |-> "exposed"])
                         ELSE @]

Settle(r, res) ==
    [r EXCEPT !.st = "completed", !.att = 0, !.res = res]

\* Mutant: a retry that is not counted.
ScheduleRetryUncounted(r) ==
    [r EXCEPT !.st = "scheduled", !.att = 0]

ScheduleRetry(r) ==
    [r EXCEPT !.st = "scheduled", !.att = 0, !.ord = @ + 1]

DeferWait(r) ==
    [r EXCEPT !.st = "scheduled", !.att = 0]

\* Mutant: quarantine reopens an attempt too.
MayRedeliverQuarantined(r, out, quarantined) ==
    out = "noAdmission" /\ Len(r.ledger) = 1

\* Proof of non-admission reopens the first attempt and no other.
MayRedeliver(r, out, quarantined) ==
    out = "noAdmission" /\ ~quarantined /\ Len(r.ledger) = 1

ObserveAttempt(r, out, quarantined) ==
    LET reopened == MayRedeliver(r, out, quarantined)
        ledger   == [r.ledger EXCEPT ![Len(r.ledger)].st =
                        IF reopened THEN "noAdmission" ELSE "observed"]
    IN  IF reopened
        THEN [r EXCEPT !.st = "scheduled", !.att = 0, !.ledger = ledger]
        ELSE Settle([r EXCEPT !.ledger = ledger], <<out, r.att>>)

-----------------------------------------------------------------------------
Final(hist) == hist[Len(hist)]

WithFinal(ck, r) == [ck EXCEPT !.hist[Len(ck.hist)] = r]

Idle ==
    [pc |-> "idle", act |-> 0, att |-> 0, ord |-> 0, out |-> None, prop |-> None]

\* Ids that some part of the state mentions.
InUse ==
    {p[2] : p \in exposed \cup started} \cup {job[h].att : h \in Host}
        \cup {Final(job[h].prop.ck.hist).att :
                h \in {g \in Host : /\ job[g].prop # None
                                    /\ job[g].prop.ck.hist # <<>>}}

FreshAttempt ==
    CHOOSE a \in 1..(Cardinality(InUse) + 1) : a \notin InUse

Init ==
    /\ world \in Worlds
    /\ store = [rev |-> 0, hist |-> <<>>, outcome |-> None]
    /\ job = [h \in Host |-> Idle]
    /\ sent = {}
    /\ admitted = {}
    /\ exposed = {}
    /\ started = {}
    /\ waits = 0
    /\ budget = world.budget

External == <<sent, admitted, started>>
Durable  == <<world, store, exposed, waits, budget>>

\* validate_effect_record_state
LedgerMatches(r) ==
    LET l == r.ledger IN
    /\ LedgerValid(l)
    /\ CASE r.st = "scheduled" -> \A k \in DOMAIN l : l[k].st = "noAdmission" /\ k = 1
         [] r.st = "exposed"   -> l # <<>> /\ Final(l) = [id |-> r.att, st |-> "exposed"]
         [] r.st = "completed" -> l # <<>> /\ Final(l).st = "observed"

\* validate_active_history
ValidHistory(hist) ==
    \A i \in DOMAIN hist :
        /\ hist[i].ord \in 1..MaxAttempts
        /\ i < Len(hist) => hist[i].st = "completed"
        /\ IF i \in Strict THEN LedgerMatches(hist[i]) ELSE hist[i].ledger = <<>>

(* A host holds the proposal it will swap in, what it becomes when the     *)
(* swap is accepted, and what it may fall back to when it is not.  Every   *)
(* call starts from a checkpoint that decode_and_validate has accepted.    *)
Propose(h, ck, next, back) ==
    /\ ValidHistory(store.hist)
    /\ job' = [job EXCEPT ![h] = [Idle EXCEPT
           !.pc = "cas",
           !.prop = [rev |-> store.rev, ck |-> ck, next |-> next, back |-> back]]]

ProposeExposure(h, ck, back) ==
    LET a == FreshAttempt
        i == Len(ck.hist)
        r == Expose(i, Final(ck.hist), a)
    IN  /\ LedgerValid(r.ledger)
        /\ Propose(h, WithFinal(ck, r),
                   [Idle EXCEPT !.pc = "permit", !.act = i, !.att = a], back)

IntoTerminal(ck) ==
    [ck EXCEPT !.hist = <<>>, !.outcome = [i \in 1..Steps |-> ck.hist[i].res]]

ProposeTerminal(h, ck, back) == Propose(h, IntoTerminal(ck), Idle, back)

AllCompleted(hist) == \A i \in DOMAIN hist : hist[i].st = "completed"

\* Replay has consumed the history: the next activity, or the end.
ProposeProgress(h, ck, back) ==
    IF Len(ck.hist) = Steps
    THEN ProposeTerminal(h, ck, back)
    ELSE ProposeExposure(h, [ck EXCEPT !.hist = Append(@, Scheduled)], back)

-----------------------------------------------------------------------------
(* turn and turn_and_expose: load, replay, propose. *)

Turn(h) ==
    /\ job[h].pc = "idle"
    /\ store.outcome = None
    /\ AllCompleted(store.hist)
    /\ \/ ProposeProgress(h, store, Idle)
       \/ /\ Len(store.hist) < Steps
          /\ Propose(h, [store EXCEPT !.hist = Append(@, Scheduled)], Idle, Idle)
    /\ UNCHANGED <<External, Durable>>

TurnPending(h) ==
    /\ job[h].pc = "idle"
    /\ store.hist # <<>>
    /\ Final(store.hist).st = "scheduled"
    /\ ProposeExposure(h, store, Idle)
    /\ UNCHANGED <<External, Durable>>

TurnQuarantined(h) ==
    /\ job[h].pc = "idle"
    /\ store.hist # <<>>
    /\ Final(store.hist).st = "exposed"
    /\ job' = [job EXCEPT ![h] = [Idle EXCEPT !.pc = "quarantined",
                                              !.act = Len(store.hist),
                                              !.att = Final(store.hist).att]]
    /\ UNCHANGED <<External, Durable>>

-----------------------------------------------------------------------------
(* The compare-and-swap of a proposal.  Anything but an acceptance makes   *)
(* the caller reload: it gives up, or calls again with what it observed.   *)

Swap(p) ==
    /\ store' = [p.ck EXCEPT !.rev = store.rev + 1]
    /\ exposed' = IF p.ck.hist # <<>> /\ Final(p.ck.hist).st = "exposed"
                  THEN exposed \cup {<<Len(p.ck.hist), Final(p.ck.hist).att>>}
                  ELSE exposed
    /\ waits' = IF p.back.out = "wait" THEN waits + 1 ELSE waits

Reload(h) ==
    \E next \in {Idle, job[h].prop.back} : job' = [job EXCEPT ![h] = next]

Accepted(h) ==
    /\ job[h].pc = "cas"
    /\ job[h].prop.rev = store.rev
    /\ Swap(job[h].prop)
    /\ job' = [job EXCEPT ![h] = job[h].prop.next]
    /\ UNCHANGED <<world, External, budget>>

Conflict(h) ==
    /\ job[h].pc = "cas"
    /\ job[h].prop.rev # store.rev
    /\ Reload(h)
    /\ UNCHANGED <<External, Durable>>

Fault(kind) ==
    /\ kind \in world.faults
    /\ budget > 0
    /\ budget' = budget - 1

\* Mutant: a swap of unknown outcome taken for an accepted one.
OutcomeAssumed(h) ==
    /\ Fault("unknown")
    /\ job[h].pc = "cas"
    /\ \/ /\ job[h].prop.rev = store.rev
          /\ Swap(job[h].prop)
       \/ UNCHANGED <<store, exposed, waits>>
    /\ job' = [job EXCEPT ![h] = job[h].prop.next]
    /\ UNCHANGED <<world, External>>

OutcomeUnknown(h) ==
    /\ Fault("unknown")
    /\ job[h].pc = "cas"
    /\ \/ /\ job[h].prop.rev = store.rev
          /\ Swap(job[h].prop)
       \/ UNCHANGED <<store, exposed, waits>>
    /\ Reload(h)
    /\ UNCHANGED <<world, External>>

-----------------------------------------------------------------------------
(* ActivityRunner::run_once for an ordinary activity. *)

\* The checkpoint still shows the activity this host reports on.
StillExposed(h) ==
    /\ store.hist # <<>>
    /\ Len(store.hist) = job[h].act
    /\ Final(store.hist).st = "exposed"

\* The same activity, whatever has become of it.
SameActivity(h) ==
    /\ store.hist # <<>>
    /\ Len(store.hist) = job[h].act

GiveUp(h) == job' = [job EXCEPT ![h] = Idle]

\* The runner reloads the attempt's ordinal; a terminal checkpoint has no
\* final activity and the runner panics.
ReloadAttempt(h) ==
    /\ job[h].pc = "permit"
    /\ job[h].act \notin Strict
    /\ job' = [job EXCEPT ![h] =
                  IF store.hist = <<>>
                  THEN [Idle EXCEPT !.pc = "panicked"]
                  ELSE [@ EXCEPT !.pc = "invoking",
                                 !.ord = Final(store.hist).ord]]
    /\ UNCHANGED <<External, Durable>>

Invoke(h) ==
    /\ job[h].pc = "invoking"
    /\ started' = started \cup {<<job[h].act, job[h].att>>}
    /\ \/ /\ \E out \in {"ok", "failed", "retryable"} :
                job' = [job EXCEPT ![h] = [@ EXCEPT
                    !.pc = "report",
                    !.out = IF out = "retryable" /\ job[h].ord >= MaxAttempts
                            THEN "failed" ELSE out]]
          /\ UNCHANGED budget
       \/ Fault("wait") /\ job' = [job EXCEPT ![h].pc = "report", ![h].out = "wait"]
       \/ GiveUp(h) /\ UNCHANGED budget
    /\ UNCHANGED <<world, sent, admitted, store, exposed, waits>>

\* Mutant: a late result is stored whatever has become of the activity.
ReportAnyway(h) ==
    /\ job[h].pc = "report"
    /\ job[h].act \notin Strict
    /\ IF SameActivity(h) /\ job[h].out = "ok"
       THEN Propose(h, WithFinal(store, Settle(Final(store.hist), <<"ok", job[h].att>>)),
                    Idle, job[h])
       ELSE GiveUp(h)
    /\ UNCHANGED <<External, Durable>>

\* The checkpoint with the result of this host as the final activity's.
Done(h) == WithFinal(store, Settle(Final(store.hist), <<job[h].out, job[h].att>>))

Observe(h) ==
    job[h].out = "ok" /\ Propose(h, Done(h), Idle, job[h])

\* The result and what replay makes of it, in one swap.
ObserveAndTurn(h) ==
    job[h].out = "ok" /\ ProposeProgress(h, Done(h), job[h])

ObserveFailure(h) ==
    job[h].out = "failed" /\ Propose(h, Done(h), Idle, job[h])

Defer(h) ==
    /\ job[h].out = "wait"
    /\ Propose(h, WithFinal(store, DeferWait(Final(store.hist))), Idle, job[h])

Retry(h) ==
    /\ job[h].out = "retryable"
    /\ IF Final(store.hist).ord < MaxAttempts
       THEN Propose(h, WithFinal(store, ScheduleRetry(Final(store.hist))), Idle, job[h])
       ELSE GiveUp(h)

Report(h) ==
    /\ job[h].pc = "report"
    /\ job[h].act \notin Strict
    /\ \/ ~StillExposed(h) /\ GiveUp(h)
       \/ /\ StillExposed(h)
          /\ \/ Observe(h) \/ ObserveAndTurn(h) \/ ObserveFailure(h)
             \/ Defer(h) \/ Retry(h)
    /\ UNCHANGED <<External, Durable>>

\* Mutant: a quarantined activity is left alone.
RetryLostNever(h) ==
    /\ job[h].pc = "quarantined"
    /\ job[h].act \notin Strict
    /\ GiveUp(h)
    /\ UNCHANGED <<External, Durable>>

\* An exposed ordinary activity of unknown fate: another attempt, or failure
\* when there is none left.
RetryLost(h) ==
    /\ job[h].pc = "quarantined"
    /\ job[h].act \notin Strict
    /\ IF ~StillExposed(h)
       THEN GiveUp(h)
       ELSE IF Final(store.hist).ord < MaxAttempts
       THEN Propose(h, WithFinal(store, ScheduleRetry(Final(store.hist))), Idle, Idle)
       ELSE job' = [job EXCEPT ![h].pc = "report", ![h].out = "failed"]
    /\ UNCHANGED <<External, Durable>>

-----------------------------------------------------------------------------
(* A strict effect: observe, then dispatch, by the holder of the permit. *)

Attempt(h) == <<job[h].act, job[h].att>>

Observed(h, pc, out) ==
    job' = [job EXCEPT ![h].pc = pc, ![h].out = out]

ObserveOrDispatch(h) ==
    /\ job[h].pc = "permit"
    /\ job[h].act \in Strict
    /\ \/ \* observed, nothing is dispatched
          /\ \E out \in {"ok", "failed", "noAdmission"} : Observed(h, "report", out)
          /\ UNCHANGED External
       \/ \* dispatched, and refused
          /\ started' = started \cup {Attempt(h)}
          /\ Observed(h, "report", "noAdmission")
          /\ UNCHANGED <<sent, admitted>>
       \/ \* dispatched, and applied
          /\ started' = started \cup {Attempt(h)}
          /\ admitted' = admitted \cup {Attempt(h)}
          /\ Observed(h, "report", "ok")
          /\ UNCHANGED sent
       \/ \* dispatched, no answer: the outcome is not known
          /\ started' = started \cup {Attempt(h)}
          /\ sent' = sent \cup {Attempt(h)}
          /\ GiveUp(h)
          /\ UNCHANGED admitted
    /\ UNCHANGED Durable

\* The external system takes a command whose answer nobody waits for.
Admit ==
    /\ \E p \in sent :
          /\ sent' = sent \ {p}
          /\ admitted' = admitted \cup {p}
    /\ UNCHANGED <<started, job, Durable>>

\* Quarantine is resolved from what the external system shows now: the
\* holder of the permit, if it lives, may still dispatch.
ObserveQuarantined(h) ==
    /\ job[h].pc = "quarantined"
    /\ job[h].act \in Strict
    /\ \/ GiveUp(h)
       \/ Attempt(h) \in admitted /\ Observed(h, "resolve", "ok")
       \/ /\ Attempt(h) \notin admitted
          /\ Observed(h, "resolve", "failed")
       \/ /\ Attempt(h) \notin admitted \cup sent
          /\ Observed(h, "resolve", "noAdmission")
    /\ UNCHANGED <<External, Durable>>

\* observe_effect and observe_quarantined_effect.
ReportEffect(h) ==
    /\ \/ job[h].pc = "report" /\ job[h].act \in Strict
       \/ job[h].pc = "resolve"
    /\ IF StillExposed(h) /\ Final(store.hist).att = job[h].att
       THEN Propose(h, WithFinal(store, ObserveAttempt(Final(store.hist), job[h].out,
                                                       job[h].pc = "resolve")),
                    Idle, job[h])
       ELSE GiveUp(h)
    /\ UNCHANGED <<External, Durable>>

-----------------------------------------------------------------------------
Crash(h) ==
    /\ Fault("crash")
    /\ job[h].pc # "idle"
    /\ GiveUp(h)
    /\ UNCHANGED <<world, store, exposed, waits, External>>

\* A panic takes the process down; it starts again.
Restart(h) ==
    /\ job[h].pc = "panicked"
    /\ GiveUp(h)
    /\ UNCHANGED <<External, Durable>>

Work(h) ==
    \/ Turn(h)
    \/ TurnPending(h)
    \/ TurnQuarantined(h)
    \/ Accepted(h)
    \/ Conflict(h)
    \/ ReloadAttempt(h)
    \/ Invoke(h)
    \/ Report(h)
    \/ RetryLost(h)
    \/ ObserveOrDispatch(h)
    \/ ObserveQuarantined(h)
    \/ ReportEffect(h)
    \/ Restart(h)

Next ==
    \/ \E h \in Host : Work(h) \/ OutcomeUnknown(h) \/ Crash(h)
    \/ Admit

Spec == Init /\ [][Next]_vars

\* A host that quarantines a strict effect sooner or later has evidence: its
\* handler knows a deadline.
Resolve(h) == ObserveQuarantined(h) /\ job'[h].pc = "resolve"

FairSpec ==
    /\ Spec
    /\ \A h \in Host : WF_vars(world.fair /\ Work(h)) /\ SF_vars(world.fair /\ Resolve(h))

-----------------------------------------------------------------------------
(* The stored checkpoint always passes the validation the next load puts   *)
(* it through (decode_and_validate): a completed prefix, at most one       *)
(* pending record and that one last, attempt ordinals within the options,  *)
(* and a ledger that agrees with the state of its record.                  *)
StoredIsValid == ValidHistory(store.hist)

(* The external system takes the command of a strict effect at most once,  *)
(* whatever crashes, late answers and concurrent hosts do: a second        *)
(* attempt is exposed only on proof that the first was not admitted, and   *)
(* quarantine never reopens one (observe_effect_with_redelivery).          *)
StrictAtMostOnce ==
    \A p, q \in admitted : p[1] = q[1] => p = q

(* Nothing starts that the checkpoint does not already record: a handler   *)
(* runs and a command is dispatched only for an attempt that an accepted   *)
(* swap exposed, so a crash right after it is visible to every later host  *)
(* (commit_exposure gives out the permit).                                 *)
StartedIsExposed == started \cup sent \cup admitted \subseteq exposed

(* The options bound the attempts of an ordinary activity, also when a     *)
(* late retryable failure of one host and the lost-result retry of another *)
(* meet; a handler's wait is the one thing that buys another exposure.     *)
AttemptsAreBounded ==
    \A i \in (1..Steps) \ Strict :
        Cardinality({p \in exposed : p[1] = i}) <= MaxAttempts + waits

(* What workflow code was shown once it is shown at every later replay: a  *)
(* completed record never changes, and the terminal outcome is made of     *)
(* exactly the recorded results and is final.                              *)
ReplayIsStable ==
    [][/\ store.outcome # None => store' = store
       /\ \A i \in DOMAIN store.hist : store.hist[i].st = "completed" =>
             IF store'.outcome # None
             THEN store'.outcome[i] = store.hist[i].res
             ELSE store'.hist[i] = store.hist[i]]_vars

(* A workflow whose handlers answer ends: no conflict, crash, lost result  *)
(* or unknown outcome leaves an activity exposed for ever, as long as      *)
(* faults stop.                                                            *)
WorkflowEnds == world.fair => <>(store.outcome # None)

=============================================================================
