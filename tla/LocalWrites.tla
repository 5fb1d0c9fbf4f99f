---------------------------- MODULE LocalWrites ----------------------------
(***************************************************************************)
(* The local write path of one replica, step by step: the caller's         *)
(* reservation in StateReplicator::replicate, the durable journal, the     *)
(* application store, the engine's reservation and waits, and the commit   *)
(* that acknowledges the write.  The process may crash between any two     *)
(* steps, and the caller may drop its future at any of them.               *)
(*                                                                         *)
(* A client write is identified by its operation id, which stands for its  *)
(* data as well; a retry that is not recognised as one has another id.     *)
(* Foreign is an operation of another primary.  The peers are the LSN up   *)
(* to which a quorum holds the primary's log.                              *)
(*                                                                         *)
(* faults names what may happen around the write path:                     *)
(*   "crash"   the process stops and restarts;                             *)
(*   "drop"    a caller drops its future;                                  *)
(*   "depose"  another replica is primary for a while.                     *)
(***************************************************************************)
EXTENDS Integers, FiniteSets, Sequences, FiniteSetsExt

CONSTANTS Write, Foreign, None, MaxLsn, FaultSets

ASSUME WriteAssumption == Foreign \notin Write /\ None \notin Write

ASSUME FaultsAssumption == FaultSets \subseteq SUBSET {"crash", "drop", "depose"}

ASSUME LsnAssumption == MaxLsn \in Nat

VARIABLES
    faults,    \* one of FaultSets, fixed for the behaviour
    journal,   \* local_writes table: the LSN and phase of every reserved write
    store,     \* the application's log
    commit,    \* the application's committed LSN
    verified,  \* verified_lsn under the admitted authority
    mode,      \* role and write status
    local,     \* state.local_writes
    pend,      \* pending_local_write of the engine
    next,      \* next_lsn of the engine
    waits,     \* LSNs whose completion the engine holds
    engine,    \* committed_lsn of the engine
    peers,     \* LSN a quorum is known to hold
    slot,      \* the reservation of DefaultStateReplicator
    caller,    \* the future that made the reservation still exists
    task,      \* the operation that holds the write lock, or None
    acked      \* acknowledged writes and their LSNs

durable == <<journal, store, commit, verified>>
log == <<pend, next, waits, engine, peers>>
api == <<slot, caller, acked>>
vars == <<faults, durable, mode, local, log, api, task>>

Lsns == 1..MaxLsn
Phases == {"reserved", "registered", "committed"}
Entries == [lsn : Lsns, phase : Phases]
Applied == Len(store)

Unresolved(table) == {w \in Write : table[w] # None /\ table[w].phase # "committed"}
Nothing == [w \in Write |-> None]

Init ==
    /\ faults \in FaultSets
    /\ journal = Nothing /\ store = <<>> /\ commit = 0 /\ verified = 0
    /\ mode = "granted" /\ local = Nothing
    /\ pend = None /\ next = 0 /\ waits = {} /\ engine = 0 /\ peers = 0
    /\ slot = None /\ caller = FALSE /\ task = None /\ acked = {}

-----------------------------------------------------------------------------
(* The caller's side.                                                       *)

(* A pass through the write path: its operation, the step it is at, whether *)
(* the grant runs it or a caller, and whether that caller made the          *)
(* reservation.                                                             *)
Idle == [op |-> None, step |-> "", recovering |-> FALSE, fresh |-> FALSE, lsn |-> 0]

(* The steps of a pass, in order; the last three have no operation.         *)
Steps == {"", "begin", "reserve", "list", "apply", "verify", "seal", "restore", "register",
          "enlist", "commit", "record", "finish"}
Tasks == [op : Write \cup {None}, step : Steps, recovering : BOOLEAN, fresh : BOOLEAN,
          lsn : 0..MaxLsn]
Reservations == [op : Write, lsn : Lsns]

ASSUME NoneAssumption == None \notin Entries \cup Tasks \cup Reservations

At(step) == task # None /\ task.step = step
Goto(step) == task' = [task EXCEPT !.step = step]

(* replicate takes the reservation, or finds its own.  An operation that is *)
(* still unresolved after a restart is recognised by its data.              *)
Replicate(w) ==
    /\ mode = "granted" /\ task = None /\ ~caller
    /\ \/ slot = w
       \/ slot = None /\ (journal[w] = None \/ local[w] # None)
    /\ slot' = w /\ caller' = TRUE
    /\ task' = [Idle EXCEPT !.op = w, !.step = "begin", !.fresh = (slot = None)]
    /\ UNCHANGED <<faults, durable, mode, local, log, acked>>

(* begin_write returned an error.  The reservation is given up only after   *)
(* the errors that say the replica no longer accepts writes.                *)
Fail(closed) ==
    /\ task' = None
    /\ caller' = IF task.recovering THEN caller ELSE FALSE
    /\ slot' = IF closed /\ ~task.recovering THEN None ELSE slot

(* The future is dropped.  What the write has done so far stays.            *)
DropCaller ==
    /\ "drop" \in faults /\ caller
    /\ caller' = FALSE
    /\ task' = IF task # None /\ ~task.recovering /\ task.op # None THEN None ELSE task
    /\ UNCHANGED <<faults, durable, mode, local, log, slot, acked>>

-----------------------------------------------------------------------------
(* begin_write_locked.                                                      *)

Rejected == \E other \in Write \ {task.op} : local[other] # None

(* Admission and the engine's reservation.  A write that the journal knows  *)
(* continues with the LSN it has.                                           *)
Begin ==
    LET w == task.op IN
    /\ At("begin")
    /\ \/ /\ mode # "granted" /\ ~task.recovering
          /\ Fail(TRUE)
          /\ UNCHANGED <<pend, acked>>
       \/ /\ mode = "granted" \/ task.recovering
          /\ Rejected
          /\ Fail(task.fresh)
          /\ UNCHANGED <<pend, acked>>
       \/ /\ mode = "granted" \/ task.recovering
          /\ ~Rejected /\ journal[w] # None
          /\ task' = [task EXCEPT !.lsn = journal[w].lsn,
                         !.step = IF journal[w].phase = "committed" THEN "verify" ELSE "apply"]
          /\ UNCHANGED <<pend, slot, caller, acked>>
       \/ /\ mode = "granted" /\ ~task.recovering
          /\ ~Rejected /\ journal[w] = None
          /\ pend # None => pend.op = w
          /\ LET lsn == IF pend = None THEN next + 1 ELSE pend.lsn IN
             /\ lsn \in Lsns
             /\ pend' = [op |-> w, lsn |-> lsn]
             /\ task' = [task EXCEPT !.step = "reserve", !.lsn = lsn]
          /\ UNCHANGED <<slot, caller, acked>>
       \/ /\ mode = "granted" /\ ~Rejected /\ journal[w] = None
          /\ pend # None /\ pend.op # w
          /\ Fail(task.fresh)
          /\ UNCHANGED <<pend, acked>>
    /\ UNCHANGED <<faults, durable, mode, local, next, waits, engine, peers>>

(* Mutant: the journal gets its entry once, as registered.                  *)
ReserveRegistered ==
    /\ At("reserve")
    /\ journal' = [journal EXCEPT ![task.op] = [lsn |-> task.lsn, phase |-> "registered"]]
    /\ Goto("list")
    /\ UNCHANGED <<faults, store, commit, verified, mode, local, log, api>>

Reserve ==
    /\ At("reserve")
    /\ journal' = [journal EXCEPT ![task.op] = [lsn |-> task.lsn, phase |-> "reserved"]]
    /\ Goto("list")
    /\ UNCHANGED <<faults, store, commit, verified, mode, local, log, api>>

List ==
    /\ At("list")
    /\ local' = [local EXCEPT ![task.op] = journal[task.op]]
    /\ Goto("apply")
    /\ UNCHANGED <<faults, durable, mode, log, api>>

(* The write is applied, or found applied by an earlier attempt.            *)
Apply ==
    /\ At("apply")
    /\ \/ /\ Applied >= task.lsn /\ store[task.lsn] = task.op
          /\ Goto("verify")
          /\ UNCHANGED <<store, slot, caller>>
       \/ /\ Applied + 1 = task.lsn
          /\ store' = Append(store, task.op)
          /\ Goto("verify")
          /\ UNCHANGED <<slot, caller>>
       \/ /\ Applied >= task.lsn => store[task.lsn] # task.op
          /\ Applied + 1 # task.lsn
          /\ Fail(FALSE)
          /\ UNCHANGED store
    /\ UNCHANGED <<faults, journal, commit, verified, mode, local, log, acked>>

Verify ==
    /\ At("verify")
    /\ verified' = IF task.lsn = verified + 1 THEN task.lsn ELSE verified
    /\ IF journal[task.op].phase = "committed" THEN Goto("restore")
       ELSE IF commit >= task.lsn THEN Goto("seal") ELSE Goto("register")
    /\ UNCHANGED <<faults, journal, store, commit, mode, local, log, api>>

(* The application has committed the write before the journal recorded it.  *)
Seal ==
    /\ At("seal")
    /\ journal' = [journal EXCEPT ![task.op].phase = "committed"]
    /\ Goto("restore")
    /\ UNCHANGED <<faults, store, commit, verified, mode, local, log, api>>

(* A completion is sent: the caller gets the LSN and gives up its           *)
(* reservation; without a caller nobody learns of it.                       *)
Complete(lsns) ==
    LET done == {w \in Write : w = slot /\ caller /\ journal[w] # None /\ journal[w].lsn \in lsns}
    IN  /\ acked' = acked \cup {[op |-> w, lsn |-> journal[w].lsn] : w \in done}
        /\ slot' = IF done = {} THEN slot ELSE None
        /\ caller' = (caller /\ done = {})

(* restore_committed_write: a committed write is reported without another   *)
(* quorum.                                                                  *)
Restore ==
    LET lsn == task.lsn IN
    /\ At("restore")
    /\ \/ /\ pend # None /\ (pend.lsn # lsn \/ pend.op # task.op)
          /\ Fail(FALSE)
          /\ UNCHANGED <<local, log, acked>>
       \/ /\ pend # None => pend.lsn = lsn /\ pend.op = task.op
          /\ pend' = None
          /\ next' = Max({next, lsn})
          /\ engine' = Max({engine, lsn})
          /\ waits' = {l \in waits : l > lsn}
          /\ local' = [local EXCEPT ![task.op] = None]
          /\ task' = None
          /\ IF task.recovering THEN UNCHANGED api
             ELSE Complete({lsn} \cup (waits \ waits'))
          /\ UNCHANGED peers
    /\ UNCHANGED <<faults, durable, mode>>

Register ==
    /\ At("register")
    /\ journal' = [journal EXCEPT ![task.op].phase = "registered"]
    /\ Goto("enlist")
    /\ UNCHANGED <<faults, store, commit, verified, mode, local, log, api>>

(* Mutant: the caller is answered when the write is registered.             *)
EnlistAnswering ==
    LET lsn == task.lsn IN
    /\ At("enlist")
    /\ pend # None => pend.lsn = lsn /\ pend.op = task.op
    /\ local' = [local EXCEPT ![task.op] = journal[task.op]]
    /\ pend' = None /\ next' = Max({next, lsn}) /\ waits' = waits \cup {lsn}
    /\ task' = [task EXCEPT !.step = "commit", !.op = None]
    /\ Complete({lsn})
    /\ UNCHANGED <<faults, durable, mode, engine, peers>>

(* restore_write_reservation and ensure_local_write_registered.  The items  *)
(* for the peers leave with the same step.                                  *)
Enlist ==
    LET lsn == task.lsn IN
    /\ At("enlist")
    /\ local' = [local EXCEPT ![task.op] = journal[task.op]]
    /\ \/ /\ pend # None /\ (pend.lsn # lsn \/ pend.op # task.op)
          /\ Fail(FALSE)
          /\ UNCHANGED <<pend, next, waits, acked>>
       \/ /\ pend # None => pend.lsn = lsn /\ pend.op = task.op
          /\ pend' = None
          /\ next' = Max({next, lsn})
          /\ task' = [task EXCEPT !.step = "commit", !.op = None]
          /\ IF lsn <= engine
             THEN waits' = waits /\ Complete({lsn})
             ELSE waits' = waits \cup {lsn} /\ UNCHANGED api
    /\ UNCHANGED <<faults, durable, mode, engine, peers>>

-----------------------------------------------------------------------------
(* finalize_ready_commit.                                                   *)

(* Mutant: the write at the quorum LSN itself is not ready.                 *)
ReadyOneShort == {lsn \in waits : lsn < peers}

Ready == {lsn \in waits : lsn <= peers}

(* An acknowledgement raises the quorum LSN and commits what is ready.      *)
Acknowledge(lsn) ==
    /\ mode \in {"primary", "granted"} /\ task = None
    /\ peers < lsn /\ lsn <= Applied
    /\ peers' = lsn
    /\ task' = [Idle EXCEPT !.step = "commit"]
    /\ UNCHANGED <<faults, durable, mode, local, pend, next, waits, engine, api>>

Commit ==
    /\ At("commit")
    /\ commit' = Max({commit} \cup Ready)
    /\ task' = IF Ready = {} THEN None ELSE [task EXCEPT !.step = "record", !.lsn = Max(Ready)]
    /\ UNCHANGED <<faults, journal, store, verified, mode, local, log, api>>

Finalizable ==
    {w \in Write : local[w] # None /\ local[w].phase = "registered" /\ local[w].lsn <= task.lsn}

Record ==
    /\ At("record")
    /\ journal' = [w \in Write |->
                      IF w \in Finalizable THEN [journal[w] EXCEPT !.phase = "committed"]
                      ELSE journal[w]]
    /\ Goto("finish")
    /\ UNCHANGED <<faults, store, commit, verified, mode, local, log, api>>

Finish ==
    /\ At("finish")
    /\ engine' = Max({engine, task.lsn})
    /\ waits' = {lsn \in waits : lsn > task.lsn}
    /\ Complete(waits \ waits')
    /\ local' = [w \in Write |-> IF w \in Finalizable THEN None ELSE local[w]]
    /\ task' = None
    /\ UNCHANGED <<faults, durable, mode, pend, next, peers>>

-----------------------------------------------------------------------------
(* Crashes, role changes and access.                                        *)

(* complete_open reads the unresolved entries of the journal; the engine    *)
(* starts from what the application has applied.                            *)
Restart ==
    /\ "crash" \in faults
    /\ mode' = IF mode = "secondary" THEN mode ELSE "closed"
    /\ local' = [w \in Write |-> IF w \in Unresolved(journal) THEN journal[w] ELSE None]
    /\ pend' = None /\ next' = Applied /\ waits' = {} /\ engine' = 0 /\ peers' = 0
    /\ slot' = None /\ caller' = FALSE /\ task' = None
    /\ UNCHANGED <<faults, durable, acked>>

(* A new authority is admitted and the waits of the old one fail.  It waits *)
(* for the effect lock, so it never cuts a write in two.                    *)
Readmit ==
    /\ task = None \/ At("begin")
    /\ pend' = None /\ next' = Max({next, Applied}) /\ waits' = {} /\ peers' = 0
    /\ slot' = IF caller /\ task = None THEN None ELSE slot
    /\ caller' = (caller /\ task # None)
    /\ UNCHANGED <<task, acked>>

Demote ==
    /\ "depose" \in faults /\ mode # "secondary" /\ Readmit
    /\ mode' = "secondary"
    /\ verified' \in commit..Applied
    /\ UNCHANGED <<faults, journal, store, commit, local, engine>>

(* Mutant: the prefix is settled past unresolved local writes.              *)
SettledVerified(prefix) == Max({prefix, commit})

(* settle_primary_prefix commits the certified prefix up to the first       *)
(* unresolved local write.                                                  *)
Settled(prefix) ==
    LET unresolved == {local[w].lsn : w \in Unresolved(local)}
    IN  Max({commit, Min({prefix} \cup {lsn - 1 : lsn \in unresolved})})

(* The replica becomes a primary that may not write yet.  Its verified      *)
(* prefix is its own after a restart; in a new epoch it is what the replica *)
(* reported, and was elected for.                                           *)
Promote ==
    LET prefix == IF mode = "closed" THEN verified ELSE Applied IN
    /\ mode \in {"closed", "secondary"} /\ Readmit
    /\ mode' = "primary" /\ verified' = prefix
    /\ commit' = Settled(prefix) /\ engine' = Max({engine, Settled(prefix)})
    /\ UNCHANGED <<faults, journal, store, local>>

(* A secondary applies the next operation of the current primary, or finds  *)
(* that it has it, and learns how far that primary has committed.           *)
ReceiveReplication ==
    /\ mode = "secondary" /\ task = None
    /\ verified + 1 \in Lsns
    /\ store' = IF verified = Applied THEN Append(store, Foreign) ELSE store
    /\ verified' = verified + 1
    /\ commit' \in commit..verified
    /\ UNCHANGED <<faults, journal, mode, local, log, api, task>>

(* prepare_access drives every unresolved local write to its quorum, one at *)
(* a time, before the grant is published.                                   *)
Recover(w) ==
    /\ mode = "primary" /\ task = None /\ local[w] # None
    /\ local[w].lsn \notin waits
    /\ task' = [Idle EXCEPT !.op = w, !.step = "begin", !.recovering = TRUE]
    /\ UNCHANGED <<faults, durable, mode, local, log, api>>

PublishAccess ==
    /\ mode = "primary" /\ task = None /\ local = Nothing
    /\ mode' = "granted"
    /\ UNCHANGED <<faults, durable, local, log, api, task>>

-----------------------------------------------------------------------------

Step ==
    \/ Begin \/ Reserve \/ List \/ Apply \/ Verify \/ Seal \/ Restore
    \/ Register \/ Enlist \/ Commit \/ Record \/ Finish

Grant == Promote \/ PublishAccess \/ \E w \in Write : Recover(w)

Next ==
    \/ Step \/ Grant
    \/ \E w \in Write : Replicate(w)
    \/ \E lsn \in Lsns : Acknowledge(lsn)
    \/ DropCaller \/ Restart \/ Demote \/ ReceiveReplication

Spec == Init /\ [][Next]_vars

(* A write that has begun runs on, a controller that wants a primary keeps  *)
(* asking for the grant, and a reachable quorum keeps acknowledging.        *)
FairSpec ==
    /\ Spec
    /\ WF_vars(Step) /\ WF_vars(Grant)
    /\ WF_vars(\E lsn \in Lsns : Acknowledge(lsn))

-----------------------------------------------------------------------------
(* Properties.                                                              *)

Holds(w, lsn) == lsn <= Applied /\ store[lsn] = w

(* An acknowledged write stays committed in the application at the LSN the  *)
(* caller was told, whatever crashes and retries follow.                    *)
AcknowledgedIsKept == \A a \in acked : Holds(a.op, a.lsn) /\ a.lsn <= commit

(* The journal never runs ahead of the application: a registered write is   *)
(* applied at its LSN and a committed one is committed there.  Recovery     *)
(* trusts the phase after a crash.                                          *)
JournalIsHonest ==
    \A w \in Write : journal[w] # None =>
        /\ journal[w].phase # "reserved" => Holds(w, journal[w].lsn)
        /\ journal[w].phase = "committed" => journal[w].lsn <= commit

(* A primary commits a local write of its own only when a quorum holds it:  *)
(* neither a restart nor a promotion settles it on this replica's word.     *)
LocalCommitsHaveQuorum ==
    [][\A w \in Unresolved(local) :
        mode # "secondary" /\ commit < local[w].lsn /\ local[w].lsn <= commit'
            => local[w].lsn <= peers]_vars

(* A primary that waits for its write grant gets it, or stops being one.    *)
GrantConverges == (mode = "primary") ~> (mode # "primary")

(* Unless another replica was primary in between, a primary that waits for  *)
(* its write grant gets it.                                                 *)
UndisturbedGrantConverges == "depose" \notin faults => GrantConverges

=============================================================================
