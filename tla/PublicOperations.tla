-------------------------- MODULE PublicOperations --------------------------
(***************************************************************************)
(* The preview of the public operations: a caller asks for an operation    *)
(* (promote, swap, build, remove, close, abort, report a fault), the       *)
(* registry admits, attaches, supersedes or rejects it, its callbacks run  *)
(* one durable instruction at a time in a task of their own, and the next  *)
(* operation waits until the work of the one it replaced is contained.     *)
(*                                                                         *)
(* Sources, in kuberic-runtime/src: host/operation.rs, host/               *)
(* operation_recovery.rs, host/public_lifecycle.rs and its program, the    *)
(* public operations of host/sqlite_store.rs, protocol/public_operations.rs*)
(* and the fault bridge of host/hosting.rs.                                *)
(*                                                                         *)
(* Operation ids are numbers in the order of the registry's map.  A        *)
(* transaction of the store is one step; what a task publishes in memory   *)
(* after its transaction is another, so an admission may come between the  *)
(* two.  An aborted task may still run to the end of its poll.  A callback *)
(* that is interrupted may leave work of the object behind that takes      *)
(* effect later, until the caller has contained it or the callback is      *)
(* invoked again.                                                          *)
(***************************************************************************)
EXTENDS Naturals, FiniteSets, Sequences, TLC

CONSTANTS
    None,
    Worlds      \* [intents, witness, crash, store, call, shut]: the intents callers
                \* ask for, whether a launch binds a containment witness, and how
                \* often the process dies, a transaction fails, a callback fails,
                \* and the registry is shut down

VARIABLES
    world,
    left,       \* the failures that are still to come
    store,      \* the durable preview state
    session,    \* the running process
    mem,        \* the registry's operation objects
    lock,       \* a transaction that is committed and not yet published
    admission,  \* an admission between its transaction and its publication
    jobs,       \* the registry's cancelling tasks
    dispatch,   \* operations a launch is about to start
    fence,      \* the registry's in-memory terminal fence
    shutting,
    root,       \* the callback task of every operation
    orphan,     \* the callback an interrupted task left behind
    witness,    \* the containment witness of every operation
    app,        \* what the callbacks did to the object
    invoked     \* how often an unrepeatable callback was invoked

vars == <<world, left, store, session, mem, lock, admission, jobs, dispatch, fence,
          shutting, root, orphan, witness, app, invoked>>

Intents == world.intents
Ids == {i.id : i \in Intents}
Intent(id) == CHOOSE i \in Intents : i.id = id
Least(S) == CHOOSE m \in S : \A n \in S : m <= n

(***************************************************************************)
(* Intents and their instructions.                                         *)
(***************************************************************************)
IsTerminal(class) ==
    class \in {"Close", "Abort", "TransientFault", "PermanentFault", "Restart", "DropReplacement"}

Recipes == {"InitialPrimary", "FailoverPromotion", "SecondaryEpochAdvance"}

\* A configuration has one primary and a write quorum it can reach.
ValidConfiguration(c) == c.primary \in c.members /\ c.quorum \in 1..Cardinality(c.members)

ValidLifecycle(i) ==
    /\ i.class = "Authority"
    /\ ValidConfiguration(i.current)
    /\ i.previous # None => ValidConfiguration(i.previous) /\ i.previous.epoch < i.epoch
    /\ i.current.epoch = i.epoch
    /\ IF i.program = "SecondaryEpochAdvance"
       THEN ~i.loss /\ i.self \in i.current.members \ {i.current.primary}
       ELSE i.current.primary = i.self
    /\ i.program = "FailoverPromotion" => i.previous # None

\* The class is the one the program stands for.
ValidProgram(i) ==
    CASE i.program = "Swap" ->
            /\ i.class = "PlannedSwap" /\ i.role # "Primary"
            /\ ValidConfiguration(i.current) /\ ValidConfiguration(i.previous)
            /\ i.previous.epoch < i.epoch /\ i.current.epoch = i.epoch
      [] i.program \in {"Configuration", "CatchUp"} ->
            i.class = "Authority" /\ ValidConfiguration(i.current)
      [] i.program = "Build" -> i.class = "Build" /\ i.attempt = i.id
      [] i.program \in {"Remove", "Close", "Abort"} -> i.class = i.program
      [] OTHER -> i.class = "Authority"

ValidIntent(i) ==
    /\ i.rev > 0
    /\ i.program \in Recipes => ValidLifecycle(i)
    /\ i.program \notin Recipes \cup {None} => ValidProgram(i)

LifecycleInstructions(i) ==
    IF i.program = "SecondaryEpochAdvance" THEN <<"Epoch">>
    ELSE <<"ReplicatorPrimary">>
         \o (IF i.program = "FailoverPromotion" THEN <<"Epoch">> ELSE <<>>)
         \o <<"ApplicationPrimary">>
         \o (IF i.loss THEN <<"DataLoss">>
             ELSE IF i.program = "InitialPrimary" THEN <<"CurrentConfiguration", "Access">>
             ELSE <<"CatchUpConfiguration", "CatchUp", "Access">>)

Instructions(i) ==
    CASE i.program = "Open" -> <<"ApplicationOpen", "ReplicatorOpen">>
      [] i.program = "Role" -> <<"ReplicatorRole", "ApplicationRole">>
      [] i.program = "Epoch" -> <<"ProgramEpoch">>
      [] i.program = "Configuration" -> <<"Configuration">>
      [] i.program = "CatchUp" -> <<"Configuration", "FirstCatchUp">>
      [] i.program = "Progress" -> <<"Progress">>
      [] i.program = "Swap" ->
            <<"StartingConfiguration", "FirstCatchUp", "Revoke", "ProgramEpoch",
              "RefreshedConfiguration", "SecondCatchUp", "ReplicatorRole", "ApplicationRole">>
      [] i.program = "Build" -> <<"Build">>
      [] i.program = "Remove" -> <<"Remove">>
      [] i.program = "Close" -> <<"Revoke", "ReplicatorClose", "ApplicationClose", "Cleanup">>
      [] i.program = "Abort" -> <<"Revoke", "Abort", "Cleanup">>
      [] i.program \in Recipes -> LifecycleInstructions(i)
      [] OTHER -> <<>>

Repeatable(instruction) == instruction \notin {"Build", "DataLoss"}

\* Mutant: what was in flight does not matter.
ReplayableAlways(rec) == Intent(rec.id).program # None
Replayable(rec) ==
    Intent(rec.id).program # None /\ (rec.flying = None \/ Repeatable(rec.flying))

Complete(rec) == rec.flying = None /\ rec.done = Len(Instructions(Intent(rec.id)))

(***************************************************************************)
(* Which operations go together.                                           *)
(***************************************************************************)
Authoritative == {"Authority", "PlannedSwap"}
Targeted == {"Build", "Remove"}

ActiveRelation(old, new) ==
    LET o == old.class
        n == new.class
        same == old.rev = new.rev
        newer == new.rev > old.rev
    IN CASE o \in {"PermanentFault", "Restart", "DropReplacement", "Abort"} ->
                IF IsTerminal(n) THEN "attach" ELSE "reject"
         [] n \in {"PermanentFault", "Restart", "DropReplacement"} -> "supersede"
         [] o = "TransientFault" -> IF IsTerminal(n) THEN "attach" ELSE "reject"
         [] n = "Abort" -> "supersede"
         [] o = "Close" -> IF n = "Close" THEN "attach"
                           ELSE IF n = "TransientFault" THEN "supersede" ELSE "reject"
         [] n \in {"TransientFault", "Close"} -> "supersede"
         [] o \in Targeted /\ n \in Targeted ->
                IF old.target # new.target THEN (IF same THEN "coexist" ELSE "reject")
                ELSE IF o = "Build" /\ n = "Remove" /\ same THEN "supersede" ELSE "reject"
         [] n \in Authoritative -> IF newer THEN "supersede" ELSE "reject"
         [] o = "PlannedSwap" /\ n = "Build" -> "reject"
         [] OTHER -> IF same THEN "coexist" ELSE "reject"

RetainedRelation(old, new) ==
    LET o == old.class
        n == new.class
    IN CASE o \in {"Close", "Abort", "PermanentFault", "Restart", "DropReplacement"} ->
                IF IsTerminal(n) THEN "attach" ELSE "reject"
         [] o = "TransientFault" -> IF n = "PermanentFault" THEN "supersede"
                                    ELSE IF IsTerminal(n) THEN "attach" ELSE "reject"
         [] o \in Authoritative /\ n \in Authoritative ->
                IF new.rev <= old.rev THEN "reject" ELSE "coexist"
         [] o \in Authoritative /\ n \in Targeted ->
                IF old.rev # new.rev THEN "reject" ELSE "coexist"
         [] OTHER -> "coexist"

(***************************************************************************)
(* The store's transactions.                                               *)
(***************************************************************************)
Recorded == {id \in Ids : store.ops[id] # None}

NewRecord(id, stage, disposition, blockers) ==
    [id |-> id, stage |-> stage, disposition |-> disposition, superseded |-> None,
     blockers |-> blockers, flying |-> None, done |-> 0, note |-> None]

ConfiguredMembers(i) ==
    (IF i.current = None THEN {} ELSE i.current.members)
    \cup (IF i.previous = None THEN {} ELSE i.previous.members)

\* The operations whose configuration a build may not touch.
TopologyOperations ==
    {id \in Recorded :
        \/ IF store.topology # None THEN id = store.topology
           ELSE /\ id = store.current
                /\ Intent(id).program \in Recipes \cup {"Configuration", "CatchUp", "Swap"}
        \/ /\ Intent(id).program = "Swap"
           /\ store.ops[id].stage # "Completed" /\ store.ops[id].superseded = None}

BeginAllowed(i) ==
    /\ ~IsTerminal(i.class) =>
          /\ \A id \in Recorded : Intent(id).session = i.session
          /\ store.barriers = {}
    /\ i.program = "Build" =>
          /\ i.target \notin {Intent(a).target : a \in store.builds}
          /\ \A id \in TopologyOperations : i.target \notin ConfiguredMembers(Intent(id))
    /\ i.program = "Remove" => i.attempt \in store.builds
    /\ i.program = "Swap" =>
          /\ i.previous.primary = i.self
          /\ \E id \in Recorded :
                /\ store.ops[id].stage = "Completed"
                /\ store.ops[id].disposition = "Succeeded"
                /\ \/ Intent(id).program \in Recipes \ {"SecondaryEpochAdvance"}
                   \/ Intent(id).program = "Role" /\ Intent(id).role = "Primary"
    /\ i.program \in Recipes =>
          \A id \in Recorded : Intent(id).program \in Recipes => Intent(id).epoch < i.epoch

BeginPublicOperation(i, blockers, displaced) ==
    LET exact == {b \in blockers : store.ops[b].stage # "Completed"}
        fault == IF i.class = "PermanentFault" THEN "Permanent"
                 ELSE IF i.class = "TransientFault" /\ store.fault = None THEN "Transient"
                 ELSE store.fault
    IN [store EXCEPT
            !.ops = [id \in Ids |->
                        IF id = i.id
                        THEN NewRecord(id, IF exact = {} THEN "Ready" ELSE "Waiting", None, exact)
                        ELSE IF id \in displaced
                        THEN [store.ops[id] EXCEPT !.superseded = i.id] ELSE store.ops[id]],
            !.barriers = IF i.loss THEN @ \cup {i.id} ELSE @,
            !.current = IF i.class = "Authority" \/ IsTerminal(i.class) THEN i.id ELSE @,
            !.topology = IF i.program \in Recipes \cup {"Configuration", "CatchUp"}
                         THEN i.id ELSE @,
            !.builds = IF i.program = "Build" THEN @ \cup {i.id} ELSE @,
            !.revoked = @ \/ IsTerminal(i.class),
            !.terminal = @ \/ IsTerminal(i.class),
            !.fault = fault]

AttachPublicOperation(i, owner) ==
    LET over == store.ops[owner].stage = "Completed"
        fault == i.class \in {"TransientFault", "PermanentFault"}
    IN [store EXCEPT
            !.ops[i.id] = NewRecord(i.id, IF over THEN "Completed" ELSE "Waiting", "Attached",
                                    IF over THEN {} ELSE {owner}),
            !.current = i.id,
            !.revoked = @ \/ fault,
            !.terminal = @ \/ fault,
            !.fault = IF i.class = "PermanentFault" THEN "Permanent"
                      ELSE IF i.class = "TransientFault" /\ @ = None THEN "Transient" ELSE @]

\* The stage, the sequence of instructions and the supersession a transition checks.
ValidTransitions ==
    {<<"Waiting", "Ready">>, <<"Waiting", "ContainmentPending">>, <<"Waiting", "Completed">>,
     <<"Ready", "Running">>, <<"Running", "Ready">>, <<"Ready", "ContainmentPending">>,
     <<"Ready", "Completed">>, <<"Running", "CallbackApplied">>,
     <<"CallbackApplied", "Completed">>, <<"CallbackApplied", "ContainmentPending">>,
     <<"Running", "ContainmentPending">>, <<"Running", "Completed">>,
     <<"ContainmentPending", "Completed">>}

AdvanceAllowed(rec, expected, next, disposition) ==
    /\ rec.stage = expected
    /\ <<expected, next>> \in ValidTransitions
    /\ next = "CallbackApplied" /\ disposition = "Succeeded" => Complete(rec)
    /\ rec.superseded # None =>
          /\ next \notin {"CallbackApplied", "Running", "Ready"}
          /\ ~(expected = "CallbackApplied" /\ next = "Completed" /\ disposition = None)
    /\ next = "Completed" => disposition # None \/ rec.disposition # None

Advanced(rec, next, disposition) ==
    [rec EXCEPT !.stage = next,
                !.disposition = IF disposition = None THEN @ ELSE disposition,
                !.blockers = IF next = "Ready" THEN {} ELSE @,
                !.flying = IF next = "Ready" THEN None ELSE @]

\* What an instruction finds when it starts, and when its outcome is recorded.
InstructionAllowed(i, index) ==
    LET rec == store.ops[i.id]
        instruction == Instructions(i)[index]
    IN /\ rec.stage = "Running" /\ rec.superseded = None /\ rec.done + 1 = index
       /\ \/ i.class = "Authority"
          \/ /\ i.class = "PlannedSwap"
             /\ instruction \in {"ProgramEpoch", "RefreshedConfiguration", "SecondCatchUp",
                                 "ReplicatorRole", "ApplicationRole"}
          => store.current = i.id
       /\ instruction \in {"CurrentConfiguration", "CatchUpConfiguration", "CatchUp", "Access",
                           "Configuration", "StartingConfiguration", "RefreshedConfiguration",
                           "FirstCatchUp", "SecondCatchUp", "Build"}
          => store.barriers = {}

StartedInstruction(i, index) ==
    LET instruction == Instructions(i)[index]
    IN [store EXCEPT
            !.ops[i.id].flying = instruction,
            !.revoked = @ \/ instruction \in {"Revoke", "Abort", "ReplicatorClose"},
            !.current = IF instruction = "Revoke" THEN i.id ELSE @,
            !.topology = IF instruction = "Revoke" THEN i.id ELSE @]

FinishedInstruction(i, index, note) ==
    LET instruction == Instructions(i)[index]
    IN [store EXCEPT
            !.ops[i.id].flying = None,
            !.ops[i.id].done = index,
            !.ops[i.id].note = IF note = None THEN @ ELSE note,
            !.revoked = IF instruction = "Access" /\ ~store.terminal THEN FALSE ELSE @,
            !.builds = IF instruction = "Remove" THEN @ \ {i.attempt} ELSE @,
            !.absent = IF instruction = "Remove" THEN @ \cup {i.attempt} ELSE @]

(***************************************************************************)
(* The state.                                                              *)
(***************************************************************************)
Object(rec, needs) ==
    [rec |-> rec, task |-> FALSE, owned |-> FALSE, bound |-> FALSE, needs |-> needs,
     coordinating |-> FALSE]
Idle == [at |-> "none", next |-> 1, start |-> 0, failed |-> FALSE, aborted |-> FALSE]
FreshApp == [replicator |-> None, application |-> None, configuration |-> None,
             aborted |-> FALSE]

Init ==
    /\ world \in Worlds
    /\ left = [crash |-> world.crash, store |-> world.store, call |-> world.call,
               shut |-> world.shut, refuse |-> 1,
               parent |-> world.parent, die |-> world.die]
    /\ store = [ops |-> [id \in Ids |-> None], barriers |-> {}, current |-> None,
                topology |-> None, builds |-> {}, absent |-> {}, revoked |-> FALSE,
                terminal |-> FALSE, fault |-> None]
    /\ session = 1
    /\ mem = [id \in Ids |-> None]
    /\ lock = [id \in Ids |-> None]
    /\ admission = None
    /\ jobs = {}
    /\ dispatch = {}
    /\ fence = FALSE /\ shutting = FALSE
    /\ root = [id \in Ids |-> Idle]
    /\ orphan = [id \in Ids |-> None]
    /\ witness = [id \in Ids |-> FALSE]
    /\ app = FreshApp
    /\ invoked = [id \in Ids |-> 0]

Known == {id \in Ids : mem[id] # None}
Free(id) == lock[id] = None
Over(stage) == stage \in {"Completed", "ContainmentPending"}
Contained(id) == ~mem[id].bound \/ witness[id]

\* A transaction may fail.
Outcomes == {TRUE} \cup (IF left.store > 0 THEN {FALSE} ELSE {})
Spend(ok) == left' = IF ok THEN left ELSE [left EXCEPT !.store = @ - 1]

(***************************************************************************)
(* Admission.                                                              *)
(***************************************************************************)
HighestRetained ==
    LET retained == {Intent(id).rev : id \in {k \in Known : mem[k].rec.stage = "Completed"
                                                    /\ Intent(k).class \in Authoritative}}
    IN IF retained = {} THEN 0 ELSE CHOOSE r \in retained : \A q \in retained : q <= r

Relevant(id) ==
    /\ mem[id].rec.superseded = None /\ mem[id].rec.disposition # "Attached"
    /\ ~(/\ mem[id].rec.stage = "Completed" /\ Intent(id).class \in Authoritative
         /\ Intent(id).rev < HighestRetained)

Relation(id, i) ==
    IF ~Relevant(id) THEN "coexist"
    ELSE IF mem[id].rec.stage = "Completed" THEN RetainedRelation(Intent(id), i)
    ELSE ActiveRelation(Intent(id), i)

\* A patient caller asks for an operation when the ones before it have ended.
Asked(i) ==
    world.patient => \A j \in Intents : j.rev < i.rev =>
                        store.ops[j.id] # None /\ store.ops[j.id].stage = "Completed"

Admissible(i) ==
    /\ Asked(i)
    /\ admission = None /\ ~shutting
    /\ ValidIntent(i)
    /\ fence => IsTerminal(i.class)
    /\ i.session = session

Live(id) == mem[id].coordinating \/ (mem[id].task /\ root[id].at # "ended")

FaultClass(i) == i.class \in {"TransientFault", "PermanentFault"}

\* fence_and_schedule_fault_containment
FaultJobs(i, objects) ==
    LET others == {id \in objects : ~IsTerminal(Intent(id).class)}
    IN IF FaultClass(i) /\ others # {}
       THEN {[kind |-> "fence", of |-> i.id, todo |-> others, at |-> "cancel", failed |-> FALSE]}
       ELSE {}

\* A launch returns: terminal operations fence the registry, an abort aborts the
\* object at once, and the operation is started when it is ready.
Launched(i, rec) ==
    /\ fence' = (fence \/ IsTerminal(i.class) \/ store'.terminal)
    /\ app' = [app EXCEPT !.aborted = @ \/ (i.program = "Abort" /\ ~Over(rec.stage))]
    /\ dispatch' = IF rec.stage \in {"Ready", "Waiting"} /\ rec.disposition # "Attached"
                   THEN dispatch \cup {i.id} ELSE dispatch

\* A redelivered intent finds its object.  Only the redeliveries that have an effect
\* are steps: the operation is not running, or a fault has work to fence.
LaunchAgain(i) ==
    /\ Admissible(i)
    /\ i.id \in Known
    /\ ~(mem[i.id].needs /\ ~Live(i.id))
    /\ \/ /\ mem[i.id].rec.stage \in {"Ready", "Waiting"} /\ mem[i.id].rec.disposition # "Attached"
          /\ ~mem[i.id].task /\ i.id \notin dispatch
       \/ \E j \in FaultJobs(i, Known) :
             /\ \A k \in jobs : k.kind # "fence"
             /\ \E id \in j.todo : ~Over(mem[id].rec.stage)
    /\ store' = store
    /\ Launched(i, mem[i.id].rec)
    /\ jobs' = jobs \cup FaultJobs(i, Known)
    /\ UNCHANGED <<world, left, session, mem, lock, admission, shutting, root, orphan, witness,
                   invoked>>

\* Behind a history barrier only terminal operations are admitted; a newer request
\* still cancels the older one whose history is in doubt.
RejectBehindBarrier(i) ==
    LET doubtful == {id \in Known : Intent(id).rev < i.rev /\ Intent(id).loss}
    IN /\ Admissible(i) /\ i.id \notin Known
       /\ ~IsTerminal(i.class) /\ store.barriers # {}
       /\ left.refuse > 0
       /\ left' = [left EXCEPT !.refuse = @ - 1]
       /\ jobs' = jobs \cup {[kind |-> "barrier", of |-> i.id, todo |-> doubtful,
                              at |-> "cancel", failed |-> FALSE]}
       /\ doubtful # {} /\ \E id \in doubtful : ~Over(mem[id].rec.stage)
       /\ UNCHANGED <<world, store, session, mem, lock, admission, dispatch, fence,
                      shutting, root, orphan, witness, app, invoked>>

New(i) ==
    /\ Admissible(i) /\ i.id \notin Known
    /\ ~IsTerminal(i.class) => store.barriers = {}
    /\ \A id \in Known : Relation(id, i) # "reject"

Attach(i) ==
    LET owners == {id \in Known : Relation(id, i) = "attach"}
        owner == Least(owners)
    IN /\ New(i) /\ owners # {}
       /\ store.ops[owner].superseded = None /\ store.ops[owner].disposition # "Attached"
       /\ \E ok \in Outcomes :
            /\ Spend(ok)
            /\ IF ok
               THEN /\ store' = AttachPublicOperation(i, owner)
                    /\ mem' = [mem EXCEPT ![i.id] = Object(store'.ops[i.id], FALSE)]
                    /\ Launched(i, store'.ops[i.id])
                    /\ jobs' = jobs \cup FaultJobs(i, Known)
               ELSE UNCHANGED <<store, mem, fence, app, dispatch, jobs>>
       /\ UNCHANGED <<world, session, lock, admission, shutting, root, orphan, witness, invoked>>

\* The decision reads the published records; the transaction reads the durable ones.
Begin(i) ==
    LET displaced == {id \in Known : Relation(id, i) = "supersede"}
        blockers == displaced \cup UNION {mem[id].rec.blockers : id \in displaced}
    IN /\ New(i) /\ \A id \in Known : Relation(id, i) # "attach"
       /\ BeginAllowed(i)
       /\ \A id \in displaced : store.ops[id].superseded = None
       /\ store' = BeginPublicOperation(i, blockers, displaced)
       /\ admission' = [op |-> i.id, todo |-> displaced, displaced |-> displaced,
                        read |-> None]
       /\ UNCHANGED <<world, left, session, mem, lock, jobs, dispatch, fence, shutting, root,
                      orphan, witness, app, invoked>>

\* mark_superseded_by reads the published record and then replaces it.
MarkRead ==
    /\ admission # None /\ admission.todo # {} /\ admission.read = None
    /\ admission' = [admission EXCEPT !.read = mem[Least(admission.todo)].rec]
    /\ UNCHANGED <<world, left, store, session, mem, lock, jobs, dispatch, fence, shutting, root,
                   orphan, witness, app, invoked>>
MarkWrite ==
    /\ admission # None /\ admission.read # None
    /\ LET id == Least(admission.todo)
       IN /\ mem' = [mem EXCEPT ![id].rec = [admission.read EXCEPT !.superseded = admission.op]]
          /\ admission' = [admission EXCEPT !.todo = @ \ {id}, !.read = None]
    /\ UNCHANGED <<world, left, store, session, lock, jobs, dispatch, fence, shutting, root,
                   orphan, witness, app, invoked>>

\* The new object is registered and a task of its own cancels what it displaced.
Admitted ==
    /\ admission # None /\ admission.todo = {}
    /\ LET i == Intent(admission.op)
           displaced == admission.displaced
       IN /\ mem' = [mem EXCEPT ![i.id] = [Object(store.ops[i.id], FALSE)
                                            EXCEPT !.coordinating = displaced # {}]]
          /\ store' = store
          /\ Launched(i, store.ops[i.id])
          /\ jobs' = jobs \cup FaultJobs(i, Known)
                     \cup IF displaced = {} THEN {}
                          ELSE {[kind |-> "supersede", of |-> i.id, todo |-> displaced,
                                 at |-> "cancel", failed |-> FALSE]}
    /\ admission' = None
    /\ UNCHANGED <<world, left, session, lock, shutting, root, orphan, witness, invoked>>

(***************************************************************************)
(* The callback task.                                                      *)
(***************************************************************************)
Committed(id, rec, then) ==
    /\ store' = [store EXCEPT !.ops[id] = rec]
    /\ lock' = [lock EXCEPT ![id] = [rec |-> rec, then |-> then]]

\* A transaction failed after the operation was admitted: recovery reloads it.
RecordFailure(id) == mem' = [mem EXCEPT ![id].needs = TRUE]

SpawnRoot(id) ==
    /\ id \in dispatch /\ id \in Known /\ Free(id)
    /\ mem[id].rec.stage # "Waiting"
    /\ dispatch' = dispatch \ {id}
    /\ IF mem[id].rec.stage = "Ready" /\ ~shutting /\ ~mem[id].task
       THEN \E ok \in Outcomes :
              LET runs == ok /\ AdvanceAllowed(store.ops[id], "Ready", "Running", None)
                  program == Intent(id).program # None
              IN /\ Spend(ok)
                 /\ mem' = [mem EXCEPT ![id].task = runs, ![id].owned = program,
                                       ![id].bound = world.witness /\ program]
                 /\ witness' = [witness EXCEPT ![id] = FALSE]
                 /\ IF runs
                    THEN Committed(id, Advanced(store.ops[id], "Running", None), "start")
                    ELSE UNCHANGED <<store, lock>>
       ELSE UNCHANGED <<left, store, lock, mem, witness>>
    /\ UNCHANGED <<world, session, admission, jobs, fence, shutting, root, orphan, app, invoked>>

\* The committed record replaces the published one, whatever was published since.
Publish(id) ==
    /\ lock[id] # None /\ lock[id].then # "complete"
    /\ mem' = [mem EXCEPT ![id].rec = lock[id].rec]
    /\ lock' = [lock EXCEPT ![id] = IF @.then = "applied" THEN [@ EXCEPT !.then = "complete"]
                                    ELSE None]
    /\ root' = CASE lock[id].then = "start" ->
                      [root EXCEPT ![id] = [Idle EXCEPT !.at = "begin",
                                                        !.next = lock[id].rec.done + 1,
                                                        !.start = lock[id].rec.done + 1,
                                                        !.failed = lock[id].rec.note = "LossError"]]
                 [] lock[id].then = "done" -> [root EXCEPT ![id].at = "ended"]
                 [] OTHER -> root
    /\ app' = IF lock[id].then = "start" /\ lock[id].rec.note = "CloseFailure"
              THEN [app EXCEPT !.aborted = TRUE] ELSE app
    /\ UNCHANGED <<world, left, store, session, admission, jobs, dispatch, fence, shutting,
                   orphan, witness, invoked>>

StartInstruction(id) ==
    LET i == Intent(id)
    IN /\ root[id].at = "begin"
       /\ IF root[id].failed \/ root[id].next > Len(Instructions(i))
          THEN /\ root' = [root EXCEPT ![id].at = "result"]
               /\ UNCHANGED <<left, store>>
          ELSE \E ok \in Outcomes :
                 /\ Spend(ok)
                 /\ IF /\ ok /\ InstructionAllowed(i, root[id].next)
                       /\ LET flying == store.ops[id].flying
                              instruction == Instructions(i)[root[id].next]
                          IN flying = None \/ (flying = instruction /\ Repeatable(instruction))
                    THEN /\ store' = StartedInstruction(i, root[id].next)
                         /\ root' = [root EXCEPT ![id].at = "call"]
                    ELSE /\ root' = [root EXCEPT ![id].at = "result", ![id].failed = TRUE]
                         /\ UNCHANGED store
       /\ orphan' = IF root'[id].at = "call" THEN [orphan EXCEPT ![id] = None] ELSE orphan
       /\ invoked' = IF /\ root'[id].at = "call"
                        /\ ~Repeatable(Instructions(i)[root[id].next])
                     THEN [invoked EXCEPT ![id] = @ + 1] ELSE invoked
       /\ UNCHANGED <<world, session, mem, lock, admission, jobs, dispatch, fence, shutting,
                      witness, app>>

\* What a callback does to the object.
Effect(i, instruction) ==
    CASE instruction = "ReplicatorPrimary" -> [app EXCEPT !.replicator = "Primary"]
      [] instruction = "ApplicationPrimary" -> [app EXCEPT !.application = "Primary"]
      [] instruction = "ReplicatorRole" -> [app EXCEPT !.replicator = i.role]
      [] instruction = "ApplicationRole" -> [app EXCEPT !.application = i.role]
      [] instruction \in {"CurrentConfiguration", "CatchUpConfiguration", "Configuration",
                          "StartingConfiguration", "RefreshedConfiguration"} ->
            [app EXCEPT !.configuration = i.id]
      [] instruction = "ReplicatorClose" -> [app EXCEPT !.replicator = "Closed"]
      [] instruction = "ApplicationClose" -> [app EXCEPT !.application = "Closed"]
      [] instruction = "Abort" -> [app EXCEPT !.aborted = TRUE]
      [] OTHER -> app

\* A catch-up that is the first instruction after a recovery installs its
\* configuration again.
Reinstalls(id, instruction) ==
    /\ instruction \in {"CatchUp", "FirstCatchUp", "SecondCatchUp"}
    /\ root[id].next = root[id].start /\ root[id].start > 1

Callback(id) ==
    LET i == Intent(id)
        instruction == Instructions(i)[root[id].next]
        done == IF Reinstalls(id, instruction) THEN [app EXCEPT !.configuration = i.id]
                ELSE Effect(i, instruction)
    IN /\ root[id].at = "call"
       /\ instruction = "Cleanup" => Contained(id)
       /\ \/ /\ app' = done
             /\ root' = [root EXCEPT ![id].at = "outcome"]
             /\ UNCHANGED left
          \/ /\ left.call > 0
             /\ left' = [left EXCEPT !.call = @ - 1]
             /\ IF instruction \in {"ReplicatorClose", "ApplicationClose"}
                THEN /\ app' = [app EXCEPT !.aborted = TRUE]
                     /\ root' = [root EXCEPT ![id].at = "noted"]
                ELSE IF instruction = "DataLoss"
                THEN root' = [root EXCEPT ![id].at = "noted"] /\ UNCHANGED app
                ELSE /\ instruction \notin {"Access", "Revoke", "Abort", "Cleanup"}
                     /\ root' = [root EXCEPT ![id].at = "result", ![id].failed = TRUE]
                     /\ orphan' = [orphan EXCEPT ![id] = instruction]
                     /\ UNCHANGED app
       /\ (root'[id].at # "result" => UNCHANGED orphan)
       /\ UNCHANGED <<world, store, session, mem, lock, admission, jobs, dispatch, fence,
                      shutting, witness, invoked>>

RecordOutcome(id) ==
    LET i == Intent(id)
        index == root[id].next
        note == IF root[id].at # "noted" THEN None
                ELSE IF Instructions(i)[index] = "DataLoss" THEN "LossError" ELSE "CloseFailure"
    IN /\ root[id].at \in {"outcome", "noted"}
       /\ \E ok \in Outcomes :
            /\ Spend(ok)
            /\ IF /\ ok /\ InstructionAllowed(i, index)
                  /\ store.ops[id].flying = Instructions(i)[index]
                  /\ Instructions(i)[index] = "Remove" => i.attempt \in store.builds
               THEN /\ store' = FinishedInstruction(i, index, note)
                    /\ root' = [root EXCEPT ![id].at = "begin", ![id].next = index + 1,
                                            ![id].failed = note = "LossError"]
               ELSE /\ root' = [root EXCEPT ![id].at = "result", ![id].failed = TRUE]
                    /\ UNCHANGED store
       /\ UNCHANGED <<world, session, mem, lock, admission, jobs, dispatch, fence, shutting,
                      orphan, witness, app, invoked>>

\* record_root_result, its first transaction.
RecordRootResult(id) ==
    LET failed == root[id].failed
        uncontained == (failed /\ mem[id].owned) \/ ~Contained(id)
        next == IF uncontained THEN "ContainmentPending" ELSE "CallbackApplied"
        disposition == IF failed THEN "Failed" ELSE "Succeeded"
    IN /\ root[id].at = "result" /\ Free(id)
       /\ \E ok \in Outcomes :
            /\ Spend(ok)
            /\ IF /\ ok /\ mem[id].rec.stage = "Running"
                  /\ AdvanceAllowed(store.ops[id], "Running", next, disposition)
               THEN /\ Committed(id, Advanced(store.ops[id], next, disposition),
                                 IF uncontained THEN "done" ELSE "applied")
                    /\ root' = [root EXCEPT ![id].at = "recording"]
                    /\ UNCHANGED mem
               ELSE /\ RecordFailure(id)
                    /\ root' = [root EXCEPT ![id].at = "ended"]
                    /\ UNCHANGED <<store, lock>>
       /\ UNCHANGED <<world, session, admission, jobs, dispatch, fence, shutting, orphan,
                      witness, app, invoked>>

\* record_root_result, its second one.
CompleteRootResult(id) ==
    /\ lock[id] # None /\ lock[id].then = "complete"
    /\ \E ok \in Outcomes :
         /\ Spend(ok)
         /\ IF ok /\ AdvanceAllowed(store.ops[id], "CallbackApplied", "Completed", None)
            THEN /\ Committed(id, Advanced(store.ops[id], "Completed", None), "done")
                 /\ UNCHANGED <<mem, root>>
            ELSE /\ RecordFailure(id)
                 /\ root' = [root EXCEPT ![id].at = "ended"]
                 /\ lock' = [lock EXCEPT ![id] = None]
                 /\ UNCHANGED store
    /\ UNCHANGED <<world, session, admission, jobs, dispatch, fence, shutting, orphan, witness,
                   app, invoked>>

\* An aborted task stops where it waits; an interrupted callback may leave work.
StopRoot(id) ==
    /\ root[id].aborted /\ root[id].at \in {"begin", "call", "outcome", "noted", "result"}
    /\ root' = [root EXCEPT ![id].at = "ended"]
    /\ orphan' = IF root[id].at = "call"
                 THEN [orphan EXCEPT ![id] = Instructions(Intent(id))[root[id].next]]
                 ELSE orphan
    /\ UNCHANGED <<world, left, store, session, mem, lock, admission, jobs, dispatch, fence,
                   shutting, witness, app, invoked>>

(***************************************************************************)
(* Cancellation.                                                           *)
(***************************************************************************)
\* What cancel_root leaves of an operation whose task is gone.
Cancelled(id) == IF ~mem[id].owned /\ Contained(id) THEN "Completed" ELSE "ContainmentPending"

Persisted(id, j, next, disposition) ==
    LET stage == mem[id].rec.stage
    IN \E ok \in Outcomes :
         /\ Spend(ok)
         /\ IF ok /\ AdvanceAllowed(store.ops[id], stage, next, disposition)
            THEN /\ store' = [store EXCEPT !.ops[id] = Advanced(@, next, disposition)]
                 /\ mem' = [mem EXCEPT ![id].rec = store'.ops[id]]
                 /\ jobs' = (jobs \ {j}) \cup {[j EXCEPT !.todo = @ \ {id}, !.at = "cancel"]}
            ELSE /\ mem' = IF stage = "CallbackApplied" /\ j.kind # "fence" THEN mem
                           ELSE [mem EXCEPT ![id].needs = TRUE]
                 /\ jobs' = (jobs \ {j}) \cup
                             {[j EXCEPT !.todo = IF j.kind = "barrier" THEN {} ELSE @ \ {id},
                                        !.at = "cancel", !.failed = TRUE]}
                 /\ UNCHANGED store

\* The coordination tasks end before a shutdown cancels what is left.
Turn(j) == j.kind = "shutdown" => \A k \in jobs : k.kind # "supersede"

CancelRoot(j) ==
    LET id == Least(j.todo)
    IN /\ j.at = "cancel" /\ j.todo # {} /\ Free(id) /\ Turn(j)
       /\ IF Over(mem[id].rec.stage)
          THEN /\ jobs' = (jobs \ {j}) \cup {[j EXCEPT !.todo = @ \ {id}]}
               /\ UNCHANGED <<left, store, mem, root>>
          ELSE IF mem[id].task
          THEN /\ mem' = [mem EXCEPT ![id].task = FALSE]
               /\ root' = [root EXCEPT ![id].aborted = TRUE]
               /\ jobs' = (jobs \ {j}) \cup {[j EXCEPT !.at = "join"]}
               /\ UNCHANGED <<left, store>>
          ELSE Persisted(id, j, Cancelled(id), "Cancelled") /\ UNCHANGED root
       /\ UNCHANGED <<world, session, lock, admission, dispatch, fence, shutting, orphan, witness,
                      app, invoked>>

JoinRoot(j) ==
    LET id == Least(j.todo)
    IN /\ j.at = "join" /\ root[id].at = "ended" /\ Free(id)
       /\ IF Over(mem[id].rec.stage)
          THEN /\ jobs' = (jobs \ {j}) \cup {[j EXCEPT !.todo = @ \ {id}, !.at = "cancel"]}
               /\ UNCHANGED <<left, store, mem>>
          ELSE IF mem[id].rec.stage = "CallbackApplied"
          THEN IF mem[id].rec.superseded # None
               THEN Persisted(id, j, "ContainmentPending", "Ambiguous")
               ELSE Persisted(id, j, "Completed", None)
          ELSE Persisted(id, j, Cancelled(id), "Cancelled")
       /\ UNCHANGED <<world, session, lock, admission, dispatch, fence, shutting, root, orphan,
                      witness, app, invoked>>

\* A supersession that could not cancel everything gives up its own operation.
EndJob(j) ==
    LET id == j.of
    IN /\ j.at = "cancel" /\ j.todo = {} /\ Turn(j)
       /\ jobs' = jobs \ {j}
       /\ IF j.kind # "supersede" THEN UNCHANGED <<left, store, mem>>
          ELSE IF ~j.failed
          THEN mem' = [mem EXCEPT ![id].coordinating = FALSE] /\ UNCHANGED <<left, store>>
          ELSE \E ok \in Outcomes :
                 /\ Spend(ok)
                 /\ IF /\ ok /\ mem[id].rec.stage \in {"Waiting", "Ready"}
                       /\ AdvanceAllowed(store.ops[id], mem[id].rec.stage, "ContainmentPending",
                                         "Ambiguous")
                    THEN /\ store' = [store EXCEPT !.ops[id] =
                                        Advanced(@, "ContainmentPending", "Ambiguous")]
                         /\ mem' = [mem EXCEPT ![id].coordinating = FALSE, ![id].needs = TRUE,
                                               ![id].rec = store'.ops[id]]
                    ELSE /\ mem' = [mem EXCEPT ![id].coordinating = FALSE, ![id].needs = TRUE]
                         /\ UNCHANGED store
       /\ UNCHANGED <<world, session, lock, admission, dispatch, fence, shutting, root, orphan,
                      witness, app, invoked>>

(***************************************************************************)
(* Containment, waiters and recovery.                                      *)
(***************************************************************************)
\* settle_witness, and the caller that has contained the work of an operation.
CompleteContainment(id) ==
    /\ id \in Known /\ mem[id].rec.stage = "ContainmentPending" /\ Free(id)
    /\ IF mem[id].bound THEN witness[id]
       ELSE orphan[id] = None /\ root[id].at \in {"none", "ended"}
    /\ \E ok \in Outcomes :
         /\ Spend(ok)
         /\ IF ok /\ AdvanceAllowed(store.ops[id], "ContainmentPending", "Completed", None)
            THEN /\ store' = [store EXCEPT !.ops[id] = Advanced(@, "Completed", None)]
                 /\ mem' = [mem EXCEPT ![id].rec = store'.ops[id]]
            ELSE RecordFailure(id) /\ UNCHANGED store
    /\ UNCHANGED <<world, session, lock, admission, jobs, dispatch, fence, shutting, root, orphan,
                   witness, app, invoked>>

\* Mutant: an operation whose work is still to be contained does not block.
UnblockedEarly(id) ==
    \A b \in mem[id].rec.blockers : b \in Known /\ Over(mem[b].rec.stage)
Unblocked(id) ==
    \A b \in mem[id].rec.blockers : b \in Known /\ mem[b].rec.stage = "Completed"

\* refresh_waiters: an attachment ends with its owner, a waiter becomes ready.
RefreshWaiter(id) ==
    LET attached == mem[id].rec.disposition = "Attached"
        next == IF attached THEN "Completed" ELSE "Ready"
    IN /\ id \in Known /\ mem[id].rec.stage = "Waiting" /\ Free(id) /\ Unblocked(id)
       /\ \E ok \in Outcomes :
            /\ Spend(ok)
            /\ IF ok /\ AdvanceAllowed(store.ops[id], "Waiting", next, None)
               THEN Committed(id, Advanced(store.ops[id], next, None), "waited") /\ UNCHANGED mem
               ELSE /\ IF attached THEN UNCHANGED mem ELSE RecordFailure(id)
                    /\ UNCHANGED <<store, lock>>
       /\ UNCHANGED <<world, session, admission, jobs, dispatch, fence, shutting, root, orphan,
                      witness, app, invoked>>

\* recover_if_needed: what becomes of a record nobody runs.
Recovered(rec) ==
    LET same == Intent(rec.id).session = session
        to(next, disposition) ==
            IF AdvanceAllowed(rec, rec.stage, next, disposition)
            THEN Advanced(rec, next, disposition) ELSE None
    IN IF Over(rec.stage) \/ rec.disposition = "Attached" THEN rec
       ELSE IF /\ same /\ rec.superseded = None /\ Replayable(rec)
               /\ rec.stage \in {"Ready", "Running"}
       THEN IF rec.stage = "Ready" THEN rec ELSE to("Ready", None)
       ELSE IF rec.stage = "CallbackApplied" /\ same
       THEN IF rec.superseded # None THEN to("ContainmentPending", "Ambiguous")
            ELSE to("Completed", None)
       ELSE to("ContainmentPending", "Ambiguous")

RecoverIfNeeded(id) ==
    /\ id \in Known /\ admission = None /\ Free(id)
    /\ mem[id].needs /\ ~Live(id)
    /\ \E ok \in Outcomes :
         LET rec == store.ops[id]
             next == IF ok THEN Recovered(rec) ELSE None
         IN /\ Spend(ok)
            /\ IF next # None
               THEN /\ store' = [store EXCEPT !.ops[id] = next]
                    /\ mem' = [mem EXCEPT ![id].rec = next, ![id].needs = FALSE,
                                          ![id].task = FALSE]
               ELSE /\ mem' \in {mem, [mem EXCEPT ![id].rec = rec, ![id].task = FALSE]}
                    /\ UNCHANGED store
    /\ UNCHANGED <<world, session, lock, admission, jobs, dispatch, fence, shutting, root, orphan,
                   witness, app, invoked>>

\* The registry stops: its control tasks are aborted, then everything is cancelled.
Shutdown ==
    /\ left.shut > 0 /\ admission = None /\ ~shutting
    /\ left' = [left EXCEPT !.shut = @ - 1]
    /\ shutting' = TRUE
    /\ dispatch' = {}
    /\ jobs' = {j \in jobs : j.kind = "supersede"}
               \cup {[kind |-> "shutdown", of |-> None, todo |-> Known, at |-> "cancel",
                      failed |-> FALSE]}
    /\ UNCHANGED <<world, store, session, mem, lock, admission, fence, root, orphan, witness, app,
                   invoked>>

(***************************************************************************)
(* The surroundings.                                                       *)
(***************************************************************************)
\* Work an interrupted callback left behind takes effect late.
LateEffect(id) ==
    /\ orphan[id] # None
    /\ app' = Effect(Intent(id), orphan[id])
    /\ orphan' = [orphan EXCEPT ![id] = None]
    /\ UNCHANGED <<world, left, store, session, mem, lock, admission, jobs, dispatch, fence,
                   shutting, root, witness, invoked>>

\* The caller contains the work of an operation and says so.
Contain(id) ==
    /\ id \in Known
    /\ \/ root[id].at \in {"result", "recording", "ended"}
       \/ root[id].at = "none" /\ mem[id].rec.stage = "ContainmentPending"
       \/ root[id].at = "call" /\ Instructions(Intent(id))[root[id].next] = "Cleanup"
    /\ orphan[id] # None \/ (mem[id].bound /\ ~witness[id])
    /\ orphan' = [orphan EXCEPT ![id] = None]
    /\ witness' = [witness EXCEPT ![id] = mem[id].bound]
    /\ UNCHANGED <<world, left, store, session, mem, lock, admission, jobs, dispatch, fence,
                   shutting, root, app, invoked>>

\* Mutant: the loaded records are not marked for recovery.
LoadRecordsUnmarked ==
    /\ session' = session + 1
    /\ mem' = [id \in Ids |-> IF store.ops[id] = None THEN None ELSE Object(store.ops[id], FALSE)]
    /\ lock' = [id \in Ids |-> None]
    /\ admission' = None /\ jobs' = {} /\ dispatch' = {}
    /\ fence' = store.terminal /\ shutting' = FALSE
    /\ root' = [id \in Ids |-> Idle]
    /\ orphan' = [id \in Ids |-> None]
    /\ witness' = [id \in Ids |-> FALSE]
    /\ app' = FreshApp
    /\ UNCHANGED <<world, store, invoked>>
\* A new process loads the durable records.
LoadRecords ==
    /\ session' = session + 1
    /\ mem' = [id \in Ids |-> IF store.ops[id] = None THEN None ELSE Object(store.ops[id], TRUE)]
    /\ lock' = [id \in Ids |-> None]
    /\ admission' = None /\ jobs' = {} /\ dispatch' = {}
    /\ fence' = store.terminal /\ shutting' = FALSE
    /\ root' = [id \in Ids |-> Idle]
    /\ orphan' = [id \in Ids |-> None]
    /\ witness' = [id \in Ids |-> FALSE]
    /\ app' = FreshApp
    /\ UNCHANGED <<world, store, invoked>>

\* The process dies and starts again.
Crash ==
    /\ left.crash > 0
    /\ left' = [left EXCEPT !.crash = @ - 1]
    /\ LoadRecords

AdmitSteps ==
    \/ \E i \in Intents : RejectBehindBarrier(i) \/ Attach(i) \/ Begin(i)
    \/ MarkRead \/ MarkWrite \/ Admitted
RootSteps(id) ==
    \/ Publish(id) \/ StartInstruction(id) \/ Callback(id)
    \/ RecordOutcome(id) \/ RecordRootResult(id) \/ CompleteRootResult(id) \/ StopRoot(id)
JobSteps(j) == CancelRoot(j) \/ JoinRoot(j) \/ EndJob(j)
OwnerSteps(id) == CompleteContainment(id) \/ RefreshWaiter(id) \/ RecoverIfNeeded(id)

Next ==
    \/ \E i \in Intents : LaunchAgain(i)
    \/ AdmitSteps
    \/ \E id \in Ids : SpawnRoot(id) \/ RootSteps(id) \/ OwnerSteps(id) \/ LateEffect(id) \/ Contain(id)
    \/ \E j \in jobs : JobSteps(j)
    \/ Shutdown \/ Crash

Spec == Init /\ [][Next]_vars

(***************************************************************************)
(* Properties.                                                             *)
(***************************************************************************)
Executing(id) == root[id].at = "call"
Busy(id) == Executing(id) \/ orphan[id] # None

Compatible(i, j) == "coexist" \in {ActiveRelation(i, j), ActiveRelation(j, i)}

\* The callback of an operation never runs while work of an operation it does not
\* go together with is still running or may still take effect, whatever is
\* admitted, superseded, cancelled, recovered or retried meanwhile (the wait for
\* the blockers at operation.rs:1226-1243 and sqlite_store.rs:1892-1928).
CallbacksAreExclusive ==
    \A id \in Ids : Executing(id) =>
        \A other \in Ids \ {id} : Busy(other) => Compatible(Intent(id), Intent(other))

\* A build and a data-loss callback are invoked at most once for an operation,
\* over failed transactions, recoveries and restarts (public_lifecycle_program.rs:
\* 40-52, sqlite_store.rs:2253-2258).
UnrepeatableOnce == \A id \in Ids : invoked[id] <= 1

\* Mutant: the access of an earlier process counts.
WriteAccessOfAny ==
    LET id == store.current
    IN /\ id # None /\ ~fence
       /\ Intent(id).program \in Recipes \ {"SecondaryEpochAdvance"}
       /\ store.ops[id].stage = "Completed" /\ store.ops[id].superseded = None
       /\ store.ops[id].disposition = "Succeeded"
       /\ store.barriers = {} /\ ~store.revoked /\ ~store.terminal
       /\ Complete(store.ops[id])
\* The access the process reports.
WriteAccess ==
    LET id == store.current
    IN /\ id # None /\ ~fence
       /\ Intent(id).program \in Recipes \ {"SecondaryEpochAdvance"}
       /\ Intent(id).session = session
       /\ store.ops[id].stage = "Completed" /\ store.ops[id].superseded = None
       /\ store.ops[id].disposition = "Succeeded"
       /\ store.barriers = {} /\ ~store.revoked /\ ~store.terminal
       /\ Complete(store.ops[id])

\* Write access is reported only while the object is the primary with a
\* configuration installed and nothing that could demote, close or abort it is
\* running (public_lifecycle.rs:316-333).
ReportedPrimaryIsPrimary ==
    WriteAccess =>
        /\ app.replicator = "Primary" /\ app.application = "Primary"
        /\ app.configuration # None /\ ~app.aborted
        /\ \A id \in Ids : Busy(id) =>
              (IF orphan[id] # None THEN orphan[id]
               ELSE Instructions(Intent(id))[root[id].next])
                \notin {"ReplicatorRole", "ApplicationRole", "ReplicatorClose",
                        "ApplicationClose", "Abort"}
=============================================================================
