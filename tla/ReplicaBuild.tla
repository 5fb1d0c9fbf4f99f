---------------------------- MODULE ReplicaBuild ----------------------------
(***************************************************************************)
(* One replica build: the primary copies a snapshot and the operations     *)
(* behind it to an idle secondary while it goes on writing.                *)
(*                                                                         *)
(* On the source three tasks work on one build. The producer (runtime.rs)  *)
(* turns the snapshot and the operations into numbered items and puts them *)
(* on a bounded stream. The dispatcher (transport.rs) admits the target,   *)
(* sends one item per call and records what the target acknowledged. The   *)
(* waiter (build_replica) watches the recorded progress. Client writes add *)
(* operations to the build at the same time. The target stores each item   *)
(* in the application before it records its own progress. Both sides keep  *)
(* their progress across a restart and nothing else.                       *)
(***************************************************************************)
EXTENDS Naturals, Sequences, FiniteSets

CONSTANTS
    Boundary,      \* the replication boundary: the snapshot holds 1..Boundary
    MaxLsn,        \* bound: the last LSN a client write takes
    Chunks,        \* snapshot chunks
    StreamCap,     \* items on the copy stream, the one being sent included
    MaxPending,    \* MAX_BUILD_PENDING_OPERATIONS
    FaultSets      \* bound: the faults of a behaviour, each happening at most once

ASSUME BoundaryAssumption == Boundary \in Nat \ {0}
ASSUME BoundsAssumption ==
    MaxLsn \in Nat /\ Chunks \in Nat /\ StreamCap \in Nat /\ MaxPending \in Nat

None == 0
NoProgress == [seq |-> 0, lsn |-> 0, completed |-> FALSE, boundary |-> None]

VARIABLES
    highest,    \* the source's applied LSN
    fence,      \* the source's fence generation
    session,    \* process sessions of source and target
    durable,    \* build progress in the source's store
    out,        \* outbound_builds[build], or <<>>
    cancelled,  \* the build is in cancelled_outbound_builds
    prod,       \* the producer task
    stale,      \* producers of cancelled attempts that have not noticed yet
    stream,     \* items on the copy stream
    reading,    \* the dispatcher holds the reading end of the stream
    disp,       \* the dispatcher
    waiter,     \* build_replica
    host,       \* the attempts of the build in the custom replicator host
    tgt,        \* the target
    net,        \* items on their way to the target
    refused,    \* client writes that a build made fail
    faults      \* faults still to come

source == <<highest, fence, durable, out, cancelled, prod, stale, stream, reading, waiter, refused>>
vars == <<source, session, disp, host, tgt, net, faults>>

Idle == [pc |-> "idle", seq |-> 1, ops |-> {}, gen |-> 0]
NoAttempt == [queued |-> FALSE, cancelling |-> FALSE, accepted |-> FALSE]
\* current: no later attempt of the build has begun
Free == [pc |-> "idle", current |-> TRUE, peer |-> 0, item |-> <<>>, ack |-> <<>>, boundary |-> None]

Init ==
    /\ highest \in Boundary..Boundary + 1 /\ highest <= MaxLsn
    /\ fence = 1 /\ session = [source |-> 1, target |-> 1]
    /\ durable = NoProgress /\ out = <<>> /\ cancelled = FALSE
    /\ prod = Idle /\ stale = {} /\ stream = <<>> /\ reading = FALSE /\ disp = Free /\ waiter = "idle"
    /\ host = NoAttempt
    /\ tgt = [admitted |-> FALSE, source |-> 0, progress |-> NoProgress, chunks |-> 0,
              applied |-> {}, busy |-> <<>>]
    /\ net = {} /\ refused = {} /\ faults \in FaultSets

Chunk(n) == [seq |-> n, kind |-> "chunk", lsn |-> 0, boundary |-> None]
\* Mutant: the final item carries the catch-up boundary as its LSN.
FinalAtBoundary(n, b) == [seq |-> n, kind |-> "final", lsn |-> b, boundary |-> b]
Final(n, b) == [seq |-> n, kind |-> "final", lsn |-> Boundary, boundary |-> b]
Op(n, l) == [seq |-> n, kind |-> "op", lsn |-> l, boundary |-> None]
Failed == [seq |-> 0, kind |-> "error", lsn |-> 0, boundary |-> None]

\* outbound_builds holds an entry of the producer's generation.
Owned == out # <<>> /\ out[1].gen = prod.gen
Entry == out[1]
EmittedOps(e) == {i.lsn : i \in {j \in e.emitted : j.kind = "op"}}
Emit(e, i) == [e EXCEPT !.next = i.seq + 1, !.emitted = @ \cup {i}]
MaxOf(S) == CHOOSE x \in S : \A y \in S : y <= x

-----------------------------------------------------------------------------
\* Client writes (begin_write_locked): the operation joins the build's pending
\* ones until the producer has caught up, and goes on the stream afterwards.

\* The effect lock is held while the catch-up boundary is being frozen.
EffectLockFree == prod.pc # "freezing"

Write ==
    /\ EffectLockFree /\ highest < MaxLsn
    /\ ~(out # <<>> /\ Entry.catching /\ Cardinality(Entry.pending) >= MaxPending)
    /\ LET l == highest + 1
           i == Op(Entry.next, l)
       IN /\ highest' = l
          /\ IF out = <<>> \/ l \in EmittedOps(Entry)
             THEN UNCHANGED <<out, stream, refused>>
             ELSE IF Entry.final = None \/ Entry.catching
             THEN /\ out' = <<[Entry EXCEPT !.pending = @ \cup {l}]>>
                  /\ UNCHANGED <<stream, refused>>
             ELSE /\ out' = <<Emit(Entry, i)>>
                  /\ Entry.attached /\ reading => Len(stream) < StreamCap
                  /\ stream' = IF Entry.attached /\ reading THEN Append(stream, i) ELSE stream
                  /\ refused' = IF Entry.attached /\ ~reading THEN refused \cup {l} ELSE refused
    /\ UNCHANGED <<fence, durable, cancelled, prod, stale, reading, waiter, session, disp, host, tgt,
                   net, faults>>

-----------------------------------------------------------------------------
\* The host: one attempt of the build at a time.

\* enqueue_build and begin_build_attempt, for the first command and each repeat.
EnqueueBuild ==
    /\ ~host.queued /\ ~host.cancelling /\ ~host.accepted
    /\ host' = [host EXCEPT !.queued = TRUE]
    /\ disp' = [disp EXCEPT !.current = disp.pc = "idle"]
    /\ UNCHANGED <<source, session, tgt, net, faults>>

\* The target registers the source's session and admits the build, with the
\* progress its store holds, in its current fence generation.
AdmitBuild == tgt' = [tgt EXCEPT !.admitted = TRUE, !.source = session.source]

\* dispatch_build_locked up to the target's admission.
DispatchBuild ==
    /\ disp.pc = "idle" /\ host.queued /\ fence = 1
    /\ disp' = [Free EXCEPT !.pc = "admitted", !.peer = session.target]
    /\ AdmitBuild
    /\ UNCHANGED <<source, session, host, net, faults>>

\* prepare_copy under the effect lock, and build_replica beginning to wait. The
\* producer of the attempt before has usually noticed its cancellation; "stale" in
\* faults: not always.
PrepareCopy ==
    /\ disp.pc = "admitted" /\ EffectLockFree
    /\ prod.pc = "idle" \/ ("stale" \in faults /\ stale = {})
    /\ IF out # <<>> \/ fence # 1
       THEN /\ disp' = [disp EXCEPT !.pc = "failing"]
            /\ UNCHANGED source
       ELSE /\ out' = <<[progress |-> durable, final |-> None, next |-> 1, emitted |-> {},
                         pending |-> {}, catching |-> TRUE, attached |-> TRUE, gen |-> fence]>>
            /\ prod' = [Idle EXCEPT !.pc = "collecting", !.gen = fence,
                                    !.ops = Boundary + 1..highest]
            /\ stale' = IF prod.pc = "idle" THEN stale ELSE stale \cup {prod}
            /\ cancelled' = FALSE /\ waiter' = "waiting"
            /\ stream' = <<>> /\ reading' = TRUE
            /\ disp' = [disp EXCEPT !.pc = "copying"]
            /\ UNCHANGED <<highest, fence, durable, refused>>
    /\ UNCHANGED <<session, host, tgt, net, faults>>

\* accept_build: detach the stream, then publish the receipt of this attempt.
AcceptBuild ==
    /\ disp.pc = "copied" /\ waiter = "done" /\ EffectLockFree
    /\ IF out = <<>> \/ fence # 1 \/ ~disp.current \/ session.target # disp.peer
       THEN /\ disp' = [disp EXCEPT !.pc = "failing"]
            /\ out' = IF out = <<>> THEN out ELSE <<[Entry EXCEPT !.attached = FALSE]>>
            /\ UNCHANGED <<host, waiter>>
       ELSE /\ out' = <<[Entry EXCEPT !.attached = FALSE]>>
            /\ host' = [host EXCEPT !.accepted = TRUE, !.queued = FALSE]
            /\ disp' = Free /\ waiter' = "idle"
    /\ UNCHANGED <<highest, fence, durable, cancelled, prod, stale, stream, reading, refused, session,
                   tgt, net, faults>>

\* cancel_common_build_attempt_locked: the queue entry and the receipt go.
CancelledAttempt == [queued |-> FALSE, cancelling |-> TRUE, accepted |-> FALSE]

\* A failed attempt: cancel_common_build_attempt, unless another attempt began.
CancelAttempt ==
    /\ disp.pc = "failing"
    /\ reading' = FALSE /\ waiter' = "idle"
    /\ IF disp.current
       THEN /\ host' = CancelledAttempt
            /\ disp' = [disp EXCEPT !.pc = "cancelling"]
       ELSE host' = host /\ disp' = Free
    /\ UNCHANGED <<highest, fence, durable, out, cancelled, prod, stale, stream, refused, session, tgt,
                   net, faults>>

\* Mutant: the entry of the cancelled attempt stays.
CancelKeepsEntry ==
    /\ disp.pc = "cancelling" /\ EffectLockFree /\ cancelled' = TRUE
    /\ host' = [host EXCEPT !.cancelling = FALSE] /\ disp' = Free
    /\ UNCHANGED <<highest, fence, durable, out, prod, stale, stream, reading, waiter, refused,
                   session, tgt, net, faults>>

\* cancel_outbound_build, then complete_common_build_cancellation.
CancelOutboundBuild ==
    /\ disp.pc = "cancelling" /\ EffectLockFree
    /\ out' = <<>> /\ cancelled' = TRUE
    /\ host' = [host EXCEPT !.cancelling = FALSE] /\ disp' = Free
    /\ UNCHANGED <<highest, fence, durable, prod, stale, stream, reading, waiter, refused, session, tgt,
                   net, faults>>

\* build_replica wakes up: the recorded progress has reached the boundary, or the
\* build was cancelled or fenced.
WaitForBuild ==
    /\ waiter = "waiting"
    /\ \/ /\ fence = 1 /\ ~cancelled
          /\ out # <<>> /\ Entry.gen = fence /\ Entry.progress.completed
          /\ Entry.progress.boundary # None /\ Entry.progress.lsn >= Entry.progress.boundary
          /\ waiter' = "done" /\ UNCHANGED disp
       \/ /\ fence # 1 \/ cancelled
          /\ waiter' = "idle" /\ disp' = [disp EXCEPT !.pc = "failing"]
    /\ UNCHANGED <<highest, fence, durable, out, cancelled, prod, stale, stream, reading, refused,
                   session, host, tgt, net, faults>>

-----------------------------------------------------------------------------
\* The producer (prepare_copy's second half and produce_copy_stream_inner).

Valid == reading /\ fence = prod.gen /\ Owned
Room == Len(stream) < StreamCap

ProducerUnchanged ==
    UNCHANGED <<highest, fence, cancelled, stale, reading, waiter, refused, session, disp, host,
                tgt, net, faults>>

\* The operations behind the snapshot have been read; the generation still holds.
CollectOperations ==
    /\ prod.pc = "collecting" /\ Valid /\ EffectLockFree
    /\ prod' = [prod EXCEPT !.pc = "snapshot"]
    /\ UNCHANGED <<durable, out, stream>> /\ ProducerUnchanged

EmitChunk ==
    /\ prod.pc = "snapshot" /\ prod.seq <= Chunks /\ Valid /\ Room
    /\ out' = <<Emit(Entry, Chunk(prod.seq))>>
    /\ stream' = Append(stream, Chunk(prod.seq))
    /\ prod' = [prod EXCEPT !.seq = @ + 1]
    /\ UNCHANGED durable /\ ProducerUnchanged

\* freeze_build_catch_up_boundary: the first boundary is kept for every attempt,
\* and every operation up to it is at hand. The store is written first ...
CatchUpBoundary ==
    IF Entry.progress.boundary # None THEN Entry.progress.boundary
    ELSE MaxOf({highest, Boundary} \cup prod.ops)

FreezeBoundary ==
    /\ prod.pc = "snapshot" /\ prod.seq > Chunks /\ Valid
    /\ Boundary + 1..CatchUpBoundary \subseteq prod.ops \cup Entry.pending
    /\ durable' = [Entry.progress EXCEPT !.boundary = CatchUpBoundary]
    /\ prod' = [prod EXCEPT !.pc = "freezing"]
    /\ UNCHANGED <<out, stream>> /\ ProducerUnchanged

\* ... and published if the attempt still stands; the final item follows.
PublishBoundary ==
    /\ prod.pc = "freezing" /\ Valid
    /\ out' = <<[Entry EXCEPT !.progress = durable]>>
    /\ prod' = [prod EXCEPT !.pc = "final"]
    /\ UNCHANGED <<durable, stream>> /\ ProducerUnchanged

EmitFinal ==
    /\ prod.pc = "final" /\ Valid /\ Room
    /\ LET i == Final(prod.seq, Entry.progress.boundary)
       IN /\ out' = <<[Emit(Entry, i) EXCEPT !.final = prod.seq]>>
          /\ stream' = Append(stream, i)
    /\ prod' = [prod EXCEPT !.pc = "operations"]
    /\ UNCHANGED durable /\ ProducerUnchanged

\* The operations are sent in the order of their LSNs.
First(l, ops) == \A k \in ops : l <= k

\* emit_copy_operation: an operation already emitted is skipped.
EmitOperation ==
    /\ prod.pc = "operations" /\ Valid
    /\ \E l \in prod.ops :
          /\ First(l, prod.ops)
          /\ prod' = [prod EXCEPT !.ops = @ \ {l}]
          /\ \/ /\ l \in EmittedOps(Entry)
                /\ UNCHANGED <<out, stream>>
             \/ /\ l \notin EmittedOps(Entry) /\ Room
                /\ out' = <<Emit(Entry, Op(Entry.next, l))>>
                /\ stream' = Append(stream, Op(Entry.next, l))
    /\ UNCHANGED durable /\ ProducerUnchanged

\* Mutant: the build has caught up when the operations read first are out.
TakePendingOnce ==
    /\ prod.pc = "operations" /\ prod.ops = {} /\ Owned
    /\ out' = <<[Entry EXCEPT !.catching = FALSE, !.pending = {}]>> /\ prod' = Idle
    /\ UNCHANGED <<durable, stream>> /\ ProducerUnchanged

\* Take the operations written meanwhile; with none left the build has caught up
\* and the writers put their operations on the stream themselves.
TakePending ==
    /\ prod.pc = "operations" /\ prod.ops = {} /\ Owned
    /\ IF Entry.pending = {}
       THEN /\ out' = <<[Entry EXCEPT !.catching = FALSE]>>
            /\ prod' = Idle
       ELSE /\ out' = <<[Entry EXCEPT !.pending = {}]>>
            /\ prod' = [prod EXCEPT !.ops = Entry.pending]
    /\ UNCHANGED <<durable, stream>> /\ ProducerUnchanged

\* prepare_copy fails after its entry is in place: the guard removes the entry.
PreparationFails ==
    /\ prod.pc = "collecting" /\ ~Valid
    /\ out' = IF Owned THEN <<>> ELSE out
    /\ prod' = Idle
    /\ disp' = IF disp.pc = "copying" THEN [disp EXCEPT !.pc = "failing"] ELSE disp
    /\ UNCHANGED <<highest, fence, durable, cancelled, stale, stream, reading, waiter, refused,
                   session, host, tgt, net, faults>>

\* The producer stops: the stream was dropped, the entry is gone, or the
\* generation is fenced. It removes its own entry and reports the error.
ProducerFails ==
    /\ prod.pc \notin {"idle", "collecting"} /\ ~Valid
    /\ ~(prod.pc = "operations" /\ prod.ops = {} /\ Owned)
    /\ out' = IF Owned THEN <<>> ELSE out
    /\ prod' = Idle
    /\ stream' = IF reading THEN Append(stream, Failed) ELSE stream
    /\ UNCHANGED durable /\ ProducerUnchanged

\* The producer of a cancelled attempt finds the entry of the retry under its build
\* ID, in the same fence generation. Past the snapshot it works on that entry until
\* its next send fails; then it removes it.
StaleProducer(p) ==
    /\ p \in stale
    /\ LET mine == out # <<>> /\ Entry.gen = p.gen
           Becomes(q) == stale' = (stale \ {p}) \cup q
       IN IF ~mine \/ fence # p.gen \/ p.pc \in {"collecting", "snapshot", "failing"}
          THEN /\ out' = IF mine THEN <<>> ELSE out
               /\ Becomes({})
          ELSE IF p.pc = "final"
          THEN /\ out' = <<[Emit(Entry, Final(p.seq, Entry.progress.boundary))
                              EXCEPT !.final = p.seq]>>
               /\ Becomes({[p EXCEPT !.pc = "failing"]})
          ELSE IF p.ops # {}
          THEN \E l \in p.ops :
                  /\ First(l, p.ops)
                  /\ IF l \in EmittedOps(Entry)
                     THEN out' = out /\ Becomes({[p EXCEPT !.ops = @ \ {l}]})
                     ELSE /\ out' = <<Emit(Entry, Op(Entry.next, l))>>
                          /\ Becomes({[p EXCEPT !.ops = @ \ {l}, !.pc = "failing"]})
          ELSE IF Entry.pending # {}
          THEN /\ out' = <<[Entry EXCEPT !.pending = {}]>>
               /\ Becomes({[p EXCEPT !.ops = Entry.pending]})
          ELSE /\ out' = <<[Entry EXCEPT !.catching = FALSE]>>
               /\ Becomes({})
    /\ UNCHANGED <<highest, fence, durable, cancelled, prod, stream, reading, waiter, refused,
                   session, disp, host, tgt, net, faults>>

-----------------------------------------------------------------------------
\* The dispatcher's side of the copy (dispatch_copy).

SendItem ==
    /\ disp.pc = "copying" /\ disp.item = <<>> /\ stream # <<>>
    /\ stream' = Tail(stream)
    /\ LET i == Head(stream)
       IN IF i.kind = "error"
          THEN disp' = [disp EXCEPT !.pc = "failing"] /\ UNCHANGED net
          ELSE /\ disp' = [disp EXCEPT !.item = <<i>>, !.ack = <<>>, !.peer = session.target,
                               !.boundary = IF i.kind = "final" THEN i.boundary ELSE @]
               /\ net' = net \cup {[item |-> i, from |-> session.source, to |-> session.target]}
    /\ UNCHANGED <<highest, fence, durable, out, cancelled, prod, stale, reading, waiter, refused,
                   session, host, tgt, faults>>

\* Every sender of the stream is gone before the boundary was delivered.
StreamEnds ==
    /\ disp.pc = "copying" /\ disp.item = <<>> /\ stream = <<>>
    /\ prod.pc = "idle" /\ (out # <<>> => ~Entry.attached)
    /\ disp' = [disp EXCEPT !.pc = "failing"]
    /\ UNCHANGED <<source, session, host, tgt, net, faults>>

\* accept_copy_acknowledgement: what an acknowledgement may say about the build.
AckMatches(a) ==
    /\ out # <<>> /\ Entry.gen = fence
    /\ \E i \in Entry.emitted :
          /\ i.seq = a.seq /\ i.kind = a.kind
          /\ a.kind = "final" => a.boundary = Entry.progress.boundary
          /\ a.kind # "final" => i.lsn <= a.lsn
    /\ a.lsn <= MaxOf({i.lsn : i \in Entry.emitted})

\* Mutant: what was emitted counts as stored.
AdvanceEmitted(p, a) ==
    [p EXCEPT !.seq = MaxOf({@, a.seq}), !.lsn = MaxOf({i.lsn : i \in Entry.emitted}),
              !.completed = @ \/ a.kind = "final"]

Advance(p, a) ==
    [p EXCEPT !.seq = MaxOf({@, a.seq}), !.lsn = MaxOf({@, a.lsn}),
              !.completed = @ \/ a.kind = "final"]

ReceiveAck ==
    /\ disp.pc = "copying" /\ disp.ack # <<>> /\ prod.pc # "freezing"
    /\ LET a == disp.ack[1]
           i == disp.item[1]
       IN IF session.target # disp.peer \/ ~AckMatches(a)
          THEN /\ disp' = [disp EXCEPT !.pc = "failing"]
               /\ UNCHANGED <<durable, out, reading>>
          ELSE /\ durable' = Advance(Entry.progress, a)
               /\ out' = <<[Entry EXCEPT !.progress = durable']>>
               /\ IF disp.boundary # None /\ i.lsn >= disp.boundary
                  THEN disp' = [disp EXCEPT !.pc = "copied"] /\ reading' = FALSE
                  ELSE /\ disp' = [disp EXCEPT !.item = <<>>, !.ack = <<>>]
                       /\ UNCHANGED reading
    /\ UNCHANGED <<highest, fence, cancelled, prod, stale, stream, waiter, refused, session, host, tgt,
                   net, faults>>

Fault(f) == f \in faults /\ faults' = faults \ {f}

\* The call fails or times out; what was sent may still arrive.
CopyFails ==
    /\ disp.pc = "copying" /\ disp.item # <<>>
    /\ \/ Fault("timeout")
       \/ session.target # disp.peer /\ UNCHANGED faults
       \/ disp.ack = <<>> /\ UNCHANGED faults
          /\ ~(\E m \in net : m.item = disp.item[1] /\ m.from = session.source
                              /\ m.to = session.target)
          /\ tgt.busy = <<>>
    /\ disp' = [disp EXCEPT !.pc = "failing"]
    /\ UNCHANGED <<source, session, host, tgt, net>>

-----------------------------------------------------------------------------
\* The target (service.rs build, receive_copy_item).

TgtUnchanged == UNCHANGED <<source, session, host, faults>>

\* The call that sent item m is still waiting for its answer.
Answer(m, l) ==
    disp' = IF /\ disp.pc = "copying" /\ disp.item = <<m.item>>
               /\ m.from = session.source /\ m.to = disp.peer
            THEN [disp EXCEPT !.ack = <<[seq |-> m.item.seq, kind |-> m.item.kind, lsn |-> l,
                                         boundary |-> m.item.boundary]>>]
            ELSE disp

\* validate_peer: both sessions of the call are the current ones.
PeerValid(m) == m.to = session.target /\ m.from = tgt.source

\* The peer, the build's admission and the phase and sequence checks.
Acceptable(m) ==
    LET p == tgt.progress
        i == m.item
    IN /\ PeerValid(m) /\ tgt.admitted
       /\ i.seq <= p.seq + 1
       /\ i.seq = p.seq + 1 => (i.kind = "op" <=> p.completed)
       /\ i.seq <= p.seq /\ i.kind = "final" => p.completed /\ p.boundary = i.boundary
       /\ i.seq = p.seq + 1 /\ i.kind = "op" => i.lsn = p.lsn + 1

Duplicate(m) ==
    /\ m \in net /\ tgt.busy = <<>> /\ Acceptable(m) /\ m.item.seq <= tgt.progress.seq
    /\ net' = net \ {m}
    /\ Answer(m, CASE m.item.kind = "chunk" -> 0
                   [] m.item.kind = "final" -> Boundary
                   [] OTHER -> tgt.progress.lsn)
    /\ UNCHANGED tgt /\ TgtUnchanged

\* The application stores the item; the delivery lock stays held.
Apply(m) ==
    /\ m \in net /\ tgt.busy = <<>> /\ Acceptable(m) /\ m.item.seq = tgt.progress.seq + 1
    /\ m.item.kind = "op" /\ m.item.lsn \notin tgt.applied => m.item.lsn - 1 \in tgt.applied
    /\ net' = net \ {m}
    /\ tgt' = [tgt EXCEPT
         !.busy = <<m>>,
         !.chunks = IF m.item.kind = "chunk" THEN MaxOf({@, m.item.seq}) ELSE @,
         !.applied = CASE m.item.kind = "final" -> @ \cup 1..Boundary
                       [] m.item.kind = "op" -> @ \cup {m.item.lsn}
                       [] OTHER -> @]
    /\ UNCHANGED disp /\ TgtUnchanged

\* The progress is recorded and the item acknowledged.
Record ==
    /\ tgt.busy # <<>>
    /\ LET i == tgt.busy[1].item
           l == IF i.kind = "chunk" THEN tgt.progress.lsn ELSE i.lsn
       IN /\ tgt' = [tgt EXCEPT !.busy = <<>>,
                 !.progress = [seq |-> i.seq, lsn |-> l,
                               completed |-> i.kind # "chunk",
                               boundary |-> IF i.kind = "final" THEN i.boundary ELSE @.boundary]]
          /\ Answer(tgt.busy[1], l)
    /\ UNCHANGED net /\ TgtUnchanged

\* An item of a retired session, or one the checks refuse.
Reject(m) ==
    /\ m \in net /\ tgt.busy = <<>> /\ ~Acceptable(m)
    /\ net' = net \ {m}
    /\ UNCHANGED <<disp, tgt>> /\ TgtUnchanged

-----------------------------------------------------------------------------
\* Faults. A restart keeps the stores and the application and nothing else.

TargetCrash ==
    /\ Fault("target")
    /\ session' = [session EXCEPT !.target = @ + 1]
    /\ tgt' = [tgt EXCEPT !.admitted = FALSE, !.source = 0, !.busy = <<>>]
    /\ UNCHANGED <<source, disp, host, net>>

SourceCrash ==
    /\ Fault("source")
    /\ session' = [session EXCEPT !.source = @ + 1]
    /\ out' = <<>> /\ cancelled' = FALSE /\ prod' = Idle /\ stale' = {} /\ stream' = <<>>
    /\ reading' = FALSE /\ disp' = Free /\ waiter' = "idle"
    /\ host' = NoAttempt
    /\ UNCHANGED <<highest, fence, durable, refused, tgt, net>>

\* A newer authority fences the source's data path and its build attempts.
Fence ==
    /\ Fault("fence")
    /\ fence' = fence + 1
    /\ host' = [host EXCEPT !.queued = FALSE]
    /\ disp' = [disp EXCEPT !.current = disp.pc = "idle"]
    /\ UNCHANGED <<highest, durable, out, cancelled, prod, stale, stream, reading, waiter, refused,
                   session, tgt, net>>

Producer ==
    \/ CollectOperations \/ EmitChunk \/ FreezeBoundary \/ PublishBoundary
    \/ EmitFinal \/ EmitOperation \/ TakePending \/ PreparationFails \/ ProducerFails
    \/ \E p \in stale : StaleProducer(p)

Target == Record \/ \E m \in net : Duplicate(m) \/ Apply(m) \/ Reject(m)

Attempt ==
    \/ EnqueueBuild \/ DispatchBuild \/ PrepareCopy \/ SendItem \/ StreamEnds \/ ReceiveAck
    \/ WaitForBuild \/ AcceptBuild \/ CancelAttempt \/ CancelOutboundBuild

Next ==
    \/ Write \/ Producer \/ Attempt \/ Target \/ CopyFails
    \/ TargetCrash \/ SourceCrash \/ Fence

Spec == Init /\ [][Next]_vars

-----------------------------------------------------------------------------
\* The source never records more of a build than the target has stored: not in
\* its store and not in the entry a configuration takes the handoff LSN from.
RecordedIsStored ==
    \A p \in {durable} \cup (IF out = <<>> THEN {} ELSE {Entry.progress}) :
       /\ p.seq <= tgt.progress.seq /\ p.lsn <= tgt.progress.lsn
       /\ p.completed => tgt.progress.completed /\ 1..p.lsn \subseteq tgt.applied

\* Every operation after the boundary of the snapshot that the source has applied
\* is on its way in a live build: still to be emitted, pending or emitted. A
\* write between the producer's passes must not fall between them.
NothingFallsBetween ==
    out # <<>> /\ Entry.attached /\ fence = Entry.gen /\ "stale" \notin faults
    => Boundary + 1..highest \subseteq prod.ops \cup Entry.pending \cup EmittedOps(Entry)

\* A build reported as accepted reached the target up to a boundary that covers
\* what the source had applied when it was frozen.
AcceptedIsCaughtUp ==
    host.accepted => /\ tgt.progress.completed /\ tgt.progress.boundary # None
                     /\ 1..tgt.progress.boundary \subseteq tgt.applied

\* The catch-up boundary of a build never changes once a store holds it, and the
\* two stores never hold different ones.
BoundaryIsImmutable ==
    [][/\ durable.boundary # None => durable'.boundary = durable.boundary
       /\ tgt.progress.boundary # None => tgt'.progress.boundary = tgt.progress.boundary
       /\ tgt'.progress.boundary \in {None, durable'.boundary}]_vars

\* The tasks of a live process take their steps, and over many calls to the target
\* the local producer gets ahead of one.
Fairness ==
    /\ WF_vars(Producer) /\ WF_vars(Attempt) /\ WF_vars(Target) /\ WF_vars(CopyFails)
    /\ SF_vars(EmitOperation /\ disp.pc = "copying" /\ disp.item # <<>> /\ disp.item[1].kind = "op")

FairSpec == Spec /\ Fairness

\* While no client writes and cancelled producers stop in time, a build the
\* controller keeps asking for is accepted, whatever calls time out and whichever
\* side restarts, unless a newer authority ends it.
QuietBuildFinishes ==
    (host.queued /\ highest = MaxLsn /\ durable.boundary \in {None, MaxLsn}
                 /\ "stale" \notin faults)
        ~> (host.accepted \/ fence # 1)
=============================================================================
