-------------------------- MODULE ReplicaBuildProofs --------------------------
(***************************************************************************)
(* Safety of the replica build, for every boundary, any number of chunks,  *)
(* any bounds and every set of faults: the source records no more than the *)
(* target has stored, no operation falls between the producer's passes,    *)
(* an accepted build reached its boundary, and the boundary of a build     *)
(* never changes.                                                          *)
(*                                                                         *)
(* The inductive invariant follows an item along its way: what it says     *)
(* when it is produced, on the stream, on the network, in the hands of the *)
(* target, and in the acknowledgement that the source records.             *)
(***************************************************************************)
EXTENDS ReplicaBuild, TLAPS

-----------------------------------------------------------------------------
\* Types.

Items == [seq : Nat, kind : {"chunk", "final", "op", "error"}, lsn : Nat, boundary : Nat]
Records == [seq : Nat, lsn : Nat, completed : BOOLEAN, boundary : Nat]
Entries == [progress : Records, final : Nat, next : Nat, emitted : SUBSET Items,
            pending : SUBSET Nat, catching : BOOLEAN, attached : BOOLEAN, gen : {1}]
Producers == [pc : {"collecting", "snapshot", "freezing", "final", "operations", "failing"},
              seq : Nat, ops : SUBSET Nat, gen : {1}]
Calls == [item : Items, from : Nat, to : Nat]
AtMostOne(S) == {<<>>} \cup {<<x>> : x \in S}
Dispatchers == [pc : {"idle", "admitted", "copying", "copied", "failing", "cancelling"},
                current : BOOLEAN, peer : Nat, item : AtMostOne(Items), ack : AtMostOne(Items),
                boundary : Nat]
Hosts == [queued : BOOLEAN, cancelling : BOOLEAN, accepted : BOOLEAN]
Targets == [admitted : BOOLEAN, source : Nat, progress : Records, chunks : Nat,
            applied : SUBSET Nat, busy : AtMostOne(Calls)]

TypeOK ==
    /\ highest \in Nat /\ Boundary <= highest /\ fence \in Nat \ {0}
    /\ session \in [source : Nat, target : Nat]
    /\ durable \in Records /\ out \in AtMostOne(Entries)
    /\ prod \in Producers \cup {Idle} /\ stale \subseteq Producers
    /\ stream \in Seq(Items) /\ disp \in Dispatchers /\ host \in Hosts
    /\ tgt \in Targets /\ net \subseteq Calls

-----------------------------------------------------------------------------
\* The inductive invariant.

\* The entry repeats the store's record, except while a boundary is being frozen.
EntryAgrees ==
    out # <<>> =>
        \/ Entry.progress = durable
        \/ /\ prod.pc = "freezing" /\ Entry.progress.boundary = None
           /\ Entry.progress.seq = durable.seq /\ Entry.progress.lsn = durable.lsn
           /\ Entry.progress.completed = durable.completed

\* Only applied operations are to be copied.
OpsApplied == prod.ops \subseteq 1..highest /\ (out # <<>> => Entry.pending \subseteq 1..highest)

\* A producer past the snapshot works for a build whose boundary is frozen.
Frozen(p) == p.pc \in {"freezing", "final", "operations"} => durable.boundary # None

SourceInv ==
    /\ EntryAgrees /\ OpsApplied /\ Frozen(prod)
    /\ \A p \in stale : Frozen(p) /\ p.pc # "freezing"
    /\ "stale" \notin faults => stale = {}
    /\ NothingFallsBetween

\* A final item ends the snapshot and carries the frozen boundary.
FinalFits(i) ==
    i.kind = "final" => i.lsn = Boundary /\ i.boundary = durable.boundary /\ i.boundary # None

StreamFits == \A k \in 1..Len(stream) : FinalFits(stream[k])
NetFits == \A m \in net : FinalFits(m.item) /\ m.item.kind # "error"

\* What the target has recorded, its application holds.
TargetStored ==
    /\ tgt.progress.boundary \in {None, durable.boundary}
    /\ tgt.progress.completed => /\ tgt.progress.boundary # None /\ Boundary <= tgt.progress.lsn
                                 /\ 1..tgt.progress.lsn \subseteq tgt.applied
    /\ ~tgt.progress.completed => tgt.progress.lsn = 0

\* Item i, being recorded, is the next one and the application has it.
Stored(i) ==
    /\ i.seq = tgt.progress.seq + 1 /\ FinalFits(i) /\ i.kind # "error"
    /\ i.kind = "op" <=> tgt.progress.completed
    /\ i.kind = "op" => i.lsn = tgt.progress.lsn + 1 /\ i.lsn \in tgt.applied
    /\ i.kind = "final" => 1..Boundary \subseteq tgt.applied

BusyStored == tgt.busy # <<>> => Stored(tgt.busy[1].item)

\* Acknowledgement a says no more than the target has recorded.
Covered(a) ==
    /\ a.seq <= tgt.progress.seq /\ a.lsn <= tgt.progress.lsn
    /\ a.kind = "final" => tgt.progress.completed

AckStored == disp.ack # <<>> => Covered(disp.ack[1])

\* The source's record is behind the target's.
DurableStored ==
    /\ durable.seq <= tgt.progress.seq /\ durable.lsn <= tgt.progress.lsn
    /\ durable.completed => tgt.progress.completed

\* A build that was waited for, or accepted, is recorded up to its boundary.
CaughtUp == durable.completed /\ durable.boundary # None /\ durable.boundary <= durable.lsn
DoneInv == waiter = "done" \/ host.accepted => CaughtUp

IInv ==
    /\ TypeOK /\ SourceInv /\ StreamFits /\ NetFits
    /\ TargetStored /\ BusyStored /\ AckStored /\ DurableStored /\ DoneInv

-----------------------------------------------------------------------------
\* Lemmas about the parts of the state.

\* A value in place of an optional one.
LEMMA OneOf == ASSUME NEW S, NEW x \in S
               PROVE <<x>> \in AtMostOne(S) /\ <<x>> # <<>> /\ <<x>>[1] = x
BY DEF AtMostOne

\* An optional value that is there.
LEMMA TheOne == ASSUME NEW S, NEW s \in AtMostOne(S), s # <<>>
                PROVE s[1] \in S /\ s = <<s[1]>>
BY DEF AtMostOne

\* No value.
LEMMA NoneOf == ASSUME NEW S PROVE <<>> \in AtMostOne(S)
BY DEF AtMostOne

\* The larger of two LSNs or sequence numbers.
LEMMA MaxOfTwo == ASSUME NEW x \in Nat, NEW y \in Nat
                  PROVE /\ MaxOf({x, y}) \in Nat /\ MaxOf({x, y}) \in {x, y}
                        /\ x <= MaxOf({x, y}) /\ y <= MaxOf({x, y})
<1>1. \E z \in {x, y} : \A w \in {x, y} : w <= z
  OBVIOUS
<1>2. MaxOf({x, y}) \in {x, y} /\ \A w \in {x, y} : w <= MaxOf({x, y})
  BY <1>1 DEF MaxOf
<1>3. QED
  BY <1>2

\* The largest LSN the source knows of is the last it applied.
LEMMA MaxOfApplied == ASSUME NEW h \in Nat, Boundary <= h, NEW S \in SUBSET (1..h)
                      PROVE MaxOf({h, Boundary} \cup S) = h
<1>1. \A w \in {h, Boundary} \cup S : w \in Nat /\ w <= h
  BY BoundaryAssumption
<1>2. \A z \in {h, Boundary} \cup S : (\A w \in {h, Boundary} \cup S : w <= z) => z = h
  BY <1>1
<1>3. \E z \in {h, Boundary} \cup S : \A w \in {h, Boundary} \cup S : w <= z
  BY <1>1
<1>4. QED
  BY <1>2, <1>3 DEF MaxOf

\* Emitting an item keeps the rest of the entry.
LEMMA EmitKeeps == ASSUME NEW e \in Entries, NEW i \in Items
                   PROVE /\ Emit(e, i) \in Entries
                         /\ Emit(e, i).progress = e.progress /\ Emit(e, i).pending = e.pending
                         /\ Emit(e, i).attached = e.attached /\ Emit(e, i).gen = e.gen
                         /\ EmittedOps(e) \subseteq EmittedOps(Emit(e, i))
                         /\ i.kind = "op" => i.lsn \in EmittedOps(Emit(e, i))
<1>1. PICK n, E : n = i.seq + 1 /\ E = e.emitted \cup {i}
  OBVIOUS
<1>2. n \in Nat
  BY <1>1 DEF Items
<1>3. E \in SUBSET Items
  BY <1>1 DEF Entries
<1>4. PICK d : d = [e EXCEPT !.next = n, !.emitted = E]
  OBVIOUS
<1>5. d \in Entries
  BY <1>2, <1>3, <1>4 DEF Entries
<1>6. /\ d.progress = e.progress /\ d.pending = e.pending /\ d.attached = e.attached
      /\ d.gen = e.gen /\ d.emitted = E
  BY <1>4 DEF Entries
<1>7. EmittedOps(e) \subseteq EmittedOps(d) /\ (i.kind = "op" => i.lsn \in EmittedOps(d))
  BY <1>1, <1>6 DEF EmittedOps
<1>8. Emit(e, i) = d
  BY <1>1, <1>4 DEF Emit
<1>9. QED
  BY <1>5, <1>6, <1>7, <1>8

\* The items the producers make.
LEMMA ItemTypes ==
    ASSUME NEW n \in Nat, NEW l \in Nat
    PROVE /\ Chunk(n) \in Items /\ Chunk(n).kind = "chunk"
          /\ Final(n, l) \in Items /\ Final(n, l).kind = "final"
          /\ Final(n, l).lsn = Boundary /\ Final(n, l).boundary = l
          /\ Op(n, l) \in Items /\ Op(n, l).kind = "op" /\ Op(n, l).lsn = l
          /\ Failed \in Items /\ Failed.kind = "error"
BY BoundaryAssumption DEF Chunk, Final, Op, Failed, Items, None

\* The entry of a live build.
LEMMA EntryType == ASSUME TypeOK, out # <<>>
                   PROVE /\ Entry \in Entries /\ out = <<Entry>> /\ Entry.gen = 1
                         /\ Entry.progress \in Records /\ Entry.next \in Nat
<1>1. Entry \in Entries /\ out = <<Entry>>
  BY TheOne DEF TypeOK, Entry
<1>2. QED
  BY <1>1 DEF Entries

\* The entry after a step that writes it.
LEMMA NewEntry == ASSUME NEW e \in Entries, out' = <<e>>
                  PROVE out' \in AtMostOne(Entries) /\ out' # <<>> /\ Entry' = e
BY OneOf DEF Entry

\* A producer at work owns the entry there is.
LEMMA OwnedEntry == ASSUME TypeOK, prod.pc # "idle"
                    PROVE prod \in Producers /\ prod.gen = 1 /\ (Owned <=> out # <<>>)
<1>1. prod \in Producers
  BY DEF TypeOK, Idle
<1>2. prod.gen = 1
  BY <1>1 DEF Producers
<1>3. out # <<>> => out[1].gen = 1
  BY EntryType DEF Entry
<1>4. QED
  BY <1>1, <1>2, <1>3 DEF Owned

\* A step that touches neither store nor the network leaves the target's part.
LEMMA TargetFrame ==
    ASSUME IInv, UNCHANGED <<durable, tgt, net>>
    PROVE TargetStored' /\ BusyStored' /\ DurableStored' /\ NetFits'
<1>1. TargetStored'
  BY DEF IInv, TargetStored
<1>2. BusyStored'
  BY DEF IInv, BusyStored, Stored, FinalFits
<1>3. DurableStored'
  BY DEF IInv, DurableStored
<1>4. NetFits'
  BY DEF IInv, NetFits, FinalFits
<1>5. QED
  BY <1>1, <1>2, <1>3, <1>4

\* An acknowledgement stays good while the target's record stays.
LEMMA AckFrame ==
    ASSUME IInv, tgt' = tgt, disp'.ack = disp.ack \/ disp'.ack = <<>>
    PROVE AckStored'
BY DEF IInv, AckStored, Covered

\* Whoever was done is done.
LEMMA DoneFrame ==
    ASSUME IInv, durable' = durable, waiter' = "done" => waiter = "done",
           host'.accepted => host.accepted
    PROVE DoneInv'
BY DEF IInv, DoneInv, CaughtUp

\* The stream as it was, or with an item more.
LEMMA StreamFrame ==
    ASSUME IInv, durable' = durable, NEW i \in Items, FinalFits(i),
           stream' = stream \/ stream' = Append(stream, i)
    PROVE StreamFits' /\ stream' \in Seq(Items)
<1>1. stream \in Seq(Items) /\ StreamFits
  BY DEF IInv, TypeOK
<1>2. CASE stream' = stream
  BY <1>1, <1>2 DEF StreamFits, FinalFits
<1>3. CASE stream' = Append(stream, i)
  <2>1. Len(stream') = Len(stream) + 1 /\ stream' \in Seq(Items)
    BY <1>1, <1>3
  <2>2. ASSUME NEW k \in 1..Len(stream') PROVE stream'[k].kind = "final" =>
            stream'[k].lsn = Boundary /\ stream'[k].boundary = durable'.boundary
                                     /\ stream'[k].boundary # None
    <3>1. CASE k = Len(stream) + 1
      <4>1. stream'[k] = i
        BY <1>1, <1>3, <3>1
      <4>2. QED
        BY <4>1 DEF FinalFits
    <3>2. CASE k # Len(stream) + 1
      <4>1. k \in 1..Len(stream) /\ stream'[k] = stream[k]
        BY <1>1, <1>3, <2>1, <3>2
      <4>2. QED
        BY <1>1, <4>1 DEF StreamFits, FinalFits
    <3>3. QED
      BY <3>1, <3>2
  <2>3. QED
    BY <2>1, <2>2 DEF StreamFits, FinalFits
<1>4. QED
  BY <1>2, <1>3

\* The stream keeps its items.
LEMMA StreamKept == ASSUME IInv, durable' = durable, stream' = stream
                    PROVE StreamFits'
BY DEF IInv, StreamFits, FinalFits

\* Nothing of the source's build but its readers and its dispatcher changes.
LEMMA SourceFrame ==
    ASSUME IInv, UNCHANGED <<highest, durable, out, prod, stale>>, fence' = fence,
           "stale" \in faults' <=> "stale" \in faults
    PROVE SourceInv'
<1>1. EntryAgrees' /\ OpsApplied'
  BY DEF IInv, SourceInv, EntryAgrees, OpsApplied, Entry
<1>2. Frozen(prod)' /\ \A p \in stale' : Frozen(p)' /\ p.pc # "freezing"
  BY DEF IInv, SourceInv, Frozen
<1>3. "stale" \notin faults' => stale' = {}
  BY DEF IInv, SourceInv
<1>4. NothingFallsBetween'
  BY DEF IInv, SourceInv, NothingFallsBetween, Entry, EmittedOps
<1>5. QED
  BY <1>1, <1>2, <1>3, <1>4 DEF SourceInv

-----------------------------------------------------------------------------
\* The initial states.

LEMMA InitInv == Init => IInv
<1> SUFFICES ASSUME Init PROVE IInv
  OBVIOUS
<1>1. NoProgress \in Records
  BY DEF NoProgress, Records, None
<1>2. disp \in Dispatchers /\ disp.ack = <<>>
  BY NoneOf DEF Init, Free, Dispatchers, None
<1>3. tgt \in Targets /\ tgt.busy = <<>> /\ tgt.progress = NoProgress
  BY <1>1, NoneOf DEF Init, Targets
<1>4. host \in Hosts /\ ~host.accepted
  BY DEF Init, NoAttempt, Hosts
<1>5. prod = Idle /\ prod.pc = "idle" /\ prod.ops = {}
  BY DEF Init, Idle
<1>6. highest \in Nat /\ Boundary <= highest
  BY BoundaryAssumption DEF Init
<1>7. TypeOK
  BY <1>1, <1>2, <1>3, <1>4, <1>5, <1>6, NoneOf DEF Init, TypeOK
<1>8. SourceInv
  BY <1>5 DEF Init, SourceInv, EntryAgrees, OpsApplied, Frozen, NothingFallsBetween
<1>9. StreamFits /\ NetFits
  BY DEF Init, StreamFits, NetFits
<1>10. TargetStored /\ BusyStored /\ AckStored
  BY <1>2, <1>3 DEF TargetStored, BusyStored, AckStored, NoProgress
<1>11. DurableStored /\ DoneInv
  BY <1>3, <1>4 DEF Init, DurableStored, DoneInv, NoProgress
<1>12. QED
  BY <1>7, <1>8, <1>9, <1>10, <1>11 DEF IInv

-----------------------------------------------------------------------------
\* Client writes and the host's part.

\* A write reaches the build by one way or another.
LEMMA WriteKeeps == ASSUME IInv, Write PROVE IInv'
<1>1. TypeOK /\ SourceInv
  BY DEF IInv
<1>2. PICK l : l = highest + 1
  OBVIOUS
<1>3. l \in Nat /\ highest' = l /\ highest' \in Nat /\ Boundary <= highest'
      /\ Boundary + 1..highest' = (Boundary + 1..highest) \cup {l}
  BY <1>1, <1>2, BoundaryAssumption DEF Write, TypeOK
<1>4. UNCHANGED <<durable, prod, stale, tgt, net, disp, waiter, host, faults, fence, session>>
  BY DEF Write
<1>5. prod.pc # "freezing" /\ highest \in Nat
  BY <1>1 DEF Write, EffectLockFree, TypeOK
<1>6. \/ out' = out /\ stream' = stream /\ (out = <<>> \/ l \in EmittedOps(Entry))
      \/ /\ out # <<>> /\ stream' = stream
         /\ out' = <<[Entry EXCEPT !.pending = @ \cup {l}]>>
      \/ /\ out # <<>> /\ out' = <<Emit(Entry, Op(Entry.next, l))>>
         /\ stream' = stream \/ stream' = Append(stream, Op(Entry.next, l))
  BY <1>2 DEF Write
<1>7. \/ out' = <<>> /\ stream' = stream
      \/ /\ out # <<>> /\ out' # <<>> /\ out' \in AtMostOne(Entries)
         /\ Entry'.progress = Entry.progress /\ Entry'.attached = Entry.attached
         /\ Entry'.gen = Entry.gen
         /\ Entry.pending \subseteq Entry'.pending /\ Entry'.pending \subseteq Entry.pending \cup {l}
         /\ EmittedOps(Entry) \subseteq EmittedOps(Entry')
         /\ l \in Entry'.pending \cup EmittedOps(Entry')
         /\ StreamFits' /\ stream' \in Seq(Items)
  <2>1. CASE out' = out /\ stream' = stream /\ (out = <<>> \/ l \in EmittedOps(Entry))
    BY <1>1, <1>4, <2>1, StreamKept DEF Entry, TypeOK, EmittedOps
  <2>2. CASE /\ out # <<>> /\ stream' = stream
             /\ out' = <<[Entry EXCEPT !.pending = @ \cup {l}]>>
    <3>1. PICK e : e = [Entry EXCEPT !.pending = @ \cup {l}]
      OBVIOUS
    <3>2. Entry \in Entries
      BY <1>1, <2>2, EntryType
    <3>3. e \in Entries /\ e.pending = Entry.pending \cup {l}
      BY <1>3, <3>1, <3>2 DEF Entries
    <3>4. /\ e.progress = Entry.progress /\ e.attached = Entry.attached /\ e.gen = Entry.gen
          /\ e.emitted = Entry.emitted
      BY <3>1, <3>2 DEF Entries
    <3>5. out' \in AtMostOne(Entries) /\ out' # <<>> /\ Entry' = e
      BY <2>2, <3>1, <3>3, NewEntry
    <3>6. EmittedOps(Entry) = EmittedOps(e)
      BY <3>4 DEF EmittedOps
    <3>7. StreamFits' /\ stream' \in Seq(Items)
      BY <1>1, <1>4, <2>2, StreamKept DEF TypeOK
    <3>8. QED
      BY <2>2, <3>3, <3>4, <3>5, <3>6, <3>7
  <2>3. CASE /\ out # <<>> /\ out' = <<Emit(Entry, Op(Entry.next, l))>>
             /\ stream' = stream \/ stream' = Append(stream, Op(Entry.next, l))
    <3>1. PICK i : i = Op(Entry.next, l)
      OBVIOUS
    <3>2. Entry \in Entries /\ Entry.next \in Nat
      BY <1>1, <2>3, EntryType
    <3>3. i \in Items /\ i.kind = "op" /\ i.lsn = l
      BY <1>3, <3>1, <3>2, ItemTypes
    <3>4. PICK e : e = Emit(Entry, i)
      OBVIOUS
    <3>5. /\ e \in Entries /\ e.progress = Entry.progress /\ e.pending = Entry.pending
          /\ e.attached = Entry.attached /\ e.gen = Entry.gen
          /\ EmittedOps(Entry) \subseteq EmittedOps(e) /\ l \in EmittedOps(e)
      BY <3>2, <3>3, <3>4, EmitKeeps
    <3>6. out' \in AtMostOne(Entries) /\ out' # <<>> /\ Entry' = e
      BY <2>3, <3>1, <3>4, <3>5, NewEntry
    <3>7. FinalFits(i)
      BY <3>3 DEF FinalFits
    <3>8. StreamFits' /\ stream' \in Seq(Items)
      BY <1>4, <2>3, <3>1, <3>3, <3>7, StreamFrame
    <3>9. QED
      BY <2>3, <3>5, <3>6, <3>8
  <2>4. QED
    BY <1>6, <2>1, <2>2, <2>3
<1>8. StreamFits' /\ stream' \in Seq(Items)
  BY <1>1, <1>4, <1>7, StreamKept DEF TypeOK
<1>9. TypeOK'
  BY <1>1, <1>3, <1>4, <1>7, <1>8, NoneOf DEF TypeOK
<1>10. EntryAgrees'
  BY <1>1, <1>4, <1>5, <1>7 DEF SourceInv, EntryAgrees
<1>11. OpsApplied'
  <2>1. prod'.ops \subseteq 1..highest'
    BY <1>1, <1>2, <1>3, <1>4, <1>5 DEF SourceInv, OpsApplied
  <2>2. ASSUME out' # <<>> PROVE Entry'.pending \subseteq 1..highest'
    BY <1>1, <1>2, <1>3, <1>5, <1>7, <2>2 DEF SourceInv, OpsApplied
  <2>3. QED
    BY <2>1, <2>2 DEF OpsApplied
<1>12. Frozen(prod)' /\ (\A p \in stale' : Frozen(p)' /\ p.pc # "freezing")
       /\ ("stale" \notin faults' => stale' = {})
  BY <1>1, <1>4 DEF SourceInv, Frozen
<1>13. NothingFallsBetween'
  <2>1. SUFFICES ASSUME out' # <<>>, Entry'.attached, fence' = Entry'.gen, "stale" \notin faults'
                 PROVE Boundary + 1..highest' \subseteq prod'.ops \cup Entry'.pending \cup EmittedOps(Entry')
    BY DEF NothingFallsBetween, EmittedOps
  <2>2. Boundary + 1..highest \subseteq prod.ops \cup Entry.pending \cup EmittedOps(Entry)
    BY <1>1, <1>4, <1>7, <2>1 DEF SourceInv, NothingFallsBetween
  <2>3. QED
    BY <1>3, <1>4, <1>7, <2>1, <2>2
<1>14. SourceInv'
  BY <1>10, <1>11, <1>12, <1>13 DEF SourceInv
<1>15. TargetStored' /\ BusyStored' /\ DurableStored' /\ NetFits' /\ AckStored' /\ DoneInv'
  BY <1>4, TargetFrame, AckFrame, DoneFrame
<1>16. QED
  BY <1>8, <1>9, <1>14, <1>15 DEF IInv

\* The first command and each repeat.
LEMMA EnqueueBuildKeeps == ASSUME IInv, EnqueueBuild PROVE IInv'
<1>1. TypeOK
  BY DEF IInv
<1>2. UNCHANGED <<source, session, tgt, net, faults>>
  BY DEF EnqueueBuild
<1>3. UNCHANGED <<highest, fence, durable, out, prod, stale, stream, waiter>>
  BY <1>2 DEF source
<1>4. host' \in Hosts /\ host'.accepted = host.accepted
  BY <1>1 DEF EnqueueBuild, TypeOK, Hosts
<1>5. PICK b \in BOOLEAN : b = (disp.pc = "idle")
  OBVIOUS
<1>6. disp' = [disp EXCEPT !.current = b]
  BY <1>5 DEF EnqueueBuild
<1>7. disp' \in Dispatchers /\ disp'.ack = disp.ack
  BY <1>1, <1>5, <1>6 DEF TypeOK, Dispatchers
<1>8. TypeOK'
  BY <1>1, <1>2, <1>3, <1>4, <1>7 DEF TypeOK
<1>9. QED
  BY <1>2, <1>3, <1>4, <1>7, <1>8, SourceFrame, StreamKept, TargetFrame, AckFrame, DoneFrame DEF IInv

\* The admission at the target changes neither its record nor its application.
LEMMA DispatchBuildKeeps == ASSUME IInv, DispatchBuild PROVE IInv'
<1>1. TypeOK /\ TargetStored /\ BusyStored /\ DurableStored /\ NetFits /\ AckStored
  BY DEF IInv
<1>2. UNCHANGED <<source, session, host, net, faults>>
  BY DEF DispatchBuild
<1>3. UNCHANGED <<highest, fence, durable, out, prod, stale, stream, waiter>>
  BY <1>2 DEF source
<1>4. session.source \in Nat /\ session.target \in Nat
  BY <1>1 DEF TypeOK
<1>5. tgt' \in Targets /\ tgt'.progress = tgt.progress /\ tgt'.applied = tgt.applied
      /\ tgt'.busy = tgt.busy
  BY <1>1, <1>4 DEF DispatchBuild, AdmitBuild, TypeOK, Targets
<1>6. Free \in Dispatchers /\ Free.ack = <<>>
  BY NoneOf DEF Free, Dispatchers, None
<1>7. disp' \in Dispatchers /\ disp'.ack = <<>>
  BY <1>4, <1>6 DEF DispatchBuild, Dispatchers
<1>8. TypeOK'
  BY <1>1, <1>2, <1>3, <1>5, <1>7 DEF TypeOK
<1>9. TargetStored' /\ DurableStored' /\ NetFits'
  BY <1>1, <1>2, <1>3, <1>5 DEF TargetStored, DurableStored, NetFits, FinalFits
<1>10. BusyStored' /\ AckStored'
  BY <1>1, <1>3, <1>5, <1>7 DEF BusyStored, Stored, FinalFits, AckStored
<1>11. QED
  BY <1>2, <1>3, <1>8, <1>9, <1>10, SourceFrame, StreamKept, DoneFrame DEF IInv

\* Without an entry the source's build has nothing to keep.
LEMMA EntryGone ==
    ASSUME IInv, out' = <<>>, durable' = durable, highest' = highest, prod' = prod \/ prod' = Idle,
           stale' \subseteq stale, "stale" \in faults' <=> "stale" \in faults
    PROVE SourceInv'
<1>1. SourceInv
  BY DEF IInv
<1>2. EntryAgrees' /\ NothingFallsBetween'
  BY DEF EntryAgrees, NothingFallsBetween
<1>3. OpsApplied' /\ Frozen(prod)'
  BY <1>1 DEF SourceInv, OpsApplied, Frozen, Idle
<1>4. (\A p \in stale' : Frozen(p)' /\ p.pc # "freezing") /\ ("stale" \notin faults' => stale' = {})
  BY <1>1 DEF SourceInv, Frozen
<1>5. QED
  BY <1>2, <1>3, <1>4 DEF SourceInv

\* A new entry starts from the store's record, and all that is applied behind the
\* snapshot is the producer's to send.
LEMMA PrepareCopyKeeps == ASSUME IInv, PrepareCopy PROVE IInv'
<1>1. TypeOK /\ SourceInv
  BY DEF IInv
<1>2. UNCHANGED <<session, host, tgt, net, faults>> /\ prod.pc # "freezing"
      /\ (prod.pc = "idle" \/ "stale" \in faults)
  BY DEF PrepareCopy, EffectLockFree
<1>3. CASE out # <<>> \/ fence # 1
  <2>1. disp' = [disp EXCEPT !.pc = "failing"] /\ UNCHANGED source
    BY <1>3 DEF PrepareCopy
  <2>2. UNCHANGED <<highest, fence, durable, out, prod, stale, stream, waiter>>
    BY <2>1 DEF source
  <2>3. disp' \in Dispatchers /\ disp'.ack = disp.ack
    BY <1>1, <2>1 DEF TypeOK, Dispatchers
  <2>4. TypeOK'
    BY <1>1, <1>2, <2>2, <2>3 DEF TypeOK
  <2>5. QED
    BY <1>2, <2>2, <2>3, <2>4, SourceFrame, StreamKept, TargetFrame, AckFrame, DoneFrame DEF IInv
<1>4. CASE ~(out # <<>> \/ fence # 1)
  <2>1. /\ out' = <<[progress |-> durable, final |-> None, next |-> 1, emitted |-> {},
                     pending |-> {}, catching |-> TRUE, attached |-> TRUE, gen |-> fence]>>
        /\ prod' = [Idle EXCEPT !.pc = "collecting", !.gen = fence, !.ops = Boundary + 1..highest]
        /\ stale' = IF prod.pc = "idle" THEN stale ELSE stale \cup {prod}
        /\ waiter' = "waiting" /\ stream' = <<>>
        /\ disp' = [disp EXCEPT !.pc = "copying"]
        /\ UNCHANGED <<highest, fence, durable, refused>>
    BY <1>4 DEF PrepareCopy
  <2>2. PICK e : e = [progress |-> durable, final |-> None, next |-> 1, emitted |-> {},
                      pending |-> {}, catching |-> TRUE, attached |-> TRUE, gen |-> fence]
    OBVIOUS
  <2>3. e \in Entries /\ e.progress = durable /\ e.pending = {}
    BY <1>1, <1>4, <2>2 DEF Entries, TypeOK, None
  <2>4. out' \in AtMostOne(Entries) /\ out' # <<>> /\ Entry' = e
    BY <2>1, <2>2, <2>3, NewEntry
  <2>5. Boundary + 1..highest \in SUBSET Nat /\ Boundary + 1..highest \subseteq 1..highest
    BY <1>1, BoundaryAssumption DEF TypeOK
  <2>6. prod' \in Producers /\ prod'.pc = "collecting" /\ prod'.ops = Boundary + 1..highest
    BY <1>4, <2>1, <2>5 DEF Idle, Producers
  <2>7. stale' \subseteq Producers /\ \A p \in stale' : p \in stale \/ p = prod
    BY <1>1, <2>1, OwnedEntry DEF TypeOK
  <2>8. disp' \in Dispatchers /\ disp'.ack = disp.ack
    BY <1>1, <2>1 DEF TypeOK, Dispatchers
  <2>9. stream' \in Seq(Items) /\ Len(stream') = 0
    BY <2>1
  <2>10. TypeOK'
    BY <1>1, <1>2, <2>1, <2>4, <2>6, <2>7, <2>8, <2>9 DEF TypeOK
  <2>11. EntryAgrees' /\ OpsApplied'
    BY <2>1, <2>3, <2>4, <2>5, <2>6 DEF EntryAgrees, OpsApplied
  <2>12. Frozen(prod)' /\ \A p \in stale' : Frozen(p)' /\ p.pc # "freezing"
    BY <1>1, <1>2, <2>1, <2>6, <2>7 DEF SourceInv, Frozen
  <2>13. "stale" \notin faults' => stale' = {}
    BY <1>1, <1>2, <2>1 DEF SourceInv
  <2>14. NothingFallsBetween'
    BY <2>1, <2>6 DEF NothingFallsBetween
  <2>15. SourceInv'
    BY <2>11, <2>12, <2>13, <2>14 DEF SourceInv
  <2>16. StreamFits'
    BY <2>9 DEF StreamFits
  <2>17. DoneInv'
    BY <1>2, <2>1, DoneFrame
  <2>18. QED
    BY <1>2, <2>1, <2>8, <2>10, <2>15, <2>16, <2>17, TargetFrame, AckFrame DEF IInv
<1>5. QED
  BY <1>3, <1>4

\* Detaching the stream of an entry.
LEMMA Detached ==
    ASSUME IInv, UNCHANGED <<highest, fence, durable, prod, stale, faults>>,
           out' = IF out = <<>> THEN out ELSE <<[Entry EXCEPT !.attached = FALSE]>>
    PROVE out' \in AtMostOne(Entries) /\ SourceInv'
<1>1. TypeOK /\ SourceInv
  BY DEF IInv
<1>2. CASE out = <<>>
  BY <1>2, NoneOf, EntryGone
<1>3. CASE out # <<>>
  <2>1. PICK e : e = [Entry EXCEPT !.attached = FALSE]
    OBVIOUS
  <2>2. Entry \in Entries
    BY <1>1, <1>3, EntryType
  <2>3. e \in Entries /\ e.progress = Entry.progress /\ e.pending = Entry.pending /\ ~e.attached
    BY <2>1, <2>2 DEF Entries
  <2>4. out' \in AtMostOne(Entries) /\ out' # <<>> /\ Entry' = e
    BY <1>3, <2>1, <2>3, NewEntry
  <2>5. EntryAgrees' /\ OpsApplied' /\ NothingFallsBetween'
    BY <1>1, <1>3, <2>3, <2>4 DEF SourceInv, EntryAgrees, OpsApplied, NothingFallsBetween
  <2>6. Frozen(prod)' /\ (\A p \in stale' : Frozen(p)' /\ p.pc # "freezing")
        /\ ("stale" \notin faults' => stale' = {})
    BY <1>1 DEF SourceInv, Frozen
  <2>7. QED
    BY <2>4, <2>5, <2>6 DEF SourceInv
<1>4. QED
  BY <1>2, <1>3

\* The receipt is published for a build that was waited for.
LEMMA AcceptBuildKeeps == ASSUME IInv, AcceptBuild PROVE IInv'
<1>1. TypeOK /\ DoneInv
  BY DEF IInv
<1>2. UNCHANGED <<highest, fence, durable, prod, stale, stream, session, tgt, net, faults>>
      /\ waiter = "done"
  BY DEF AcceptBuild
<1>3. out' = IF out = <<>> THEN out ELSE <<[Entry EXCEPT !.attached = FALSE]>>
  BY DEF AcceptBuild
<1>4. out' \in AtMostOne(Entries) /\ SourceInv'
  BY <1>2, <1>3, Detached
<1>5. disp' \in Dispatchers /\ (disp'.ack = disp.ack \/ disp'.ack = <<>>)
  <2>1. Free \in Dispatchers /\ Free.ack = <<>>
    BY NoneOf DEF Free, Dispatchers, None
  <2>2. disp' = [disp EXCEPT !.pc = "failing"] \/ disp' = Free
    BY DEF AcceptBuild
  <2>3. QED
    BY <1>1, <2>1, <2>2 DEF TypeOK, Dispatchers
<1>6. host' \in Hosts
  BY <1>1 DEF AcceptBuild, TypeOK, Hosts
<1>7. TypeOK'
  BY <1>1, <1>2, <1>4, <1>5, <1>6 DEF TypeOK
<1>8. DoneInv'
  BY <1>1, <1>2 DEF DoneInv, CaughtUp
<1>9. QED
  BY <1>2, <1>4, <1>5, <1>7, <1>8, StreamKept, TargetFrame, AckFrame DEF IInv

\* A failed attempt gives up its receipt.
LEMMA CancelAttemptKeeps == ASSUME IInv, CancelAttempt PROVE IInv'
<1>1. TypeOK
  BY DEF IInv
<1>2. UNCHANGED <<highest, fence, durable, out, prod, stale, stream, session, tgt, net, faults>>
      /\ waiter' = "idle"
  BY DEF CancelAttempt
<1>3. host' \in Hosts /\ (host'.accepted => host.accepted)
  <2>1. CancelledAttempt \in Hosts /\ ~CancelledAttempt.accepted
    BY DEF CancelledAttempt, Hosts
  <2>2. host' = CancelledAttempt \/ host' = host
    BY DEF CancelAttempt
  <2>3. QED
    BY <1>1, <2>1, <2>2 DEF TypeOK
<1>4. disp' \in Dispatchers /\ (disp'.ack = disp.ack \/ disp'.ack = <<>>)
  <2>1. Free \in Dispatchers /\ Free.ack = <<>>
    BY NoneOf DEF Free, Dispatchers, None
  <2>2. disp' = [disp EXCEPT !.pc = "cancelling"] \/ disp' = Free
    BY DEF CancelAttempt
  <2>3. QED
    BY <1>1, <2>1, <2>2 DEF TypeOK, Dispatchers
<1>5. TypeOK'
  BY <1>1, <1>2, <1>3, <1>4 DEF TypeOK
<1>6. QED
  BY <1>2, <1>3, <1>4, <1>5, SourceFrame, StreamKept, TargetFrame, AckFrame, DoneFrame DEF IInv

\* The cancelled attempt's entry goes.
LEMMA CancelOutboundBuildKeeps == ASSUME IInv, CancelOutboundBuild PROVE IInv'
<1>1. TypeOK
  BY DEF IInv
<1>2. UNCHANGED <<highest, fence, durable, prod, stale, stream, waiter, session, tgt, net, faults>>
      /\ out' = <<>>
  BY DEF CancelOutboundBuild
<1>3. host' \in Hosts /\ host'.accepted = host.accepted
  BY <1>1 DEF CancelOutboundBuild, TypeOK, Hosts
<1>4. disp' \in Dispatchers /\ disp'.ack = <<>>
  BY NoneOf DEF CancelOutboundBuild, Free, Dispatchers, None
<1>5. TypeOK'
  BY <1>1, <1>2, <1>3, <1>4, NoneOf DEF TypeOK
<1>6. QED
  BY <1>2, <1>3, <1>4, <1>5, EntryGone, StreamKept, TargetFrame, AckFrame, DoneFrame DEF IInv

\* The waiter sees in the entry what the store holds.
LEMMA WaitForBuildKeeps == ASSUME IInv, WaitForBuild PROVE IInv'
<1>1. TypeOK /\ SourceInv /\ DoneInv
  BY DEF IInv
<1>2. UNCHANGED <<highest, fence, durable, out, prod, stale, stream, session, host, tgt, net, faults>>
  BY DEF WaitForBuild
<1>3. disp' \in Dispatchers /\ disp'.ack = disp.ack
  BY <1>1 DEF WaitForBuild, TypeOK, Dispatchers
<1>4. TypeOK'
  BY <1>1, <1>2, <1>3 DEF TypeOK
<1>5. DoneInv'
  <2>1. CASE waiter' = "done"
    <3>1. /\ out # <<>> /\ Entry.progress.completed /\ Entry.progress.boundary # None
          /\ Entry.progress.lsn >= Entry.progress.boundary
      BY <2>1 DEF WaitForBuild
    <3>2. Entry.progress = durable
      BY <1>1, <3>1 DEF SourceInv, EntryAgrees
    <3>3. durable.lsn \in Nat /\ durable.boundary \in Nat
      BY <1>1 DEF TypeOK, Records
    <3>4. CaughtUp
      BY <3>1, <3>2, <3>3 DEF CaughtUp
    <3>5. QED
      BY <1>2, <3>4 DEF DoneInv, CaughtUp
  <2>2. CASE waiter' # "done"
    BY <1>2, <2>2, DoneFrame
  <2>3. QED
    BY <2>1, <2>2
<1>6. QED
  BY <1>2, <1>3, <1>4, <1>5, SourceFrame, StreamKept, TargetFrame, AckFrame DEF IInv

-----------------------------------------------------------------------------
\* The producer.

\* A step of the producer that changes the entry no more than by items, and the
\* producer's operations no more than the items cover.
LEMMA ProducerFrame ==
    ASSUME IInv, ProducerUnchanged, out # <<>>, durable' = durable,
           NEW e \in Entries, out' = <<e>>, e.attached = Entry.attached,
           e.progress = durable, e.pending \subseteq Entry.pending,
           EmittedOps(Entry) \subseteq EmittedOps(e),
           prod' \in Producers \cup {Idle}, prod'.ops \subseteq prod.ops \cup Entry.pending,
           prod'.pc \in {"freezing", "final", "operations"} => durable.boundary # None,
           prod.ops \cup Entry.pending \subseteq prod'.ops \cup e.pending \cup EmittedOps(e),
           NEW i \in Items, FinalFits(i), stream' = stream \/ stream' = Append(stream, i)
    PROVE IInv'
<1>1. TypeOK /\ SourceInv
  BY DEF IInv
<1>2. UNCHANGED <<highest, fence, stale, waiter, session, disp, host, tgt, net, faults>>
  BY DEF ProducerUnchanged
<1>3. out' \in AtMostOne(Entries) /\ out' # <<>> /\ Entry' = e
  BY NewEntry
<1>4. StreamFits' /\ stream' \in Seq(Items)
  BY StreamFrame
<1>5. TypeOK'
  BY <1>1, <1>2, <1>3, <1>4 DEF TypeOK
<1>6. EntryAgrees'
  BY <1>3 DEF EntryAgrees
<1>7. OpsApplied'
  BY <1>1, <1>2, <1>3 DEF SourceInv, OpsApplied
<1>8. Frozen(prod)' /\ (\A p \in stale' : Frozen(p)' /\ p.pc # "freezing")
      /\ ("stale" \notin faults' => stale' = {})
  BY <1>1, <1>2 DEF SourceInv, Frozen
<1>9. NothingFallsBetween'
  <2>1. Entry.gen = 1 /\ e.gen = 1
    BY <1>1, EntryType DEF Entries
  <2>2. SUFFICES ASSUME e.attached, fence' = e.gen, "stale" \notin faults'
                 PROVE Boundary + 1..highest' \subseteq prod'.ops \cup e.pending \cup EmittedOps(e)
    BY <1>3 DEF NothingFallsBetween, EmittedOps
  <2>3. Boundary + 1..highest \subseteq prod.ops \cup Entry.pending \cup EmittedOps(Entry)
    BY <1>1, <1>2, <2>1, <2>2 DEF SourceInv, NothingFallsBetween
  <2>4. QED
    BY <1>2, <2>3
<1>10. SourceInv'
  BY <1>6, <1>7, <1>8, <1>9 DEF SourceInv
<1>11. QED
  BY <1>2, <1>4, <1>5, <1>10, TargetFrame, AckFrame, DoneFrame DEF IInv

\* What a producer with a valid entry finds.
LEMMA ProducerAtWork ==
    ASSUME IInv, Owned, prod.pc # "idle"
    PROVE /\ out # <<>> /\ Entry \in Entries /\ out = <<Entry>> /\ Entry.next \in Nat
          /\ prod \in Producers /\ prod.seq \in Nat /\ Frozen(prod)
          /\ prod.pc # "freezing" => Entry.progress = durable
<1>1. TypeOK /\ SourceInv
  BY DEF IInv
<1>2. out # <<>>
  BY DEF Owned
<1>3. Entry \in Entries /\ out = <<Entry>> /\ Entry.next \in Nat
  BY <1>1, <1>2, EntryType
<1>4. prod \in Producers /\ prod.seq \in Nat
  BY <1>1, OwnedEntry DEF Producers
<1>5. QED
  BY <1>1, <1>2, <1>3, <1>4 DEF SourceInv, EntryAgrees

\* The read of the operations behind the snapshot.
LEMMA CollectOperationsKeeps == ASSUME IInv, CollectOperations PROVE IInv'
<1>1. prod.pc = "collecting" /\ Owned /\ ProducerUnchanged /\ UNCHANGED <<durable, out, stream>>
      /\ prod' = [prod EXCEPT !.pc = "snapshot"]
  BY DEF CollectOperations, Valid
<1>2. /\ out # <<>> /\ Entry \in Entries /\ out = <<Entry>> /\ prod \in Producers
      /\ Entry.progress = durable
  BY <1>1, ProducerAtWork
<1>3. prod' \in Producers /\ prod'.ops = prod.ops /\ prod'.pc = "snapshot"
  BY <1>1, <1>2 DEF Producers
<1>4. Failed \in Items /\ FinalFits(Failed)
  BY DEF Failed, Items, FinalFits, None
<1>5. out' = <<Entry>>
  BY <1>1, <1>2
<1>6. QED
  BY <1>1, <1>2, <1>3, <1>4, <1>5, ProducerFrame

\* A chunk of the snapshot.
LEMMA EmitChunkKeeps == ASSUME IInv, EmitChunk PROVE IInv'
<1>1. prod.pc = "snapshot" /\ Owned /\ ProducerUnchanged /\ durable' = durable
      /\ prod' = [prod EXCEPT !.seq = prod.seq + 1]
  BY DEF EmitChunk, Valid
<1>2. /\ out # <<>> /\ Entry \in Entries /\ prod \in Producers /\ prod.seq \in Nat
      /\ Entry.progress = durable
  BY <1>1, ProducerAtWork
<1>3. PICK i : i = Chunk(prod.seq)
  OBVIOUS
<1>4. i \in Items /\ i.kind = "chunk" /\ FinalFits(i)
  BY <1>2, <1>3, ItemTypes DEF FinalFits
<1>5. PICK e : e = Emit(Entry, i)
  OBVIOUS
<1>6. /\ e \in Entries /\ e.progress = durable /\ e.pending = Entry.pending
      /\ e.attached = Entry.attached /\ EmittedOps(Entry) \subseteq EmittedOps(e)
  BY <1>2, <1>4, <1>5, EmitKeeps
<1>7. out' = <<e>> /\ stream' = Append(stream, i)
  BY <1>3, <1>5 DEF EmitChunk
<1>8. PICK n \in Nat : n = prod.seq + 1
  BY <1>2
<1>9. prod' \in Producers /\ prod'.ops = prod.ops /\ prod'.pc = "snapshot"
  BY <1>1, <1>2, <1>8 DEF Producers
<1>10. QED
  BY <1>1, <1>2, <1>4, <1>6, <1>7, <1>9, ProducerFrame

\* The final item carries the boundary that was frozen.
LEMMA EmitFinalKeeps == ASSUME IInv, EmitFinal PROVE IInv'
<1>1. prod.pc = "final" /\ Owned /\ ProducerUnchanged /\ durable' = durable
      /\ prod' = [prod EXCEPT !.pc = "operations"]
  BY DEF EmitFinal, Valid
<1>2. /\ out # <<>> /\ Entry \in Entries /\ prod \in Producers /\ prod.seq \in Nat
      /\ Entry.progress = durable /\ durable.boundary # None
  BY <1>1, ProducerAtWork DEF Frozen
<1>3. durable.boundary \in Nat
  BY DEF IInv, TypeOK, Records
<1>4. PICK i : i = Final(prod.seq, Entry.progress.boundary)
  OBVIOUS
<1>5. i \in Items /\ i.kind = "final" /\ i.lsn = Boundary /\ i.boundary = durable.boundary
  BY <1>2, <1>3, <1>4, ItemTypes
<1>6. FinalFits(i)
  BY <1>2, <1>5 DEF FinalFits
<1>7. PICK d : d = Emit(Entry, i)
  OBVIOUS
<1>8. /\ d \in Entries /\ d.progress = durable /\ d.pending = Entry.pending
      /\ d.attached = Entry.attached /\ EmittedOps(Entry) \subseteq EmittedOps(d)
  BY <1>2, <1>5, <1>7, EmitKeeps
<1>9. PICK e : e = [d EXCEPT !.final = prod.seq]
  OBVIOUS
<1>10. /\ e \in Entries /\ e.progress = durable /\ e.pending = Entry.pending
       /\ e.attached = Entry.attached /\ e.emitted = d.emitted
  BY <1>2, <1>8, <1>9 DEF Entries
<1>11. EmittedOps(Entry) \subseteq EmittedOps(e)
  BY <1>8, <1>10 DEF EmittedOps
<1>12. out' = <<e>> /\ stream' = Append(stream, i)
  BY <1>4, <1>7, <1>9 DEF EmitFinal
<1>13. prod' \in Producers /\ prod'.ops = prod.ops
  BY <1>1, <1>2 DEF Producers
<1>14. QED
  BY <1>1, <1>2, <1>5, <1>6, <1>10, <1>11, <1>12, <1>13, ProducerFrame

\* An operation leaves the producer's hands when it is emitted.
LEMMA EmitOperationKeeps == ASSUME IInv, EmitOperation PROVE IInv'
<1>1. prod.pc = "operations" /\ Owned /\ ProducerUnchanged /\ durable' = durable
  BY DEF EmitOperation, Valid
<1>2. /\ out # <<>> /\ Entry \in Entries /\ out = <<Entry>> /\ Entry.next \in Nat
      /\ prod \in Producers /\ Entry.progress = durable /\ durable.boundary # None
  BY <1>1, ProducerAtWork DEF Frozen
<1>3. PICK l \in prod.ops :
         /\ prod' = [prod EXCEPT !.ops = prod.ops \ {l}]
         /\ \/ l \in EmittedOps(Entry) /\ UNCHANGED <<out, stream>>
            \/ /\ out' = <<Emit(Entry, Op(Entry.next, l))>>
               /\ stream' = Append(stream, Op(Entry.next, l))
  BY DEF EmitOperation
<1>4. l \in Nat
  BY <1>2 DEF Producers
<1>5. prod' \in Producers /\ prod'.ops = prod.ops \ {l} /\ prod'.pc = "operations"
  BY <1>1, <1>2, <1>3 DEF Producers
<1>6. PICK i : i = Op(Entry.next, l)
  OBVIOUS
<1>7. i \in Items /\ i.kind = "op" /\ i.lsn = l /\ FinalFits(i)
  BY <1>2, <1>4, <1>6, ItemTypes DEF FinalFits
<1>8. CASE l \in EmittedOps(Entry) /\ UNCHANGED <<out, stream>>
  <2>1. out' = <<Entry>>
    BY <1>2, <1>8
  <2>2. prod.ops \cup Entry.pending \subseteq prod'.ops \cup Entry.pending \cup EmittedOps(Entry)
    BY <1>5, <1>8
  <2>3. prod'.ops \subseteq prod.ops \cup Entry.pending
    BY <1>5
  <2>4. QED
    BY <1>1, <1>2, <1>5, <1>7, <1>8, <2>1, <2>2, <2>3, ProducerFrame
<1>9. CASE /\ out' = <<Emit(Entry, Op(Entry.next, l))>>
           /\ stream' = Append(stream, Op(Entry.next, l))
  <2>1. PICK e : e = Emit(Entry, i)
    OBVIOUS
  <2>2. /\ e \in Entries /\ e.progress = durable /\ e.pending = Entry.pending
        /\ e.attached = Entry.attached /\ EmittedOps(Entry) \subseteq EmittedOps(e)
        /\ l \in EmittedOps(e)
    BY <1>2, <1>7, <2>1, EmitKeeps
  <2>3. out' = <<e>> /\ stream' = Append(stream, i)
    BY <1>6, <1>9, <2>1
  <2>4. prod.ops \cup Entry.pending \subseteq prod'.ops \cup e.pending \cup EmittedOps(e)
    BY <1>5, <2>2
  <2>5. prod'.ops \subseteq prod.ops \cup Entry.pending
    BY <1>5
  <2>6. QED
    BY <1>1, <1>2, <1>5, <1>7, <2>2, <2>3, <2>4, <2>5, ProducerFrame
<1>10. QED
  BY <1>3, <1>8, <1>9

\* The operations written meanwhile become the producer's.
LEMMA TakePendingKeeps == ASSUME IInv, TakePending PROVE IInv'
<1>1. prod.pc = "operations" /\ prod.ops = {} /\ Owned /\ ProducerUnchanged
      /\ UNCHANGED <<durable, stream>>
  BY DEF TakePending
<1>2. /\ out # <<>> /\ Entry \in Entries /\ prod \in Producers
      /\ Entry.progress = durable /\ durable.boundary # None
  BY <1>1, ProducerAtWork DEF Frozen
<1>3. Failed \in Items /\ FinalFits(Failed)
  BY DEF Failed, Items, FinalFits, None
<1>4. CASE Entry.pending = {}
  <2>1. PICK e : e = [Entry EXCEPT !.catching = FALSE]
    OBVIOUS
  <2>2. /\ e \in Entries /\ e.progress = durable /\ e.pending = Entry.pending
        /\ e.attached = Entry.attached /\ e.emitted = Entry.emitted
    BY <1>2, <2>1 DEF Entries
  <2>3. EmittedOps(Entry) \subseteq EmittedOps(e)
    BY <2>2 DEF EmittedOps
  <2>4. out' = <<e>> /\ prod' = Idle
    BY <1>4, <2>1 DEF TakePending
  <2>5. prod'.ops = {} /\ prod'.pc = "idle"
    BY <2>4 DEF Idle
  <2>6. QED
    BY <1>1, <1>2, <1>3, <1>4, <2>2, <2>3, <2>4, <2>5, ProducerFrame
<1>5. CASE Entry.pending # {}
  <2>1. PICK e : e = [Entry EXCEPT !.pending = {}]
    OBVIOUS
  <2>2. /\ e \in Entries /\ e.progress = durable /\ e.pending = {}
        /\ e.attached = Entry.attached /\ e.emitted = Entry.emitted
    BY <1>2, <2>1 DEF Entries
  <2>3. EmittedOps(Entry) \subseteq EmittedOps(e)
    BY <2>2 DEF EmittedOps
  <2>4. out' = <<e>> /\ prod' = [prod EXCEPT !.ops = Entry.pending]
    BY <1>5, <2>1 DEF TakePending
  <2>5. Entry.pending \in SUBSET Nat
    BY <1>2 DEF Entries
  <2>6. prod' \in Producers /\ prod'.ops = Entry.pending
    BY <1>2, <2>4, <2>5 DEF Producers
  <2>7. QED
    BY <1>1, <1>2, <1>3, <2>2, <2>3, <2>4, <2>6, ProducerFrame
<1>6. QED
  BY <1>4, <1>5

\* The store's record grows and keeps the boundary it has.
LEMMA DurableFrame ==
    ASSUME IInv, UNCHANGED <<tgt, net, stream, waiter, host>>, durable' \in Records,
           durable.boundary # None => durable'.boundary = durable.boundary,
           durable.completed => durable'.completed, durable.lsn <= durable'.lsn,
           DurableStored'
    PROVE TargetStored' /\ BusyStored' /\ NetFits' /\ DoneInv' /\ StreamFits'
<1>1. TypeOK /\ TargetStored /\ BusyStored /\ NetFits /\ DoneInv /\ StreamFits
  BY DEF IInv
<1>2. \A i : FinalFits(i) => (i.kind = "final" =>
          i.lsn = Boundary /\ i.boundary = durable'.boundary /\ i.boundary # None)
  BY DEF FinalFits
<1>3. TargetStored'
  BY <1>1 DEF TargetStored
<1>4. BusyStored'
  BY <1>1, <1>2 DEF BusyStored, Stored, FinalFits
<1>5. NetFits'
  BY <1>1, <1>2 DEF NetFits, FinalFits
<1>6. StreamFits'
  BY <1>1, <1>2 DEF StreamFits, FinalFits
<1>7. DoneInv'
  <2>1. /\ durable.lsn \in Nat /\ durable'.lsn \in Nat /\ durable.boundary \in Nat
    BY <1>1 DEF TypeOK, Records
  <2>2. QED
    BY <1>1, <2>1 DEF DoneInv, CaughtUp
<1>8. QED
  BY <1>3, <1>4, <1>5, <1>6, <1>7

\* The boundary is frozen once: a record that has one keeps it.
LEMMA FreezeBoundaryKeeps == ASSUME IInv, FreezeBoundary PROVE IInv'
<1>1. prod.pc = "snapshot" /\ Owned /\ ProducerUnchanged /\ UNCHANGED <<out, stream>>
      /\ prod' = [prod EXCEPT !.pc = "freezing"]
      /\ durable' = [Entry.progress EXCEPT !.boundary = CatchUpBoundary]
  BY DEF FreezeBoundary, Valid
<1>2. /\ out # <<>> /\ Entry \in Entries /\ prod \in Producers /\ Entry.progress = durable
  BY <1>1, ProducerAtWork
<1>3. TypeOK /\ SourceInv /\ DurableStored
  BY DEF IInv
<1>4. UNCHANGED <<highest, fence, stale, waiter, session, disp, host, tgt, net, faults>>
  BY <1>1 DEF ProducerUnchanged
<1>5. PICK b : b = CatchUpBoundary
  OBVIOUS
<1>6. b \in Nat /\ b # None /\ (durable.boundary # None => b = durable.boundary)
  <2>1. MaxOf({highest, Boundary} \cup prod.ops) = highest
    BY <1>3, MaxOfApplied DEF TypeOK, SourceInv, OpsApplied
  <2>2. highest \in Nat /\ highest # None /\ durable.boundary \in Nat
    BY <1>3, BoundaryAssumption DEF TypeOK, Records, None
  <2>3. QED
    BY <1>2, <1>5, <2>1, <2>2 DEF CatchUpBoundary
<1>7. /\ durable' \in Records /\ durable'.boundary = b /\ durable'.seq = durable.seq
      /\ durable'.lsn = durable.lsn /\ durable'.completed = durable.completed
  BY <1>1, <1>2, <1>3, <1>5, <1>6 DEF TypeOK, Records
<1>8. durable.lsn <= durable'.lsn
  BY <1>3, <1>7 DEF TypeOK, Records
<1>9. DurableStored'
  BY <1>3, <1>4, <1>7 DEF DurableStored
<1>10. prod' \in Producers /\ prod'.pc = "freezing" /\ prod'.ops = prod.ops
  BY <1>1, <1>2 DEF Producers
<1>11. TypeOK'
  BY <1>1, <1>3, <1>4, <1>7, <1>10 DEF TypeOK
<1>12. EntryAgrees'
  <2>1. out' = out /\ Entry' = Entry
    BY <1>1 DEF Entry
  <2>2. CASE durable.boundary = None
    BY <1>2, <1>7, <1>10, <2>1, <2>2 DEF EntryAgrees
  <2>3. CASE durable.boundary # None
    <3>1. durable' = durable
      BY <1>1, <1>2, <1>3, <1>5, <1>6, <2>3 DEF TypeOK, Records
    <3>2. QED
      BY <1>2, <2>1, <3>1 DEF EntryAgrees
  <2>4. QED
    BY <2>2, <2>3
<1>13. OpsApplied' /\ NothingFallsBetween'
  BY <1>1, <1>3, <1>4, <1>10 DEF SourceInv, OpsApplied, NothingFallsBetween, Entry, EmittedOps
<1>14. Frozen(prod)' /\ (\A p \in stale' : Frozen(p)' /\ p.pc # "freezing")
       /\ ("stale" \notin faults' => stale' = {})
  BY <1>3, <1>4, <1>6, <1>7 DEF SourceInv, Frozen
<1>15. SourceInv'
  BY <1>12, <1>13, <1>14 DEF SourceInv
<1>16. TargetStored' /\ BusyStored' /\ NetFits' /\ DoneInv' /\ StreamFits'
  BY <1>1, <1>4, <1>6, <1>7, <1>8, <1>9, DurableFrame
<1>17. AckStored'
  BY <1>4, AckFrame
<1>18. QED
  BY <1>9, <1>11, <1>15, <1>16, <1>17 DEF IInv

\* The entry takes over what was stored.
LEMMA PublishBoundaryKeeps == ASSUME IInv, PublishBoundary PROVE IInv'
<1>1. prod.pc = "freezing" /\ Owned /\ ProducerUnchanged /\ UNCHANGED <<durable, stream>>
      /\ prod' = [prod EXCEPT !.pc = "final"]
  BY DEF PublishBoundary, Valid
<1>2. /\ out # <<>> /\ Entry \in Entries /\ prod \in Producers /\ durable.boundary # None
  BY <1>1, ProducerAtWork DEF Frozen
<1>3. durable \in Records
  BY DEF IInv, TypeOK
<1>4. PICK e : e = [Entry EXCEPT !.progress = durable]
  OBVIOUS
<1>5. /\ e \in Entries /\ e.progress = durable /\ e.pending = Entry.pending
      /\ e.attached = Entry.attached /\ e.emitted = Entry.emitted
  BY <1>2, <1>3, <1>4 DEF Entries
<1>6. EmittedOps(Entry) \subseteq EmittedOps(e)
  BY <1>5 DEF EmittedOps
<1>7. out' = <<e>>
  BY <1>4 DEF PublishBoundary
<1>8. prod' \in Producers /\ prod'.ops = prod.ops
  BY <1>1, <1>2 DEF Producers
<1>9. Failed \in Items /\ FinalFits(Failed)
  BY DEF Failed, Items, FinalFits, None
<1>10. QED
  BY <1>1, <1>2, <1>5, <1>6, <1>7, <1>8, <1>9, ProducerFrame

\* A preparation that fails removes the entry there is.
LEMMA PreparationFailsKeeps == ASSUME IInv, PreparationFails PROVE IInv'
<1>1. TypeOK
  BY DEF IInv
<1>2. UNCHANGED <<highest, fence, durable, stale, stream, waiter, session, host, tgt, net, faults>>
      /\ prod' = Idle /\ prod.pc = "collecting"
  BY DEF PreparationFails
<1>3. out' = <<>>
  BY <1>1, <1>2, OwnedEntry DEF PreparationFails
<1>4. disp' \in Dispatchers /\ disp'.ack = disp.ack
  BY <1>1 DEF PreparationFails, TypeOK, Dispatchers
<1>5. TypeOK'
  BY <1>1, <1>2, <1>3, <1>4, NoneOf DEF TypeOK
<1>6. QED
  BY <1>2, <1>3, <1>4, <1>5, EntryGone, StreamKept, TargetFrame, AckFrame, DoneFrame DEF IInv

\* So does a producer that fails.
LEMMA ProducerFailsKeeps == ASSUME IInv, ProducerFails PROVE IInv'
<1>1. TypeOK
  BY DEF IInv
<1>2. UNCHANGED <<highest, fence, durable, stale, waiter, session, disp, host, tgt, net, faults>>
      /\ prod' = Idle /\ prod.pc # "idle"
  BY DEF ProducerFails, ProducerUnchanged
<1>3. out' = <<>>
  BY <1>1, <1>2, OwnedEntry DEF ProducerFails
<1>4. Failed \in Items /\ FinalFits(Failed)
  BY DEF Failed, Items, FinalFits, None
<1>5. stream' = stream \/ stream' = Append(stream, Failed)
  BY DEF ProducerFails
<1>6. StreamFits' /\ stream' \in Seq(Items)
  BY <1>2, <1>4, <1>5, StreamFrame
<1>7. TypeOK'
  BY <1>1, <1>2, <1>3, <1>6, NoneOf DEF TypeOK
<1>8. QED
  BY <1>2, <1>3, <1>6, <1>7, EntryGone, TargetFrame, AckFrame, DoneFrame DEF IInv

\* The producer of a cancelled attempt may change the items and the pending
\* operations of the retry's entry; it never changes its record.
LEMMA StaleProducerKeeps == ASSUME IInv, NEW p \in stale, StaleProducer(p) PROVE IInv'
<1>1. TypeOK /\ SourceInv
  BY DEF IInv
<1>2. UNCHANGED <<highest, fence, durable, prod, stream, waiter, session, disp, host, tgt, net, faults>>
  BY DEF StaleProducer
<1>3. p \in Producers /\ p.gen = 1 /\ p.seq \in Nat /\ p.ops \in SUBSET Nat /\ "stale" \in faults
      /\ p.pc # "freezing"
  BY <1>1 DEF TypeOK, SourceInv, Producers
<1>4. /\ stale' \subseteq Producers
      /\ \A q \in stale' : q \in stale \/ q.pc = p.pc \/ q.pc = "failing"
      /\ \/ out' = <<>> \/ out' = out
         \/ /\ out # <<>>
            /\ \/ \E i \in Items : out' = <<Emit(Entry, i)>>
               \/ \E i \in Items : out' = <<[Emit(Entry, i) EXCEPT !.final = p.seq]>>
               \/ out' = <<[Entry EXCEPT !.pending = {}]>>
               \/ out' = <<[Entry EXCEPT !.catching = FALSE]>>
  <2>1. PICK mine \in BOOLEAN : mine = (out # <<>> /\ Entry.gen = p.gen)
    OBVIOUS
  <2>2. CASE ~mine \/ fence # p.gen \/ p.pc \in {"collecting", "snapshot", "failing"}
    BY <1>1, <2>1, <2>2 DEF StaleProducer, TypeOK
  <2>3. CASE ~(~mine \/ fence # p.gen \/ p.pc \in {"collecting", "snapshot", "failing"})
    <3>1. out # <<>> /\ Entry \in Entries /\ Entry.next \in Nat /\ Entry.progress \in Records
      BY <1>1, <2>1, <2>3, EntryType
    <3>2. CASE p.pc = "final"
      <4>1. out' = <<[Emit(Entry, Final(p.seq, Entry.progress.boundary)) EXCEPT !.final = p.seq]>>
            /\ stale' = (stale \ {p}) \cup {[p EXCEPT !.pc = "failing"]}
        BY <2>1, <2>3, <3>2 DEF StaleProducer
      <4>2. Entry.progress.boundary \in Nat
        BY <3>1 DEF Records
      <4>3. Final(p.seq, Entry.progress.boundary) \in Items
        BY <1>3, <4>2, ItemTypes
      <4>4. [p EXCEPT !.pc = "failing"] \in Producers /\ [p EXCEPT !.pc = "failing"].pc = "failing"
        BY <1>3 DEF Producers
      <4>5. QED
        BY <1>1, <3>1, <4>1, <4>3, <4>4 DEF TypeOK
    <3>3. CASE p.pc # "final" /\ p.ops # {}
      <4>1. PICK l \in p.ops :
               \/ out' = out /\ stale' = (stale \ {p}) \cup {[p EXCEPT !.ops = p.ops \ {l}]}
               \/ /\ out' = <<Emit(Entry, Op(Entry.next, l))>>
                  /\ stale' = (stale \ {p}) \cup {[p EXCEPT !.ops = p.ops \ {l}, !.pc = "failing"]}
        BY <2>1, <2>3, <3>3 DEF StaleProducer
      <4>2. l \in Nat /\ Op(Entry.next, l) \in Items
        BY <1>3, <3>1, ItemTypes
      <4>3. [p EXCEPT !.ops = p.ops \ {l}] \in Producers /\ [p EXCEPT !.ops = p.ops \ {l}].pc = p.pc
        BY <1>3 DEF Producers
      <4>4. /\ [p EXCEPT !.ops = p.ops \ {l}, !.pc = "failing"] \in Producers
            /\ [p EXCEPT !.ops = p.ops \ {l}, !.pc = "failing"].pc = "failing"
        BY <1>3 DEF Producers
      <4>5. QED
        BY <1>1, <3>1, <4>1, <4>2, <4>3, <4>4 DEF TypeOK
    <3>4. CASE p.pc # "final" /\ p.ops = {} /\ Entry.pending # {}
      <4>1. out' = <<[Entry EXCEPT !.pending = {}]>>
            /\ stale' = (stale \ {p}) \cup {[p EXCEPT !.ops = Entry.pending]}
        BY <2>1, <2>3, <3>4 DEF StaleProducer
      <4>2. Entry.pending \in SUBSET Nat
        BY <3>1 DEF Entries
      <4>3. [p EXCEPT !.ops = Entry.pending] \in Producers /\ [p EXCEPT !.ops = Entry.pending].pc = p.pc
        BY <1>3, <4>2 DEF Producers
      <4>4. QED
        BY <1>1, <3>1, <4>1, <4>3 DEF TypeOK
    <3>5. CASE p.pc # "final" /\ p.ops = {} /\ Entry.pending = {}
      <4>1. out' = <<[Entry EXCEPT !.catching = FALSE]>> /\ stale' = (stale \ {p}) \cup {}
        BY <2>1, <2>3, <3>5 DEF StaleProducer
      <4>2. QED
        BY <1>1, <3>1, <4>1 DEF TypeOK
    <3>6. QED
      BY <3>2, <3>3, <3>4, <3>5
  <2>4. QED
    BY <2>2, <2>3
<1>5. \/ out' = <<>>
      \/ /\ out # <<>> /\ out' \in AtMostOne(Entries)
         /\ Entry'.progress = Entry.progress /\ Entry'.pending \subseteq Entry.pending
  <2>1. CASE out' = out
    BY <1>1, <2>1 DEF Entry, TypeOK
  <2>2. ASSUME NEW i \in Items, out # <<>>, out' = <<Emit(Entry, i)>>
        PROVE /\ out' \in AtMostOne(Entries)
              /\ Entry'.progress = Entry.progress /\ Entry'.pending \subseteq Entry.pending
    BY <1>1, <2>2, EntryType, EmitKeeps, NewEntry
  <2>3. ASSUME NEW i \in Items, out # <<>>, out' = <<[Emit(Entry, i) EXCEPT !.final = p.seq]>>
        PROVE /\ out' \in AtMostOne(Entries)
              /\ Entry'.progress = Entry.progress /\ Entry'.pending \subseteq Entry.pending
    <3>1. PICK d : d = Emit(Entry, i)
      OBVIOUS
    <3>2. d \in Entries /\ d.progress = Entry.progress /\ d.pending = Entry.pending
      BY <1>1, <2>3, <3>1, EntryType, EmitKeeps
    <3>3. PICK e : e = [d EXCEPT !.final = p.seq]
      OBVIOUS
    <3>4. e \in Entries /\ e.progress = Entry.progress /\ e.pending = Entry.pending
      BY <1>3, <3>2, <3>3 DEF Entries
    <3>5. QED
      BY <2>3, <3>1, <3>3, <3>4, NewEntry
  <2>4. CASE out # <<>> /\ out' = <<[Entry EXCEPT !.pending = {}]>>
    <3>1. PICK e : e = [Entry EXCEPT !.pending = {}]
      OBVIOUS
    <3>2. e \in Entries /\ e.progress = Entry.progress /\ e.pending = {}
      BY <1>1, <2>4, <3>1, EntryType DEF Entries
    <3>3. QED
      BY <2>4, <3>1, <3>2, NewEntry
  <2>5. CASE out # <<>> /\ out' = <<[Entry EXCEPT !.catching = FALSE]>>
    <3>1. PICK e : e = [Entry EXCEPT !.catching = FALSE]
      OBVIOUS
    <3>2. e \in Entries /\ e.progress = Entry.progress /\ e.pending = Entry.pending
      BY <1>1, <2>5, <3>1, EntryType DEF Entries
    <3>3. QED
      BY <2>5, <3>1, <3>2, NewEntry
  <2>6. QED
    BY <1>4, <2>1, <2>2, <2>3, <2>4, <2>5
<1>6. TypeOK'
  BY <1>1, <1>2, <1>4, <1>5, NoneOf DEF TypeOK
<1>7. EntryAgrees' /\ OpsApplied'
  BY <1>1, <1>2, <1>5 DEF SourceInv, EntryAgrees, OpsApplied
<1>8. Frozen(prod)' /\ NothingFallsBetween' /\ ("stale" \notin faults' => stale' = {})
  BY <1>1, <1>2, <1>3 DEF SourceInv, Frozen, NothingFallsBetween
<1>9. \A q \in stale' : Frozen(q)' /\ q.pc # "freezing"
  BY <1>1, <1>2, <1>3, <1>4 DEF SourceInv, Frozen
<1>10. SourceInv'
  BY <1>7, <1>8, <1>9 DEF SourceInv
<1>11. QED
  BY <1>2, <1>6, <1>10, StreamKept, TargetFrame, AckFrame, DoneFrame DEF IInv

-----------------------------------------------------------------------------
\* The dispatcher.

\* An item leaves the stream for the network.
LEMMA SendItemKeeps == ASSUME IInv, SendItem PROVE IInv'
<1>1. TypeOK /\ StreamFits /\ NetFits /\ TargetStored /\ BusyStored /\ DurableStored
  BY DEF IInv
<1>2. UNCHANGED <<highest, fence, durable, out, prod, stale, waiter, session, host, tgt, faults>>
      /\ stream # <<>> /\ stream' = Tail(stream)
  BY DEF SendItem
<1>3. PICK i : i = Head(stream)
  OBVIOUS
<1>4. i \in Items /\ FinalFits(i) /\ i = stream[1] /\ Len(stream) \in Nat /\ Len(stream) # 0
  BY <1>1, <1>2, <1>3 DEF TypeOK, StreamFits
<1>5. stream' \in Seq(Items) /\ Len(stream') = Len(stream) - 1
      /\ \A k \in 1..Len(stream') : stream'[k] = stream[k + 1]
  BY <1>1, <1>2 DEF TypeOK
<1>6. StreamFits'
  <2>1. \A k \in 1..Len(stream') : k + 1 \in 1..Len(stream)
    BY <1>4, <1>5
  <2>2. QED
    BY <1>1, <1>2, <1>5, <2>1 DEF StreamFits, FinalFits
<1>7. /\ disp' \in Dispatchers /\ (disp'.ack = disp.ack \/ disp'.ack = <<>>)
      /\ net' \subseteq Calls /\ \A m \in net' : m \in net \/ (m.item = i /\ i.kind # "error")
  <2>1. CASE i.kind = "error"
    <3>1. disp' = [disp EXCEPT !.pc = "failing"] /\ net' = net
      BY <1>3, <2>1 DEF SendItem
    <3>2. QED
      BY <1>1, <3>1 DEF TypeOK, Dispatchers
  <2>2. CASE i.kind # "error"
    <3>1. PICK b : b = IF i.kind = "final" THEN i.boundary ELSE disp.boundary
      OBVIOUS
    <3>2. PICK one, none : one = <<i>> /\ none = <<>>
      OBVIOUS
    <3>3. one \in AtMostOne(Items) /\ none \in AtMostOne(Items)
      BY <1>4, <3>2, OneOf, NoneOf
    <3>4. b \in Nat /\ session.target \in Nat /\ session.source \in Nat
      BY <1>1, <1>4, <3>1 DEF TypeOK, Dispatchers, Items
    <3>5. disp' = [disp EXCEPT !.item = one, !.ack = none, !.peer = session.target, !.boundary = b]
          /\ net' = net \cup {[item |-> i, from |-> session.source, to |-> session.target]}
      BY <1>3, <2>2, <3>1, <3>2 DEF SendItem
    <3>6. disp' \in Dispatchers /\ disp'.ack = none
      BY <1>1, <3>3, <3>4, <3>5 DEF TypeOK, Dispatchers
    <3>7. PICK c : c = [item |-> i, from |-> session.source, to |-> session.target]
      OBVIOUS
    <3>8. c \in Calls /\ c.item = i
      BY <1>4, <3>4, <3>7 DEF Calls
    <3>9. QED
      BY <1>1, <2>2, <3>2, <3>5, <3>6, <3>7, <3>8 DEF TypeOK
  <2>3. QED
    BY <2>1, <2>2
<1>8. TypeOK'
  BY <1>1, <1>2, <1>5, <1>7 DEF TypeOK
<1>9. NetFits'
  BY <1>1, <1>2, <1>4, <1>7 DEF NetFits, FinalFits
<1>10. TargetStored' /\ DurableStored' /\ BusyStored'
  BY <1>1, <1>2 DEF TargetStored, DurableStored, BusyStored, Stored, FinalFits
<1>11. QED
  BY <1>2, <1>6, <1>7, <1>8, <1>9, <1>10, SourceFrame, AckFrame, DoneFrame DEF IInv

\* The stream ends early, or a call fails: only the dispatcher notices.
LEMMA DispatcherFails ==
    ASSUME IInv, UNCHANGED <<source, session, host, tgt, net>>, disp' = [disp EXCEPT !.pc = "failing"],
           "stale" \in faults' <=> "stale" \in faults
    PROVE IInv'
<1>1. TypeOK
  BY DEF IInv
<1>2. UNCHANGED <<highest, fence, durable, out, prod, stale, stream, waiter>>
  BY DEF source
<1>3. disp' \in Dispatchers /\ disp'.ack = disp.ack
  BY <1>1 DEF TypeOK, Dispatchers
<1>4. TypeOK'
  BY <1>1, <1>2, <1>3 DEF TypeOK
<1>5. QED
  BY <1>2, <1>3, <1>4, SourceFrame, StreamKept, TargetFrame, AckFrame, DoneFrame DEF IInv

\* What an acknowledgement adds to the record, the target has recorded.
LEMMA ReceiveAckKeeps == ASSUME IInv, ReceiveAck PROVE IInv'
<1>1. TypeOK /\ SourceInv /\ AckStored /\ DurableStored
  BY DEF IInv
<1>2. UNCHANGED <<highest, fence, prod, stale, stream, waiter, session, host, tgt, net, faults>>
      /\ disp.ack # <<>> /\ prod.pc # "freezing"
  BY DEF ReceiveAck
<1>3. PICK a : a = disp.ack[1]
  OBVIOUS
<1>4. a \in Items /\ Covered(a)
  BY <1>1, <1>2, <1>3, TheOne DEF TypeOK, Dispatchers, AckStored
<1>5. CASE session.target # disp.peer \/ ~AckMatches(a)
  <2>1. disp' = [disp EXCEPT !.pc = "failing"] /\ UNCHANGED <<durable, out>>
    BY <1>3, <1>5 DEF ReceiveAck
  <2>2. disp' \in Dispatchers /\ disp'.ack = disp.ack
    BY <1>1, <2>1 DEF TypeOK, Dispatchers
  <2>3. TypeOK'
    BY <1>1, <1>2, <2>1, <2>2 DEF TypeOK
  <2>4. QED
    BY <1>2, <2>1, <2>2, <2>3, SourceFrame, StreamKept, TargetFrame, AckFrame, DoneFrame DEF IInv
<1>6. CASE ~(session.target # disp.peer \/ ~AckMatches(a))
  <2>1. out # <<>> /\ durable' = Advance(Entry.progress, a)
        /\ out' = <<[Entry EXCEPT !.progress = durable']>>
    BY <1>3, <1>6 DEF ReceiveAck, AckMatches
  <2>2. Entry \in Entries /\ Entry.progress = durable
    BY <1>1, <1>2, <2>1, EntryType DEF SourceInv, EntryAgrees
  <2>3. PICK n, l, c : /\ n = MaxOf({durable.seq, a.seq}) /\ l = MaxOf({durable.lsn, a.lsn})
                       /\ c = (durable.completed \/ a.kind = "final")
    OBVIOUS
  <2>4. /\ durable.seq \in Nat /\ durable.lsn \in Nat /\ a.seq \in Nat /\ a.lsn \in Nat
        /\ durable.completed \in BOOLEAN
        /\ tgt.progress.seq \in Nat /\ tgt.progress.lsn \in Nat
    BY <1>1, <1>4 DEF TypeOK, Records, Items, Targets
  <2>5. /\ n \in Nat /\ n <= tgt.progress.seq
    BY <1>1, <1>4, <2>3, <2>4, MaxOfTwo DEF DurableStored, Covered
  <2>6. /\ l \in Nat /\ l <= tgt.progress.lsn /\ durable.lsn <= l
    BY <1>1, <1>4, <2>3, <2>4, MaxOfTwo DEF DurableStored, Covered
  <2>7. c \in BOOLEAN /\ (durable.completed => c) /\ (c => tgt.progress.completed)
    BY <1>1, <1>4, <2>3, <2>4 DEF DurableStored, Covered
  <2>8. PICK d : d = [durable EXCEPT !.seq = n, !.lsn = l, !.completed = c]
    OBVIOUS
  <2>9. d \in Records /\ d.boundary = durable.boundary /\ d.seq = n /\ d.lsn = l /\ d.completed = c
    BY <1>1, <2>5, <2>6, <2>7, <2>8 DEF TypeOK, Records
  <2>10. durable' = d
    BY <2>1, <2>2, <2>3, <2>8 DEF Advance
  <2>11. DurableStored'
    BY <1>2, <2>5, <2>6, <2>7, <2>9, <2>10 DEF DurableStored
  <2>12. TargetStored' /\ BusyStored' /\ NetFits' /\ DoneInv' /\ StreamFits'
    BY <1>2, <2>6, <2>7, <2>9, <2>10, <2>11, DurableFrame
  <2>13. PICK e : e = [Entry EXCEPT !.progress = d]
    OBVIOUS
  <2>14. /\ e \in Entries /\ e.progress = d /\ e.pending = Entry.pending /\ e.gen = Entry.gen
         /\ e.attached = Entry.attached /\ e.emitted = Entry.emitted
    BY <2>2, <2>9, <2>13 DEF Entries
  <2>15. out' \in AtMostOne(Entries) /\ out' # <<>> /\ Entry' = e
    BY <2>1, <2>10, <2>13, <2>14, NewEntry
  <2>16. disp' \in Dispatchers /\ (disp'.ack = disp.ack \/ disp'.ack = <<>>)
    <3>1. PICK none : none = <<>>
      OBVIOUS
    <3>2. none \in AtMostOne(Items)
      BY <3>1, NoneOf
    <3>3. disp' = [disp EXCEPT !.pc = "copied"] \/ disp' = [disp EXCEPT !.item = none, !.ack = none]
      BY <1>3, <1>6, <3>1 DEF ReceiveAck
    <3>4. disp' \in Dispatchers /\ (disp'.ack = disp.ack \/ disp'.ack = none)
      BY <1>1, <3>2, <3>3 DEF TypeOK, Dispatchers
    <3>5. QED
      BY <3>1, <3>4
  <2>17. TypeOK'
    BY <1>1, <1>2, <2>9, <2>10, <2>15, <2>16 DEF TypeOK
  <2>18. EntryAgrees' /\ OpsApplied'
    BY <1>1, <1>2, <2>1, <2>10, <2>14, <2>15 DEF SourceInv, EntryAgrees, OpsApplied
  <2>19. NothingFallsBetween'
    BY <1>1, <1>2, <2>1, <2>14, <2>15 DEF SourceInv, NothingFallsBetween, EmittedOps
  <2>20. Frozen(prod)' /\ (\A p \in stale' : Frozen(p)' /\ p.pc # "freezing")
         /\ ("stale" \notin faults' => stale' = {})
    BY <1>1, <1>2, <2>9, <2>10 DEF SourceInv, Frozen
  <2>21. SourceInv'
    BY <2>18, <2>19, <2>20 DEF SourceInv
  <2>22. AckStored'
    BY <1>2, <2>16, AckFrame
  <2>23. QED
    BY <2>11, <2>12, <2>17, <2>21, <2>22 DEF IInv
<1>7. QED
  BY <1>5, <1>6

-----------------------------------------------------------------------------
\* The target.

\* An answer covers what the target has recorded when it is given.
LEMMA AnswerKeeps ==
    ASSUME TypeOK, AckStored, NEW m \in Calls, NEW l \in Nat, Answer(m, l),
           m.item.seq <= tgt'.progress.seq, l <= tgt'.progress.lsn,
           m.item.kind = "final" => tgt'.progress.completed,
           tgt' \in Targets, tgt.progress.seq <= tgt'.progress.seq,
           tgt.progress.lsn <= tgt'.progress.lsn,
           tgt.progress.completed => tgt'.progress.completed
    PROVE disp' \in Dispatchers /\ AckStored'
<1> disp \in Dispatchers
  BY DEF TypeOK
<1>1. CASE disp' = disp
  <2>1. disp.ack # <<>> => disp.ack[1].seq \in Nat /\ disp.ack[1].lsn \in Nat
    BY TheOne DEF Dispatchers, Items
  <2>2. /\ tgt.progress.seq \in Nat /\ tgt.progress.lsn \in Nat
        /\ tgt'.progress.seq \in Nat /\ tgt'.progress.lsn \in Nat
    BY DEF TypeOK, Targets, Records
  <2>3. QED
    BY <1>1, <2>1, <2>2 DEF AckStored, Covered
<1>2. CASE disp' # disp
  <2>1. PICK a : a = [seq |-> m.item.seq, kind |-> m.item.kind, lsn |-> l, boundary |-> m.item.boundary]
    OBVIOUS
  <2>2. a \in Items /\ a.seq = m.item.seq /\ a.kind = m.item.kind /\ a.lsn = l
    BY <2>1 DEF Calls, Items
  <2>3. PICK one : one = <<a>>
    OBVIOUS
  <2>4. one \in AtMostOne(Items) /\ one[1] = a
    BY <2>2, <2>3, OneOf
  <2>5. disp' = [disp EXCEPT !.ack = one]
    BY <1>2, <2>1, <2>3 DEF Answer
  <2>6. disp' \in Dispatchers /\ disp'.ack = one
    BY <2>4, <2>5 DEF Dispatchers
  <2>7. QED
    BY <2>2, <2>4, <2>6 DEF AckStored, Covered
<1>3. QED
  BY <1>1, <1>2

\* The item was recorded before and is acknowledged again.
LEMMA DuplicateKeeps == ASSUME IInv, NEW m \in net, Duplicate(m) PROVE IInv'
<1>1. TypeOK /\ NetFits /\ TargetStored /\ BusyStored /\ AckStored /\ DurableStored
  BY DEF IInv
<1>2. tgt' = tgt /\ net' = net \ {m} /\ UNCHANGED <<source, session, host, faults>>
      /\ Acceptable(m) /\ m.item.seq <= tgt.progress.seq
  BY DEF Duplicate, TgtUnchanged
<1>3. UNCHANGED <<highest, fence, durable, out, prod, stale, stream, waiter>>
  BY <1>2 DEF source
<1>4. m \in Calls /\ m.item \in Items /\ tgt \in Targets /\ tgt.progress \in Records
  BY <1>1 DEF TypeOK, Calls, Targets
<1>5. tgt.progress.lsn \in Nat /\ tgt.progress.seq \in Nat
  BY <1>4 DEF Records
<1>6. m.item.kind = "final" => tgt.progress.completed
  BY <1>2 DEF Acceptable
<1>7. PICK l : l = CASE m.item.kind = "chunk" -> 0
                     [] m.item.kind = "final" -> Boundary
                     [] OTHER -> tgt.progress.lsn
  OBVIOUS
<1>8. Answer(m, l)
  BY <1>7 DEF Duplicate
<1>9. l \in Nat /\ l <= tgt.progress.lsn
  <2>1. CASE m.item.kind = "chunk"
    BY <1>5, <1>7, <2>1
  <2>2. CASE m.item.kind = "final"
    BY <1>1, <1>5, <1>6, <1>7, <2>2, BoundaryAssumption DEF TargetStored
  <2>3. CASE m.item.kind \notin {"chunk", "final"}
    BY <1>5, <1>7, <2>3
  <2>4. QED
    BY <2>1, <2>2, <2>3
<1>10. disp' \in Dispatchers /\ AckStored'
  BY <1>1, <1>2, <1>4, <1>5, <1>6, <1>8, <1>9, AnswerKeeps
<1>11. TypeOK'
  BY <1>1, <1>2, <1>3, <1>10 DEF TypeOK
<1>12. NetFits' /\ TargetStored' /\ DurableStored'
  BY <1>1, <1>2, <1>3 DEF NetFits, FinalFits, TargetStored, DurableStored
<1>13. BusyStored'
  BY <1>1, <1>2, <1>3 DEF BusyStored, Stored, FinalFits
<1>14. QED
  BY <1>2, <1>3, <1>10, <1>11, <1>12, <1>13, SourceFrame, StreamKept, DoneFrame DEF IInv

\* The application stores the next item; the record is as it was.
LEMMA ApplyKeeps == ASSUME IInv, NEW m \in net, Apply(m) PROVE IInv'
<1>1. TypeOK /\ NetFits /\ TargetStored /\ BusyStored /\ AckStored /\ DurableStored
  BY DEF IInv
<1>2. disp' = disp /\ net' = net \ {m} /\ UNCHANGED <<source, session, host, faults>>
      /\ Acceptable(m) /\ m.item.seq = tgt.progress.seq + 1
  BY DEF Apply, TgtUnchanged
<1>3. UNCHANGED <<highest, fence, durable, out, prod, stale, stream, waiter>>
  BY <1>2 DEF source
<1>4. m \in Calls /\ m.item \in Items /\ tgt \in Targets /\ tgt.progress \in Records
  BY <1>1 DEF TypeOK, Calls, Targets
<1>5. m.item.seq \in Nat /\ m.item.lsn \in Nat /\ tgt.chunks \in Nat /\ tgt.applied \in SUBSET Nat
  BY <1>4 DEF Items, Targets
<1>6. PICK one, c, A :
         /\ one = <<m>>
         /\ c = IF m.item.kind = "chunk" THEN MaxOf({tgt.chunks, m.item.seq}) ELSE tgt.chunks
         /\ A = CASE m.item.kind = "final" -> tgt.applied \cup 1..Boundary
                  [] m.item.kind = "op" -> tgt.applied \cup {m.item.lsn}
                  [] OTHER -> tgt.applied
  OBVIOUS
<1>7. one \in AtMostOne(Calls) /\ one[1] = m
  BY <1>4, <1>6, OneOf
<1>8. c \in Nat
  BY <1>5, <1>6, MaxOfTwo
<1>9. /\ A \in SUBSET Nat /\ tgt.applied \subseteq A
      /\ m.item.kind = "final" => 1..Boundary \subseteq A
      /\ m.item.kind = "op" => m.item.lsn \in A
  BY <1>5, <1>6, BoundaryAssumption
<1>10. tgt' = [tgt EXCEPT !.busy = one, !.chunks = c, !.applied = A]
  BY <1>6 DEF Apply
<1>11. tgt' \in Targets /\ tgt'.progress = tgt.progress /\ tgt'.applied = A /\ tgt'.busy = one
  BY <1>4, <1>7, <1>8, <1>9, <1>10 DEF Targets
<1>12. TypeOK'
  BY <1>1, <1>2, <1>3, <1>11 DEF TypeOK
<1>13. NetFits' /\ DurableStored'
  BY <1>1, <1>2, <1>3, <1>11 DEF NetFits, FinalFits, DurableStored
<1>14. TargetStored' /\ AckStored'
  BY <1>1, <1>2, <1>3, <1>9, <1>11 DEF TargetStored, AckStored, Covered
<1>15. BusyStored'
  <2>1. FinalFits(m.item) /\ m.item.kind # "error"
    BY <1>1 DEF NetFits
  <2>2. /\ m.item.kind = "op" <=> tgt.progress.completed
        /\ m.item.kind = "op" => m.item.lsn = tgt.progress.lsn + 1
    BY <1>2 DEF Acceptable
  <2>3. QED
    BY <1>2, <1>3, <1>7, <1>9, <1>11, <2>1, <2>2 DEF BusyStored, Stored, FinalFits
<1>16. QED
  BY <1>2, <1>3, <1>12, <1>13, <1>14, <1>15, SourceFrame, StreamKept, DoneFrame DEF IInv

\* The target records what its application has, and only forward.
LEMMA RecordKeeps == ASSUME IInv, Record PROVE IInv'
<1>1. TypeOK /\ NetFits /\ TargetStored /\ BusyStored /\ AckStored /\ DurableStored
  BY DEF IInv
<1>2. net' = net /\ UNCHANGED <<source, session, host, faults>> /\ tgt.busy # <<>>
  BY DEF Record, TgtUnchanged
<1>3. UNCHANGED <<highest, fence, durable, out, prod, stale, stream, waiter>>
  BY <1>2 DEF source
<1>4. PICK m : m = tgt.busy[1]
  OBVIOUS
<1>5. PICK i : i = m.item
  OBVIOUS
<1>6. m \in Calls /\ i \in Items /\ tgt \in Targets /\ tgt.progress \in Records /\ Stored(i)
  BY <1>1, <1>2, <1>4, <1>5, TheOne DEF TypeOK, Calls, Targets, BusyStored
<1>7. /\ i.seq \in Nat /\ i.lsn \in Nat /\ i.boundary \in Nat
      /\ tgt.progress.seq \in Nat /\ tgt.progress.lsn \in Nat /\ tgt.progress.boundary \in Nat
  BY <1>6 DEF Items, Records
<1>8. PICK l, b, none, c : /\ l = IF i.kind = "chunk" THEN tgt.progress.lsn ELSE i.lsn
                           /\ b = IF i.kind = "final" THEN i.boundary ELSE tgt.progress.boundary
                           /\ c = (i.kind # "chunk")
                           /\ none = <<>>
  OBVIOUS
<1>9. l \in Nat /\ b \in Nat /\ c \in BOOLEAN /\ none \in AtMostOne(Calls)
  BY <1>7, <1>8, NoneOf
<1>10. PICK r : r = [seq |-> i.seq, lsn |-> l, completed |-> c, boundary |-> b]
  OBVIOUS
<1>11. r \in Records /\ r.seq = i.seq /\ r.lsn = l /\ r.completed = c /\ r.boundary = b
  BY <1>7, <1>9, <1>10 DEF Records
<1>12. tgt' = [tgt EXCEPT !.busy = none, !.progress = r] /\ Answer(m, l)
  BY <1>4, <1>5, <1>8, <1>10 DEF Record
<1>13. tgt' \in Targets /\ tgt'.progress = r /\ tgt'.applied = tgt.applied /\ tgt'.busy = <<>>
  BY <1>6, <1>8, <1>9, <1>11, <1>12 DEF Targets
<1>14. /\ r.seq = tgt.progress.seq + 1 /\ tgt.progress.lsn <= r.lsn
       /\ tgt.progress.completed => r.completed
       /\ i.kind = "final" => r.completed
  <2>1. i.kind \in {"chunk", "final", "op"}
    BY <1>6 DEF Items, Stored
  <2>2. i.kind = "final" => tgt.progress.lsn = 0
    BY <1>1, <1>6 DEF Stored, TargetStored
  <2>3. r.seq = tgt.progress.seq + 1
    BY <1>6, <1>11 DEF Stored
  <2>4. r.completed <=> i.kind # "chunk"
    BY <1>8, <1>11
  <2>5. tgt.progress.completed => i.kind = "op"
    BY <1>6 DEF Stored
  <2>6. i.kind = "op" => i.lsn = tgt.progress.lsn + 1
    BY <1>6 DEF Stored
  <2>7. tgt.progress.lsn <= r.lsn
    BY <1>7, <1>8, <1>11, <2>1, <2>2, <2>6
  <2>8. QED
    BY <2>3, <2>4, <2>5, <2>7
<1>15. tgt.progress.seq <= r.seq
  BY <1>7, <1>14
<1>16. disp' \in Dispatchers /\ AckStored'
  <2>1. m.item.seq <= tgt'.progress.seq /\ l <= tgt'.progress.lsn
    BY <1>5, <1>7, <1>9, <1>11, <1>13
  <2>2. m.item.kind = "final" => tgt'.progress.completed
    BY <1>5, <1>13, <1>14
  <2>3. QED
    BY <1>1, <1>6, <1>9, <1>12, <1>13, <1>14, <1>15, <2>1, <2>2, AnswerKeeps
<1>17. TypeOK'
  BY <1>1, <1>2, <1>3, <1>13, <1>16 DEF TypeOK
<1>18. NetFits' /\ BusyStored'
  BY <1>1, <1>2, <1>3, <1>13 DEF NetFits, FinalFits, BusyStored
<1>19. DurableStored'
  <2>1. durable.seq \in Nat /\ durable.lsn \in Nat
    BY <1>1 DEF TypeOK, Records
  <2>2. QED
    BY <1>1, <1>3, <1>7, <1>11, <1>13, <1>14, <1>15, <2>1 DEF DurableStored, Records
<1>20. TargetStored'
  <2>1. CASE i.kind = "chunk"
    <3>1. ~tgt.progress.completed /\ r.lsn = 0 /\ ~r.completed /\ r.boundary = tgt.progress.boundary
      BY <1>1, <1>6, <1>8, <1>11, <2>1 DEF Stored, TargetStored
    <3>2. QED
      BY <1>1, <1>3, <1>13, <3>1 DEF TargetStored
  <2>2. CASE i.kind = "final"
    <3>1. r.lsn = Boundary /\ r.boundary = durable.boundary /\ r.boundary # None /\ r.completed
          /\ 1..Boundary \subseteq tgt.applied
      BY <1>6, <1>8, <1>11, <2>2 DEF Stored, FinalFits
    <3>2. QED
      BY <1>3, <1>13, <3>1, BoundaryAssumption DEF TargetStored
  <2>3. CASE i.kind = "op"
    <3>1. /\ r.lsn = tgt.progress.lsn + 1 /\ r.lsn \in tgt.applied /\ r.completed
          /\ r.boundary = tgt.progress.boundary /\ tgt.progress.completed
      BY <1>6, <1>8, <1>11, <2>3 DEF Stored
    <3>2. 1..r.lsn \subseteq tgt.applied /\ Boundary <= r.lsn
      BY <1>1, <1>7, <3>1, BoundaryAssumption DEF TargetStored
    <3>3. QED
      BY <1>1, <1>3, <1>13, <3>1, <3>2 DEF TargetStored
  <2>4. QED
    BY <1>6, <2>1, <2>2, <2>3 DEF Items, Stored
<1>21. QED
  BY <1>2, <1>3, <1>16, <1>17, <1>18, <1>19, <1>20, SourceFrame, StreamKept, DoneFrame DEF IInv

\* An item the checks refuse is dropped.
LEMMA RejectKeeps == ASSUME IInv, NEW m \in net, Reject(m) PROVE IInv'
<1>1. TypeOK /\ NetFits /\ TargetStored /\ BusyStored /\ AckStored /\ DurableStored
  BY DEF IInv
<1>2. UNCHANGED <<disp, tgt>> /\ net' = net \ {m} /\ UNCHANGED <<source, session, host, faults>>
  BY DEF Reject, TgtUnchanged
<1>3. UNCHANGED <<highest, fence, durable, out, prod, stale, stream, waiter>>
  BY <1>2 DEF source
<1>4. TypeOK'
  BY <1>1, <1>2, <1>3 DEF TypeOK
<1>5. NetFits' /\ TargetStored' /\ DurableStored' /\ AckStored'
  BY <1>1, <1>2, <1>3 DEF NetFits, FinalFits, TargetStored, DurableStored, AckStored, Covered
<1>6. BusyStored'
  BY <1>1, <1>2, <1>3 DEF BusyStored, Stored, FinalFits
<1>7. QED
  BY <1>2, <1>3, <1>4, <1>5, <1>6, SourceFrame, StreamKept, DoneFrame DEF IInv

-----------------------------------------------------------------------------
\* Faults.

\* The target restarts with its record and its application.
LEMMA TargetCrashKeeps == ASSUME IInv, TargetCrash PROVE IInv'
<1>1. TypeOK /\ TargetStored /\ AckStored /\ DurableStored /\ NetFits
  BY DEF IInv
<1>2. UNCHANGED <<source, disp, host, net>> /\ ("stale" \in faults' <=> "stale" \in faults)
  BY DEF TargetCrash, Fault
<1>3. UNCHANGED <<highest, fence, durable, out, prod, stale, stream, waiter>>
  BY <1>2 DEF source
<1>4. session' \in [source : Nat, target : Nat]
  BY <1>1 DEF TargetCrash, TypeOK
<1>5. PICK none : none = <<>>
  OBVIOUS
<1>6. none \in AtMostOne(Calls)
  BY <1>5, NoneOf
<1>7. tgt' = [tgt EXCEPT !.admitted = FALSE, !.source = 0, !.busy = none]
  BY <1>5 DEF TargetCrash
<1>8. tgt' \in Targets /\ tgt'.progress = tgt.progress /\ tgt'.applied = tgt.applied
      /\ tgt'.busy = <<>>
  BY <1>1, <1>5, <1>6, <1>7 DEF TypeOK, Targets
<1>9. TypeOK'
  BY <1>1, <1>2, <1>3, <1>4, <1>8 DEF TypeOK
<1>10. NetFits' /\ TargetStored' /\ DurableStored' /\ AckStored' /\ BusyStored'
  BY <1>1, <1>2, <1>3, <1>8 DEF NetFits, FinalFits, TargetStored, DurableStored, AckStored, Covered,
                                BusyStored
<1>11. QED
  BY <1>2, <1>3, <1>9, <1>10, SourceFrame, StreamKept, DoneFrame DEF IInv

\* The source restarts with its record.
LEMMA SourceCrashKeeps == ASSUME IInv, SourceCrash PROVE IInv'
<1>1. TypeOK
  BY DEF IInv
<1>2. /\ UNCHANGED <<highest, fence, durable, tgt, net>> /\ ("stale" \in faults' <=> "stale" \in faults)
      /\ out' = <<>> /\ prod' = Idle /\ stale' = {} /\ stream' = <<>> /\ waiter' = "idle"
  BY DEF SourceCrash, Fault
<1>3. session' \in [source : Nat, target : Nat]
  BY <1>1 DEF SourceCrash, TypeOK
<1>4. host' \in Hosts /\ ~host'.accepted
  BY DEF SourceCrash, NoAttempt, Hosts
<1>5. disp' \in Dispatchers /\ disp'.ack = <<>>
  BY NoneOf DEF SourceCrash, Free, Dispatchers, None
<1>6. stream' \in Seq(Items) /\ Len(stream') = 0
  BY <1>2
<1>7. TypeOK'
  BY <1>1, <1>2, <1>3, <1>4, <1>5, <1>6, NoneOf DEF TypeOK
<1>8. StreamFits'
  BY <1>6 DEF StreamFits
<1>9. QED
  BY <1>2, <1>4, <1>5, <1>7, <1>8, EntryGone, TargetFrame, AckFrame, DoneFrame DEF IInv

\* No entry is of a later generation.
LEMMA FenceKeeps == ASSUME IInv, Fence PROVE IInv'
<1>1. TypeOK /\ SourceInv
  BY DEF IInv
<1>2. UNCHANGED <<highest, durable, out, prod, stale, stream, waiter, session, tgt, net>>
      /\ ("stale" \in faults' <=> "stale" \in faults) /\ fence' = fence + 1
  BY DEF Fence, Fault
<1>3. fence' \in Nat \ {0} /\ fence' # 1
  BY <1>1, <1>2 DEF TypeOK
<1>4. host' \in Hosts /\ host'.accepted = host.accepted
  BY <1>1 DEF Fence, TypeOK, Hosts
<1>5. PICK b \in BOOLEAN : b = (disp.pc = "idle")
  OBVIOUS
<1>6. disp' = [disp EXCEPT !.current = b]
  BY <1>5 DEF Fence
<1>7. disp' \in Dispatchers /\ disp'.ack = disp.ack
  BY <1>1, <1>5, <1>6 DEF TypeOK, Dispatchers
<1>8. TypeOK'
  BY <1>1, <1>2, <1>3, <1>4, <1>7 DEF TypeOK
<1>9. NothingFallsBetween'
  <2>1. out' # <<>> => Entry'.gen = 1
    BY <1>1, <1>2, EntryType DEF Entry
  <2>2. QED
    BY <1>3, <2>1 DEF NothingFallsBetween
<1>10. EntryAgrees' /\ OpsApplied'
  BY <1>1, <1>2 DEF SourceInv, EntryAgrees, OpsApplied, Entry
<1>11. Frozen(prod)' /\ (\A p \in stale' : Frozen(p)' /\ p.pc # "freezing")
       /\ ("stale" \notin faults' => stale' = {})
  BY <1>1, <1>2 DEF SourceInv, Frozen
<1>12. SourceInv'
  BY <1>9, <1>10, <1>11 DEF SourceInv
<1>13. QED
  BY <1>2, <1>4, <1>7, <1>8, <1>12, StreamKept, TargetFrame, AckFrame, DoneFrame DEF IInv

-----------------------------------------------------------------------------
\* The theorems.

\* A step that changes nothing keeps the invariant.
LEMMA StutterKeeps == ASSUME IInv, UNCHANGED vars PROVE IInv'
<1>1. UNCHANGED <<source, session, disp, host, tgt, net, faults>>
  BY DEF vars
<1>2. UNCHANGED <<highest, fence, durable, out, prod, stale, stream, waiter>>
  BY <1>1 DEF source
<1>3. TypeOK'
  BY <1>1, <1>2 DEF IInv, TypeOK
<1>4. QED
  BY <1>1, <1>2, <1>3, SourceFrame, StreamKept, TargetFrame, AckFrame, DoneFrame DEF IInv

LEMMA NextKeeps == IInv /\ [Next]_vars => IInv'
<1> SUFFICES ASSUME IInv, [Next]_vars PROVE IInv'
  OBVIOUS
<1>1. CASE Write
  BY <1>1, WriteKeeps
<1>2. CASE Producer
  <2>1. CASE CollectOperations \/ EmitChunk \/ FreezeBoundary \/ PublishBoundary
    BY <2>1, CollectOperationsKeeps, EmitChunkKeeps, FreezeBoundaryKeeps, PublishBoundaryKeeps
  <2>2. CASE EmitFinal \/ EmitOperation \/ TakePending \/ PreparationFails \/ ProducerFails
    BY <2>2, EmitFinalKeeps, EmitOperationKeeps, TakePendingKeeps, PreparationFailsKeeps,
       ProducerFailsKeeps
  <2>3. CASE \E p \in stale : StaleProducer(p)
    BY <2>3, StaleProducerKeeps
  <2>4. QED
    BY <1>2, <2>1, <2>2, <2>3 DEF Producer
<1>3. CASE Attempt
  <2>1. CASE StreamEnds
    BY <2>1, DispatcherFails DEF StreamEnds
  <2>2. CASE EnqueueBuild \/ DispatchBuild \/ PrepareCopy \/ SendItem \/ ReceiveAck
    BY <2>2, EnqueueBuildKeeps, DispatchBuildKeeps, PrepareCopyKeeps, SendItemKeeps, ReceiveAckKeeps
  <2>3. CASE WaitForBuild \/ AcceptBuild \/ CancelAttempt \/ CancelOutboundBuild
    BY <2>3, WaitForBuildKeeps, AcceptBuildKeeps, CancelAttemptKeeps, CancelOutboundBuildKeeps
  <2>4. QED
    BY <1>3, <2>1, <2>2, <2>3 DEF Attempt
<1>4. CASE Target
  <2>1. CASE Record
    BY <2>1, RecordKeeps
  <2>2. CASE \E m \in net : Duplicate(m) \/ Apply(m) \/ Reject(m)
    BY <2>2, DuplicateKeeps, ApplyKeeps, RejectKeeps
  <2>3. QED
    BY <1>4, <2>1, <2>2 DEF Target
<1>5. CASE CopyFails
  <2>1. "stale" \in faults' <=> "stale" \in faults
    BY <1>5 DEF CopyFails, Fault
  <2>2. UNCHANGED <<source, session, host, tgt, net>> /\ disp' = [disp EXCEPT !.pc = "failing"]
    BY <1>5 DEF CopyFails
  <2>3. QED
    BY <2>1, <2>2, DispatcherFails
<1>6. CASE TargetCrash \/ SourceCrash \/ Fence
  BY <1>6, TargetCrashKeeps, SourceCrashKeeps, FenceKeeps
<1>7. CASE UNCHANGED vars
  BY <1>7, StutterKeeps
<1>8. QED
  BY <1>1, <1>2, <1>3, <1>4, <1>5, <1>6, <1>7 DEF Next

LEMMA Invariance == Spec => []IInv
<1>1. QED
  BY InitInv, NextKeeps, PTL DEF Spec

\* Neither the source's store nor the entry a configuration takes the handoff
\* LSN from ever says more of a build than the target has stored
\* (accept_copy_acknowledgement and receive_copy_item, whatever is lost,
\* repeated or answered late, whoever restarts and whatever a cancelled
\* producer does to the retry's entry).
THEOREM NothingIsRecordedEarly == Spec => []RecordedIsStored
<1>1. IInv => RecordedIsStored
  <2> SUFFICES ASSUME IInv PROVE RecordedIsStored
    OBVIOUS
  <2>1. TypeOK /\ SourceInv /\ TargetStored /\ DurableStored
    BY DEF IInv
  <2>2. durable.lsn \in Nat /\ tgt.progress.lsn \in Nat
    BY <2>1 DEF TypeOK, Records, Targets
  <2>3. durable.completed => tgt.progress.completed /\ 1..durable.lsn \subseteq tgt.applied
    BY <2>1, <2>2 DEF TargetStored, DurableStored
  <2>4. out # <<>> => /\ Entry.progress.seq = durable.seq /\ Entry.progress.lsn = durable.lsn
                      /\ Entry.progress.completed = durable.completed
    BY <2>1 DEF SourceInv, EntryAgrees
  <2>5. QED
    BY <2>1, <2>3, <2>4 DEF RecordedIsStored, DurableStored
<1>2. QED
  BY <1>1, Invariance, PTL

\* Every operation applied behind the snapshot is still the producer's, pending or
\* emitted while the build is attached: begin_write_locked and the producer's last
\* look at the pending operations leave no gap.
THEOREM NoOperationIsLost == Spec => []NothingFallsBetween
<1>1. IInv => NothingFallsBetween
  BY DEF IInv, SourceInv
<1>2. QED
  BY <1>1, Invariance, PTL

\* A build whose receipt is published (accept_build) has reached its catch-up
\* boundary: the target recorded it and its application holds all of it.
THEOREM AcceptedBuildsAreComplete == Spec => []AcceptedIsCaughtUp
<1>1. IInv => AcceptedIsCaughtUp
  <2> SUFFICES ASSUME IInv, host.accepted
               PROVE /\ tgt.progress.completed /\ tgt.progress.boundary # None
                     /\ 1..tgt.progress.boundary \subseteq tgt.applied
    BY DEF AcceptedIsCaughtUp
  <2>1. TypeOK /\ CaughtUp /\ TargetStored /\ DurableStored
    BY DEF IInv, DoneInv
  <2>2. /\ durable.lsn \in Nat /\ tgt.progress.lsn \in Nat /\ durable.boundary \in Nat
    BY <2>1 DEF TypeOK, Records, Targets
  <2>3. /\ tgt.progress.completed /\ tgt.progress.boundary = durable.boundary
        /\ tgt.progress.boundary # None /\ 1..tgt.progress.lsn \subseteq tgt.applied
    BY <2>1 DEF CaughtUp, TargetStored, DurableStored
  <2>4. durable.boundary <= tgt.progress.lsn
    BY <2>1, <2>2 DEF CaughtUp, DurableStored
  <2>5. QED
    BY <2>2, <2>3, <2>4
<1>2. QED
  BY <1>1, Invariance, PTL

\* Only a freeze and an acknowledgement write the source's store.
LEMMA DurableWriters ==
    [Next]_vars => durable' = durable \/ FreezeBoundary \/ ReceiveAck
<1> SUFFICES ASSUME [Next]_vars, ~FreezeBoundary, ~ReceiveAck PROVE durable' = durable
  OBVIOUS
<1>1. CASE Producer
  <2>1. ASSUME NEW p \in stale, StaleProducer(p) PROVE durable' = durable
    BY <2>1 DEF StaleProducer
  <2>2. QED
    BY <1>1, <2>1 DEF Producer, CollectOperations, EmitChunk, PublishBoundary, EmitFinal,
       EmitOperation, TakePending, PreparationFails, ProducerFails
<1>2. CASE Attempt
  BY <1>2 DEF Attempt, EnqueueBuild, DispatchBuild, PrepareCopy, SendItem, StreamEnds, WaitForBuild,
     AcceptBuild, CancelAttempt, CancelOutboundBuild, source
<1>3. CASE Target
  BY <1>3 DEF Target, Record, Duplicate, Apply, Reject, TgtUnchanged, source
<1>4. CASE Write \/ CopyFails \/ TargetCrash \/ SourceCrash \/ Fence \/ UNCHANGED vars
  BY <1>4 DEF Write, CopyFails, TargetCrash, SourceCrash, Fence, vars, source
<1>5. QED
  BY <1>1, <1>2, <1>3, <1>4 DEF Next

\* Only Record writes the target's record.
LEMMA TargetWriters ==
    IInv /\ [Next]_vars => tgt'.progress = tgt.progress \/ Record
<1> SUFFICES ASSUME IInv, [Next]_vars, ~Record PROVE tgt'.progress = tgt.progress
  OBVIOUS
<1>0. tgt \in Targets
  BY DEF IInv, TypeOK
<1>1. CASE Producer
  <2>1. ASSUME NEW p \in stale, StaleProducer(p) PROVE tgt' = tgt
    BY <2>1 DEF StaleProducer
  <2>2. QED
    BY <1>1, <2>1 DEF Producer, CollectOperations, EmitChunk, FreezeBoundary, PublishBoundary,
       EmitFinal, EmitOperation, TakePending, PreparationFails, ProducerFails, ProducerUnchanged
<1>2. CASE Attempt
  <2>1. CASE DispatchBuild
    BY <1>0, <2>1 DEF DispatchBuild, AdmitBuild, Targets
  <2>2. CASE ~DispatchBuild
    BY <1>2, <2>2 DEF Attempt, EnqueueBuild, PrepareCopy, SendItem, StreamEnds, ReceiveAck,
       WaitForBuild, AcceptBuild, CancelAttempt, CancelOutboundBuild
  <2>3. QED
    BY <2>1, <2>2
<1>3. CASE Target
  <2>1. PICK m \in net : Duplicate(m) \/ Apply(m) \/ Reject(m)
    BY <1>3 DEF Target
  <2>2. CASE Apply(m)
    BY <1>0, <2>2 DEF Apply, Targets
  <2>3. CASE Duplicate(m) \/ Reject(m)
    BY <2>3 DEF Duplicate, Reject
  <2>4. QED
    BY <2>1, <2>2, <2>3
<1>4. CASE TargetCrash
  BY <1>0, <1>4 DEF TargetCrash, Targets
<1>5. CASE Write \/ CopyFails \/ SourceCrash \/ Fence \/ UNCHANGED vars
  BY <1>5 DEF Write, CopyFails, SourceCrash, Fence, vars
<1>6. QED
  BY <1>1, <1>2, <1>3, <1>4, <1>5 DEF Next

\* No attempt, retry or restart moves the boundary of a build once either store
\* holds it, and the two stores never hold different ones
\* (freeze_build_catch_up_boundary).
THEOREM BoundaryNeverMoves == Spec => BoundaryIsImmutable
<1>1. IInv /\ IInv' /\ [Next]_vars =>
         /\ durable.boundary # None => durable'.boundary = durable.boundary
         /\ tgt.progress.boundary # None => tgt'.progress.boundary = tgt.progress.boundary
         /\ tgt'.progress.boundary \in {None, durable'.boundary}
  <2> SUFFICES ASSUME IInv, IInv', [Next]_vars
               PROVE /\ durable.boundary # None => durable'.boundary = durable.boundary
                     /\ tgt.progress.boundary # None => tgt'.progress.boundary = tgt.progress.boundary
                     /\ tgt'.progress.boundary \in {None, durable'.boundary}
    OBVIOUS
  <2>1. TypeOK /\ SourceInv /\ TargetStored /\ BusyStored /\ TargetStored'
    BY DEF IInv
  <2>2. ASSUME durable.boundary # None PROVE durable'.boundary = durable.boundary
    <3>1. CASE FreezeBoundary
      <4>1. Entry.progress = durable
        BY <3>1, ProducerAtWork DEF FreezeBoundary, Valid
      <4>2. durable' = [durable EXCEPT !.boundary = durable.boundary]
        BY <2>2, <3>1, <4>1 DEF FreezeBoundary, CatchUpBoundary
      <4>3. QED
        BY <2>1, <4>2 DEF TypeOK, Records
    <3>2. CASE ReceiveAck
      <4>1. CASE durable' = durable
        BY <4>1
      <4>2. CASE durable' # durable
        <5>1. PICK a : out # <<>> /\ durable' = Advance(Entry.progress, a)
          BY <3>2, <4>2 DEF ReceiveAck, AckMatches
        <5>2. Entry.progress = durable
          BY <2>1, <3>2, <5>1 DEF SourceInv, EntryAgrees, ReceiveAck
        <5>3. QED
          BY <2>1, <5>1, <5>2 DEF Advance, TypeOK, Records
      <4>3. QED
        BY <4>1, <4>2
    <3>3. QED
      BY <3>1, <3>2, DurableWriters
  <2>3. tgt'.progress.boundary \in {None, durable'.boundary}
    BY <2>1 DEF TargetStored
  <2>4. ASSUME tgt.progress.boundary # None
        PROVE tgt'.progress.boundary = tgt.progress.boundary
    <3>1. durable'.boundary = tgt.progress.boundary
      BY <2>1, <2>2, <2>4 DEF TargetStored
    <3>2. CASE Record
      <4>1. PICK i, r : /\ i = tgt.busy[1].item /\ tgt.busy # <<>>
                        /\ r.boundary = IF i.kind = "final" THEN i.boundary
                                        ELSE tgt.progress.boundary
                        /\ tgt' = [tgt EXCEPT !.busy = <<>>, !.progress = r]
        <5>1. PICK i : i = tgt.busy[1].item
          OBVIOUS
        <5>2. PICK r : r = [seq |-> i.seq,
                            lsn |-> IF i.kind = "chunk" THEN tgt.progress.lsn ELSE i.lsn,
                            completed |-> i.kind # "chunk",
                            boundary |-> IF i.kind = "final" THEN i.boundary
                                         ELSE tgt.progress.boundary]
          OBVIOUS
        <5>3. tgt' = [tgt EXCEPT !.busy = <<>>, !.progress = r] /\ tgt.busy # <<>>
          BY <3>2, <5>1, <5>2 DEF Record
        <5>4. r.boundary = IF i.kind = "final" THEN i.boundary ELSE tgt.progress.boundary
          BY <5>2
        <5>5. QED
          BY <5>1, <5>3, <5>4
      <4>2. tgt'.progress = r
        BY <2>1, <4>1 DEF TypeOK, Targets
      <4>3. i.kind = "final" => i.boundary # None
        BY <2>1, <4>1 DEF BusyStored, Stored, FinalFits
      <4>4. tgt'.progress.boundary # None
        BY <2>4, <4>1, <4>2, <4>3
      <4>5. QED
        BY <2>3, <3>1, <4>4
    <3>3. QED
      BY <3>2, TargetWriters
  <2>5. QED
    BY <2>2, <2>3, <2>4
<1>2. QED
  BY <1>1, Invariance, PTL DEF Spec, BoundaryIsImmutable

=============================================================================
