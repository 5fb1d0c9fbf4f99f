------------------------- MODULE MCFaultActions -------------------------
EXTENDS FaultActions

Conf(e, members) == [epoch |-> e, primary |-> 1, members |-> members,
                     quorum |-> Cardinality(members) \div 2 + 1]

I(id, class, rev, program, epoch) ==
    [id |-> id, class |-> class, rev |-> rev, program |-> program, epoch |-> epoch,
     self |-> 1, session |-> 1, target |-> None, attempt |-> None, role |-> None,
     loss |-> FALSE, current |-> None, previous |-> None]

Initial(id, rev, e) == [I(id, "Authority", rev, "InitialPrimary", e)
                         EXCEPT !.current = Conf(e, {1, 2, 3})]
Promote(id, rev, e) == [I(id, "Authority", rev, "FailoverPromotion", e)
                         EXCEPT !.current = Conf(e, {1, 2, 3}),
                                !.previous = Conf(e - 1, {1, 2, 3})]
Lossy(id, rev, e) == [Promote(id, rev, e) EXCEPT !.loss = TRUE]
Swap(id, rev, e) == [I(id, "PlannedSwap", rev, "Swap", e)
                      EXCEPT !.role = "ActiveSecondary", !.current = Conf(e, {1, 2, 3}),
                             !.previous = Conf(e - 1, {1, 2, 3})]
Build(id, rev, t) == [I(id, "Build", rev, "Build", 0) EXCEPT !.target = t, !.attempt = id]
Remove(id, rev, t, a) == [I(id, "Remove", rev, "Remove", 0) EXCEPT !.target = t, !.attempt = a]
Close(id, rev, s) == [I(id, "Close", rev, "Close", 0) EXCEPT !.session = s]
Abort(id, rev) == I(id, "Abort", rev, "Abort", 0)
Fault(id, kind, rev, s) == [I(id, kind, rev, None, 0) EXCEPT !.session = s]
Demote(id, rev, e) == [I(id, "Authority", rev, "Role", e) EXCEPT !.role = "ActiveSecondary"]
Configure(id, rev, program) == [I(id, "Authority", rev, program, 0)
                                 EXCEPT !.current = Conf(2, {1, 2, 3})]
World(intents, w, crash, store_, call, shut) ==
    [intents |-> intents, witness |-> w, crash |-> crash, store |-> store_, call |-> call,
     shut |-> shut, patient |-> FALSE, located |-> FALSE, unseen |-> FALSE, controlled |-> FALSE,
     persisted |-> TRUE, beside |-> FALSE, parent |-> 0, die |-> 0]
Locating(w, unseen) == [w EXCEPT !.located = TRUE, !.patient = TRUE, !.unseen = unseen]
Controlled(w, persisted, beside, parent, die) ==
    [w EXCEPT !.controlled = TRUE, !.persisted = persisted, !.beside = beside,
              !.parent = parent, !.die = die]

Transient == World({Fault(1, "TransientFault", 1, 1)}, FALSE, 0, 0, 0, 0)

MCWorlds == {
    \* The registry alone: two operations that supersede, join or follow each other.
    World({Initial(1, 1, 1), Promote(2, 2, 2)}, TRUE, 0, 0, 1, 0),
    World({Initial(1, 1, 1), Promote(2, 2, 2)}, FALSE, 1, 0, 0, 0),
    World({Initial(1, 1, 1), Swap(2, 2, 2)}, FALSE, 0, 1, 0, 0),
    World({Initial(1, 1, 1), Close(2, 1, 1)}, TRUE, 0, 0, 1, 0),
    World({Initial(1, 1, 1), Abort(2, 1)}, TRUE, 0, 0, 1, 0),
    World({Initial(1, 1, 1), Fault(2, "TransientFault", 2, 1)}, FALSE, 0, 0, 1, 0),
    World({Build(1, 1, 4), Remove(2, 1, 4, 1)}, FALSE, 0, 1, 1, 0),
    World({Lossy(1, 1, 2), Promote(2, 2, 3)}, FALSE, 0, 1, 1, 0),
    World({Demote(1, 1, 1), Configure(2, 2, "CatchUp")}, FALSE, 0, 0, 0, 1),
    \* The service location.
    Locating(World({Initial(1, 1, 1), Promote(2, 2, 2)}, FALSE, 0, 0, 0, 0), FALSE),
    Locating(World({Initial(1, 1, 1)}, FALSE, 1, 0, 0, 0), TRUE),
    \* The controller and the supervisors.
    Controlled(Transient, TRUE, TRUE, 0, 0),
    Controlled(Transient, TRUE, FALSE, 1, 0),
    Controlled(Transient, TRUE, FALSE, 0, 1),
    Controlled(Transient, FALSE, FALSE, 0, 0),
    Controlled(World({Fault(1, "TransientFault", 1, 1), Fault(2, "TransientFault", 2, 2)},
                     FALSE, 0, 0, 0, 0), TRUE, FALSE, 0, 0) }
=============================================================================
