--------------------------- MODULE MCHostAccess ---------------------------
EXTENDS HostAccess

CONSTANTS p, q

World(granted, first, next, preserve, describe, register, expire, fault, fair) ==
    [granted |-> granted, first |-> first, next |-> next, preserve |-> preserve,
     describe |-> describe, register |-> register, expire |-> expire, fault |-> fault,
     behind |-> ~granted /\ next = None, fair |-> fair]

\* Access granted and lost through peers that restart, with a recovery that runs into
\* its deadline; grants beside registrations; supersession of a grant, of a build and
\* of nothing by a new authority; a scale-up that keeps access; a reported fault.
MCWorlds == {
    World(TRUE, <<>>, None, FALSE, {p, q}, {}, TRUE, FALSE, TRUE),
    World(TRUE, <<>>, None, FALSE, {p}, {q}, TRUE, FALSE, TRUE),
    World(FALSE, <<"Granted">>, None, FALSE, {}, {p, q}, FALSE, FALSE, TRUE),
    World(FALSE, <<"Granted">>, <<"admit", "Granted">>, FALSE, {}, {p}, FALSE, FALSE, TRUE),
    World(TRUE, <<"build">>, <<"admit", "Granted">>, FALSE, {}, {}, FALSE, FALSE, TRUE),
    World(TRUE, <<"Pending">>, <<"admit", "Granted">>, FALSE, {}, {}, FALSE, FALSE, TRUE),
    World(TRUE, <<>>, <<"admit", "Granted">>, FALSE, {p}, {}, FALSE, FALSE, TRUE),
    World(TRUE, <<"admit">>, None, TRUE, {}, {p}, FALSE, FALSE, TRUE),
    World(FALSE, <<"Granted">>, None, FALSE, {p}, {}, FALSE, TRUE, FALSE) }
=============================================================================
