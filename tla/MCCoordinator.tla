--------------------------- MODULE MCCoordinator ---------------------------
EXTENDS Coordinator

CONSTANT b1

Conf(e, r) == [epoch |-> e, role |-> r]
Cmd(id, after, kind, prev, cur, only, write, retire) ==
    [id |-> id, after |-> after, kind |-> kind, prev |-> prev, cur |-> cur, only |-> only,
     write |-> write, safe |-> kind = "Failover", retire |-> retire]

A1 == Conf(1, "ActiveSecondary")
P1 == Conf(1, "Primary")
P2 == Conf(2, "Primary")
A3 == Conf(3, "ActiveSecondary")

Secondary == [prev |-> None, cur |-> A1, kind |-> None, role |-> "ActiveSecondary",
              read |-> "Granted", write |-> "NotPrimary"]
Primary == [prev |-> None, cur |-> P1, kind |-> None, role |-> "Primary",
            read |-> "Granted", write |-> "Granted"]

Granted == [prev |-> A1, cur |-> P2, kind |-> "Failover", role |-> "Primary",
            read |-> "Granted", write |-> "Granted"]

Promote == Cmd("promote", None, "Failover", A1, P2, FALSE, "Pending", {})
GrantWrite == Cmd("grant", "promote", "Failover", A1, P2, FALSE, "Granted", {})
Settle == Cmd("settle", None, "Failover", None, P2, TRUE, "Granted", {})
Depose == Cmd("depose", None, "Failover", A1, A3, FALSE, "Pending", {})
Replace == Cmd("replace", None, "Replacement", P1, P2, FALSE, "Granted", {})
Replaced == Cmd("replaced", "replace", "Replacement", None, P2, TRUE, "Granted", {b1})
Demote == Cmd("demote", None, "Failover", P1, A3, FALSE, "Pending", {})

World(start, commands, builds, crash, fail, first, goal, retry) ==
    [start |-> start, commands |-> commands, builds |-> builds, crashes |-> crash,
     failures |-> fail, first |-> first, goal |-> goal, retry |-> retry]

\* Supersession, promotion and write grant, builds and replacement, a deposed
\* primary, each with a crash; then the situations in which the controller keeps
\* sending its commands until the goal is finished.
MCWorlds == {
    World(Secondary, {Promote, Depose}, {}, 1, 0, Depose, Depose, FALSE),
    World(Secondary, {Promote, GrantWrite, Settle}, {}, 1, 0, Settle, Settle, FALSE),
    World(Primary, {Replace, Replaced}, {b1}, 1, 0, Replace, Replaced, FALSE),
    World(Primary, {Replace, Demote}, {}, 1, 0, Demote, Demote, FALSE),
    World(Secondary, {Promote, GrantWrite}, {}, 0, 2, Promote, GrantWrite, TRUE),
    World(Primary, {Replace, Replaced}, {b1}, 0, 1, Replace, Replaced, TRUE),
    World(Secondary, {Promote}, {}, 1, 0, Promote, Promote, TRUE),
    World(Secondary, {Depose}, {}, 1, 0, Depose, Depose, TRUE),
    World(Granted, {Settle}, {}, 0, 1, Settle, Settle, TRUE) }

=============================================================================
