--------------------------- MODULE MCReplacement ---------------------------
EXTENDS Replacement

World(size, fresh, writes, lose, wait, faulty, hide, crash, late, fair) ==
    [size |-> size, fresh |-> fresh, writes |-> writes, lose |-> lose, wait |-> wait,
     faulty |-> faulty, hide |-> hide, crash |-> crash, late |-> late, fair |-> fair]

\* Genesis with its primary and a secondary lost on the way, or with a controller that
\* restarts; a secondary lost twice, with a restart; a faulty secondary with a write, or while
\* the primary is out of sight; a secondary lost while the primary, or another
\* secondary, is out of sight; two of five lost; delayed and duplicated commands.
MCWorlds == {
    World(3, TRUE, 0, (1 :> 1) @@ (2 :> 1), TRUE, {}, {}, FALSE, FALSE, TRUE),
    World(3, TRUE, 0, (2 :> 1), TRUE, {}, {}, TRUE, FALSE, TRUE),
    World(3, FALSE, 1, (3 :> 1), TRUE, {}, {2}, FALSE, FALSE, TRUE),
    World(3, FALSE, 0, (3 :> 2), TRUE, {}, {}, TRUE, FALSE, TRUE),
    World(3, FALSE, 1, <<>>, TRUE, {3}, {}, FALSE, FALSE, TRUE),
    World(3, FALSE, 0, <<>>, TRUE, {3}, {1}, FALSE, FALSE, TRUE),
    World(3, FALSE, 0, (3 :> 1), TRUE, {}, {1}, FALSE, FALSE, TRUE),
    World(3, FALSE, 0, (3 :> 2), TRUE, {}, {2}, FALSE, FALSE, TRUE),
    World(5, FALSE, 0, (4 :> 1) @@ (5 :> 1), TRUE, {}, {}, FALSE, FALSE, TRUE),
    World(3, FALSE, 1, (3 :> 2), TRUE, {}, {}, FALSE, TRUE, FALSE) }

=============================================================================
