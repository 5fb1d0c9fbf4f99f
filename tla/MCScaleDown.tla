---------------------------- MODULE MCScaleDown ----------------------------
EXTENDS ScaleDown

World(members, desired, writes, restarts, faults, fair) ==
    [members |-> members, desired |-> desired, writes |-> writes, restarts |-> restarts,
     faults |-> faults, fair |-> fair]

\* Two removals in a row, removals with a quorum to spare, and each disturbance.
MCWorlds == {
    World({1, 2, 3}, 1, 1, {}, {}, TRUE),
    World({1, 2, 3, 4}, 3, 0, {}, {"mute"}, TRUE),
    World({1, 2, 3}, 2, 1, {}, {"late"}, FALSE),
    World({1, 2, 3}, 2, 1, {}, {"cut"}, TRUE),
    World({1, 2, 3}, 2, 0, {}, {"silent"}, TRUE),
    World({1, 2, 3}, 2, 1, {}, {"lost", "occupant"}, TRUE),
    World({1, 2, 3}, 2, 0, {1}, {}, TRUE),
    World({1, 2, 3}, 2, 0, {2}, {}, TRUE),
    World({1, 2, 3}, 2, 1, {1}, {}, FALSE),
    World({1, 2, 3}, 2, 1, {2}, {}, FALSE) }
=============================================================================
