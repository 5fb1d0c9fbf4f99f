---------------------------- MODULE MCExpansion ----------------------------
EXTENDS Expansion

Attempting(changes, faults) == [changes |-> changes, faults |-> faults]

World(size, behind, writes, lose, regain, restarts, failure, late, fair) ==
    [size |-> size, behind |-> behind, writes |-> writes, lose |-> lose, regain |-> regain,
     restarts |-> restarts, failure |-> failure, late |-> late, fair |-> fair,
     attempts |-> Attempting(0, {})]

\* An undisturbed attempt; then two and three members, the primary is lost at any
\* point and comes back or not, a secondary is lost and restarts; then the same with
\* a write and with delayed and duplicated commands, for safety.
Transitions == {
    World(2, {}, 0, {1}, {1}, {}, TRUE, FALSE, TRUE),
    World(3, {}, 0, {}, {}, {}, FALSE, FALSE, TRUE),
    World(2, {}, 0, {2}, {2}, {2}, FALSE, FALSE, TRUE),
    World(2, {}, 1, {1}, {1}, {}, FALSE, TRUE, FALSE),
    World(3, {}, 1, {1}, {}, {}, FALSE, FALSE, FALSE) }

\* Disturbed attempts; then two members grow to three undisturbed.
Disturbed == {[World(2, {}, 0, {}, {}, {}, FALSE, FALSE, TRUE) EXCEPT !.attempts = a] : a \in {
    Attempting(2, {"crash", "restart"}),
    Attempting(2, {"pvc taken", "pod taken"}),
    Attempting(1, {"pvc lost", "pod lost", "pvc taken"}),
    Attempting(1, {"pvc lost", "pod taken", "silent"}),
    Attempting(1, {"failed", "aborted", "busy"}),
    Attempting(1, {"pod lost", "aborted", "silent"})}}

MCWorlds == Transitions \cup Disturbed
=============================================================================
