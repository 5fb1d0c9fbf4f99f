------------------------- MODULE MCDurableExecution -------------------------
EXTENDS DurableExecution

CONSTANTS h1, h2

MCHost == {h1, h2}

World(steps, strict, attempts, faults, n, fair) ==
    [steps |-> steps, strict |-> strict, attempts |-> attempts, faults |-> faults,
     budget |-> n, fair |-> fair]

\* A strict effect followed by an ordinary activity with a single attempt; an ordinary
\* activity that is retried, waits and loses its host; a strict effect redelivered.
MCWorlds == {
    World(2, {1}, 1, {"crash", "unknown"}, 1, TRUE),
    World(1, {}, 2, {"crash", "unknown", "wait"}, 2, TRUE),
    World(1, {1}, 1, {"crash", "unknown"}, 2, TRUE) }
=============================================================================
