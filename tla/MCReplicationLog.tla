--------------------------- MODULE MCReplicationLog ---------------------------
(***************************************************************************)
(* Small instances of ReplicationLog.  r1 is the replica under test.       *)
(***************************************************************************)
EXTENDS ReplicationLog

CONSTANTS r1, r2, r3

MCIdentity == {r1, r2, r3}

Plain(previous, current) ==
    [previous |-> previous, current |-> current, handoff |-> None, scale_up |-> None]

(* A failover that makes r1 primary: secondary of r2, joint, current only.  *)
Before == Configuration(1, r2, {r1, r2, r3})
After  == Configuration(2, r1, {r1, r2, r3})
FailoverAuthorities ==
    {Plain(None, Before), Plain(Before, After), Plain(None, After)}

(* A scale-up by primary r1 from {r1, r2} to {r1, r2, r3}.                  *)
Small == Configuration(1, r1, {r1, r2})
Large == Configuration(2, r1, {r1, r2, r3})
Growing(previous) ==
    [previous |-> previous, current |-> Large, handoff |-> None,
     scale_up |-> [target |-> r3, boundary |-> 1]]
ScaleUpAuthorities == {Plain(None, Small), Growing(Small), Growing(None)}

(* A behaviour goes through one of the two; peers restart in the first.     *)
VARIABLE scenario

MCAdmissible == FailoverAuthorities \cup ScaleUpAuthorities

FailoverFences == {Fence(a) : a \in FailoverAuthorities}
ScaleUpFences == {Fence(a) : a \in ScaleUpAuthorities}

Scenario(authorities, foreign) ==
    /\ authority = None \/ authority \in authorities
    /\ durable_authority = None \/ durable_authority \in authorities
    /\ \A f \in foreign, i \in Peers : \A s \in 1..peer_session[i] : verified_in[i][s][f] = 0

InScenario ==
    CASE scenario = "failover" ->
            Scenario(FailoverAuthorities, ScaleUpFences) /\ \A i \in Peers : built[i] = 0
      [] scenario = "scale-up" ->
            Scenario(ScaleUpAuthorities, FailoverFences) /\ \A i \in Peers : peer_session[i] = 1

MCInit == scenario \in {"failover", "scale-up"} /\ Init /\ InScenario

MCNext == Next /\ UNCHANGED scenario /\ InScenario'

MCSpec == MCInit /\ [][MCNext]_<<vars, scenario>>

=============================================================================
