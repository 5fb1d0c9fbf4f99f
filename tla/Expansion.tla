----------------------------- MODULE Expansion -----------------------------
(***************************************************************************)
(* A whole scale-up: the attempts to get a candidate (module Allocation)   *)
(* and, once one is admitted, the transition to the expanded configuration *)
(* (module ScaleUp).                                                       *)
(*                                                                         *)
(* Sources: kuberic-controller/src/evaluator.rs, evaluate, which           *)
(* goes by the accepted status: up to the recorded admission it serves the *)
(* allocation, from then on the transition, and never goes back.           *)
(***************************************************************************)
EXTENDS ScaleUp

VARIABLES
    plan,        \* what happens to the attempts: a world of Allocation
    wanted, generation, attempt, uids, pvc, pod, endpoint, candidate, source, build,
    read, creating

Attempts == INSTANCE Allocation WITH
    Worlds <- {w.attempts : w \in Worlds}, world <- plan, status <- attempt,
    agent <- candidate, view <- read

attempts == <<plan, wanted, generation, attempt, uids, pvc, pod, endpoint, candidate, source,
              build, read, creating>>

Admitted == attempt.phase = "admitted"

ExpansionInit == Init /\ plan = world.attempts /\ Attempts!Init

ExpansionNext ==
    \/ ~Admitted /\ Attempts!Next /\ UNCHANGED vars
    \/ Admitted /\ Next /\ UNCHANGED attempts

ExpansionSpec == ExpansionInit /\ [][ExpansionNext]_<<vars, attempts>>

Allocates(step) == ~Admitted /\ world.fair /\ step /\ UNCHANGED vars
Expands(step) == Admitted /\ world.fair /\ step /\ UNCHANGED attempts

(***************************************************************************)
(* Fairness: the controller is requeued and reads its reports, agents and  *)
(* the kubelet run what they were told, agents replicate, and who may come *)
(* back does.                                                              *)
(***************************************************************************)
FairExpansionSpec ==
    /\ ExpansionSpec
    /\ WF_<<vars, attempts>>(Allocates(Attempts!ObservePod))
    /\ WF_<<vars, attempts>>(Allocates(Attempts!ObserveRest))
    /\ WF_<<vars, attempts>>(Allocates(Attempts!Decide))
    /\ WF_<<vars, attempts>>(Allocates(Attempts!CreatePod))
    /\ WF_<<vars, attempts>>(Allocates(Attempts!Copy))
    /\ WF_<<vars, attempts>>(Allocates(Attempts!Settle))
    /\ WF_<<vars, attempts>>(Allocates(Attempts!PodStops))
    /\ WF_<<vars, attempts>>(Allocates(Attempts!Vacate))
    /\ WF_<<vars, attempts>>(Allocates(Attempts!SourceRecovers))
    /\ WF_<<vars, attempts>>(Expands(Decide))
    /\ WF_<<vars, attempts>>(Expands(\E r \in Current : Observe(r)))
    /\ WF_<<vars, attempts>>(Expands(\E c \in net : Deliver(c)))
    /\ WF_<<vars, attempts>>(Expands(\E r \in Current : Finish(r)))
    /\ WF_<<vars, attempts>>(Expands(\E r \in Current : Replicate(r)))
    /\ WF_<<vars, attempts>>(Expands(\E r \in Current : RegainContact(r)))

(***************************************************************************)
(* Properties.                                                             *)
(***************************************************************************)

\* A scale-up ends.  Either the expanded topology is accepted, with the failed
\* primary replaced if it did not come back in time, the Service is routed to a
\* primary that writes, and every member the controller sees, the returned ones
\* included, stands on the accepted configuration; or the user no longer wants it,
\* and nothing of any attempt is left (scale_up.rs:712, 3601).
ExpansionEnds == world.fair => <>[]((Admitted /\ Done) \/ Attempts!NothingRemains)
=============================================================================
