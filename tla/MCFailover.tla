----------------------------- MODULE MCFailover -----------------------------
(***************************************************************************)
(* Small instances of Failover: three replicas, numbered as their ids.     *)
(***************************************************************************)
EXTENDS Failover

MCIdentity == 1..3

=============================================================================
