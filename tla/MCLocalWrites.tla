--------------------------- MODULE MCLocalWrites ----------------------------
(***************************************************************************)
(* Small instances of LocalWrites.                                         *)
(***************************************************************************)
EXTENDS LocalWrites

CONSTANTS w1, w2, w3

MCWrite == {w1, w2, w3}
MCFaultSets == {{"crash", "drop", "depose"}, {"crash", "drop"}}

=============================================================================
