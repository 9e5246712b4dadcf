--------------------------- MODULE MCInstanceSync ---------------------------
(* Instances of InstanceSync for TLC.                                      *)
EXTENDS InstanceSync, TLC

CONSTANTS i1, i2, h1, h2

Symmetry == Permutations(Instances) \cup Permutations(Requests)
=============================================================================
