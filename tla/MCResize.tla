------------------------------ MODULE MCResize ------------------------------
(* Instances of Resize for TLC: a plan for each flavor and one without.    *)
EXTENDS Resize, TLC

CONSTANTS c1, c2, small, large, huge

MCFlavorFor == small :> small @@ large :> large @@ huge :> None

=============================================================================
