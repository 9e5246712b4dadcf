---------------------------- MODULE MCPlacement ----------------------------
(* Two nodes of one region, each with one place.                           *)
EXTENDS Placement, TLC

CONSTANTS n1, n2, ru, hustle

MCNodeRegion == [n \in Nodes |-> ru]
MCCapacity == [n \in Nodes |-> 1]
MCRank == n1 :> 1 @@ n2 :> 2
=============================================================================
