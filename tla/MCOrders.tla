------------------------------ MODULE MCOrders ------------------------------
(***************************************************************************)
(* Two regions, a plan of an ordinary tier pinned to one of them and a     *)
(* waitlist plan sold in both, one OS template and an alias of it, and     *)
(* three environments: OpenStack in one region with an explicit flavor     *)
(* and only the canonical image; OpenStack in both regions with a default  *)
(* flavor beside the waitlist plan's; VirtFusion only.                     *)
(***************************************************************************)
EXTENDS Orders

CONSTANTS ru, nl, prosto, hustle, debian, alias

MCPlanRegion == [p \in Plans |-> IF p = prosto THEN ru ELSE None]
MCPlanTier == [p \in Plans |-> p]
MCCanonical == [t \in Templates |-> debian]

Env1 == [openstack |-> TRUE, osRegions |-> {ru}, vfRegions |-> {nl},
         planMap |-> {prosto}, defaultFlavor |-> FALSE, images |-> {debian},
         packages |-> {hustle}, vfImages |-> {debian}]
Env2 == [openstack |-> TRUE, osRegions |-> {ru, nl}, vfRegions |-> {},
         planMap |-> {}, defaultFlavor |-> TRUE, images |-> {alias},
         packages |-> {}, vfImages |-> {}]
Env3 == [openstack |-> FALSE, osRegions |-> {ru}, vfRegions |-> {},
         planMap |-> {}, defaultFlavor |-> FALSE, images |-> {},
         packages |-> {prosto}, vfImages |-> {debian, alias}]
Env4 == [openstack |-> TRUE, osRegions |-> {nl}, vfRegions |-> {ru},
         planMap |-> {}, defaultFlavor |-> FALSE, images |-> {debian, alias},
         packages |-> {}, vfImages |-> {debian}]
MCEnvs == {Env1, Env2, Env3, Env4}
=============================================================================
