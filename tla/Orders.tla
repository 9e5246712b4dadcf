------------------------------- MODULE Orders -------------------------------
(***************************************************************************)
(* An order from the storefront to the cloud: what handler.go shows, what  *)
(* CreateOrder checks before it takes the money, and where the worker's    *)
(* hvinit router then sends the calls for the server.                      *)
(*                                                                         *)
(* The API and the worker are two processes; each reads its own            *)
(* environment (openstack.LoadConfig, hypervisor.LoadConfig), so they may  *)
(* disagree, and a restart may change either.  The admin's tables (region  *)
(* and tier lines, regions, OS templates) live in the database and may     *)
(* change between any two reads of one request.  No order changes them or  *)
(* the environments, so orders do not interact and one request at a time   *)
(* stands for all.  Mock mode and a missing database are left out.         *)
(***************************************************************************)
EXTENDS Naturals

CONSTANTS
  Regions, Tiers, Plans, Templates,
  PlanRegion,      \* the region a plan is pinned to, or None
  PlanTier,        \* the tier of a plan
  WaitlistTiers,   \* tiers for which an order may wait for capacity
  Canonical,       \* catalog.ResolveCatalogOSID: the id an alias stands for
  Envs,            \* the environments a process may be started with
  DefaultKey,      \* the "default" entry of OPENSTACK_PLAN_MAP
  None,
  MaxAdmin,        \* bound: changes the admin makes
  MaxRestarts,     \* bound: restarts of the API or the worker
  MaxFaults        \* bound: database reads of CreateOrder that fail

ASSUME CatalogAssumption ==
  /\ PlanRegion \in [Plans -> Regions \cup {None}]
  /\ PlanTier \in [Plans -> Tiers]
  /\ WaitlistTiers \subseteq Tiers
  /\ Canonical \in [Templates -> Templates]
  /\ None \notin Regions \cup Plans \cup Templates \cup Envs
  /\ DefaultKey \notin Plans

ASSUME EnvAssumption ==
  Envs \subseteq [openstack: BOOLEAN, osRegions: SUBSET Regions, vfRegions: SUBSET Regions,
                  planMap: SUBSET (Plans \cup {DefaultKey}), defaultFlavor: BOOLEAN,
                  images: SUBSET Templates, packages: SUBSET Plans, vfImages: SUBSET Templates]

ASSUME BoundAssumption ==
  MaxAdmin \in Nat /\ MaxRestarts \in Nat /\ MaxFaults \in Nat

VARIABLES
  api, worker,     \* the environment each process was started with
  lines,           \* region_tiers rows the admin has enabled
  open,            \* regions that are enabled and available
  active,          \* active OS templates
  order,           \* the request, and the order it becomes
  shut,            \* what has been off the market ever since the request came
  admin, restarts, faults

dbVars == <<lines, open, active>>
budget == <<admin, restarts, faults>>
vars == <<api, worker, lines, open, active, order, shut, admin, restarts, faults>>

-----------------------------------------------------------------------------
\* Configuration, as each process reads it.

RegionUsesOpenStack(e, r) == e.openstack /\ r \in e.osRegions

RegionEnabled(e, r) ==
  \/ RegionUsesOpenStack(e, r)
  \/ IF e.vfRegions = {} THEN ~e.openstack ELSE r \in e.vfRegions

PlanFlavors(e) == IF e.planMap = {} /\ e.defaultFlavor THEN {DefaultKey} ELSE e.planMap

HasExplicitFlavor(e, p) == p \in PlanFlavors(e)

FlavorRef(e, p) == {p, DefaultKey} \cap PlanFlavors(e) # {}

ImageRef(e, t) == {t, Canonical[t]} \cap e.images # {}

-----------------------------------------------------------------------------
\* Routing.

ByRegion(e, r) == IF RegionUsesOpenStack(e, r) THEN "openstack" ELSE "virtfusion"

\* The IDs the clouds give their servers: Nova's are UUIDs, VirtFusion's numbers.
ServerID(cloud) == IF cloud = "openstack" THEN "uuid" ELSE "numeric"

LooksLikeOpenStackServerID(id) == id = "uuid"

\* Mutant of ByServerID: every call goes to OpenStack once it is configured.
ByServerID_AnyShape(e, id) == IF e.openstack THEN "openstack" ELSE "virtfusion"

ByServerID(e, id) == IF LooksLikeOpenStackServerID(id) /\ e.openstack
                     THEN "openstack" ELSE "virtfusion"

-----------------------------------------------------------------------------
\* What the storefront shows.

PlanAvailable(p) == lines = {} \/ <<PlanRegion[p], PlanTier[p]>> \in lines

ActiveOSTemplates == IF active = {} THEN api.vfImages ELSE active

ShownTemplates(r) ==
  IF RegionUsesOpenStack(api, r) THEN {t \in ActiveOSTemplates : ImageRef(api, t)}
                                 ELSE ActiveOSTemplates

\* What CreateOrder accepts.

\* Mutant of OSTemplateAvailable: the table alone decides, in OpenStack regions too.
OSTemplateAvailable_TableOnly(r, t) == t \in active

\* Mutant of OSTemplateAvailable: an alias of a mapped template is not found.
OSTemplateAvailable_NoAlias(r, t) ==
  IF RegionUsesOpenStack(api, r) THEN t \in api.images ELSE t \in active

OSTemplateAvailable(r, t) ==
  IF RegionUsesOpenStack(api, r) THEN ImageRef(api, t) ELSE t \in active

PlanMapped(r, p) ==
  \/ PlanTier[p] \in WaitlistTiers
  \/ /\ RegionUsesOpenStack(api, r)
     /\ PlanFlavors(api) = {} \/ HasExplicitFlavor(api, p)
  \/ /\ ~RegionUsesOpenStack(api, r)
     /\ api.packages = {} \/ p \in api.packages

Sellable(r, p) ==
  /\ RegionEnabled(api, r)
  /\ PlanRegion[p] \in {None, r}
  /\ PlanMapped(r, p)

-----------------------------------------------------------------------------
Checking == {"tier", "region", "template", "create"}   \* inside CreateOrder

NoOrder == [pc |-> "refused", region |-> None, plan |-> None, os |-> None, blind |-> FALSE,
            gate |-> None, used |-> None, cloud |-> "none", failed |-> "none",
            missed |-> None]

Line(o) == <<o.region, PlanTier[o.plan]>>

\* The parts of request o that are off the market, given the admin's tables.
OffMarket(o, ls, rs, ts) ==
  {x \in {"line", "region", "template"} :
     \/ x = "line" /\ Line(o) \notin ls
     \/ x = "region" /\ o.region \notin rs
     \/ x = "template" /\ o.os \notin ts}

Init ==
  /\ api \in Envs /\ worker \in Envs
  /\ lines = Regions \X Tiers /\ open = Regions /\ active = Templates
  /\ order = NoOrder /\ shut = {}
  /\ admin = 0 /\ restarts = 0 /\ faults = 0

-----------------------------------------------------------------------------
\* CreateOrder: the checks that read no table, then one database call a step.

Receive(r, p, t) ==
  /\ order.pc \in {"refused", "ready"}
  /\ LET o == [NoOrder EXCEPT !.region = r, !.plan = p, !.os = t, !.gate = api,
                              !.pc = IF Sellable(r, p) THEN "tier" ELSE "refused"]
     IN  order' = o /\ shut' = OffMarket(o, lines, open, active)
  /\ UNCHANGED <<api, worker, dbVars, budget>>

Goto(pc) == order' = [order EXCEPT !.pc = pc] /\ UNCHANGED shut

CheckTier ==
  /\ order.pc = "tier"
  /\ Goto(IF Line(order) \in lines THEN "region" ELSE "refused")
  /\ UNCHANGED <<api, worker, dbVars, budget>>

CheckRegion ==
  /\ order.pc = "region"
  /\ Goto(IF order.region \in open THEN "template" ELSE "refused")
  /\ UNCHANGED <<api, worker, dbVars, budget>>

\* A region list that cannot be read does not stop the order.
CheckRegionBlind ==
  /\ order.pc = "region" /\ faults < MaxFaults
  /\ faults' = faults + 1
  /\ order' = [order EXCEPT !.pc = "template", !.blind = TRUE]
  /\ UNCHANGED <<api, worker, dbVars, shut, admin, restarts>>

CheckTemplate ==
  /\ order.pc = "template"
  /\ Goto(IF OSTemplateAvailable(order.region, order.os) THEN "create" ELSE "refused")
  /\ UNCHANGED <<api, worker, dbVars, budget>>

\* Mutant of CheckFails: a tier read that fails lets the order pass, like the region's.
CheckFails_Pass ==
  /\ faults < MaxFaults
  /\ order.pc = "tier"
  /\ faults' = faults + 1
  /\ Goto("region")
  /\ UNCHANGED <<api, worker, dbVars, admin, restarts>>

\* A tier or template read that fails refuses the order.
CheckFails ==
  /\ faults < MaxFaults
  /\ \/ order.pc = "tier"
     \/ order.pc = "template" /\ ~RegionUsesOpenStack(api, order.region)
  /\ faults' = faults + 1
  /\ Goto("refused")
  /\ UNCHANGED <<api, worker, dbVars, admin, restarts>>

\* CreateOrderWithBilling takes the money and queues the job ...
Accept ==
  /\ order.pc = "create"
  /\ Goto("accepted")
  /\ UNCHANGED <<api, worker, dbVars, budget>>

\* ... or the software, hostname or password check, the billing or the
\* placement refuses the order.
RefuseOther ==
  /\ order.pc = "create"
  /\ Goto("refused")
  /\ UNCHANGED <<api, worker, dbVars, budget>>

-----------------------------------------------------------------------------
\* The worker's provisioning job; a step that fails is tried again.

Allocated(cloud) ==
  order' = [order EXCEPT !.pc = "allocated", !.used = worker, !.cloud = cloud, !.failed = "none"]

AllocateFailed(why) == order' = [order EXCEPT !.used = worker, !.failed = why]

Allocate ==
  /\ order.pc = "accepted"
  /\ \/ ByRegion(worker, order.region) = "virtfusion" /\ Allocated("virtfusion")
     \/ /\ ByRegion(worker, order.region) = "openstack"
        /\ \/ ~FlavorRef(worker, order.plan) /\ AllocateFailed("flavor")
           \/ FlavorRef(worker, order.plan) /\ ~ImageRef(worker, order.os) /\ AllocateFailed("image")
           \/ FlavorRef(worker, order.plan) /\ ImageRef(worker, order.os) /\ Allocated("openstack")
  /\ UNCHANGED <<api, worker, dbVars, shut, budget>>

\* BuildServer goes where the region points now, whatever made the server.
Build ==
  /\ order.pc = "allocated"
  /\ order' = IF ByRegion(worker, order.region) = order.cloud
              THEN [order EXCEPT !.pc = "ready", !.failed = "none"]
              ELSE [order EXCEPT !.failed = "build"]
  /\ UNCHANGED <<api, worker, dbVars, shut, budget>>

\* A later call for the server, of the sync pass (GetServer) or of a power request,
\* is routed by its ID alone; the other cloud does not know the server.
Reach ==
  /\ order.pc \in {"allocated", "ready"}
  /\ \E e \in {api, worker} :
       order' = [order EXCEPT !.missed = IF ByServerID(e, ServerID(order.cloud)) = order.cloud
                                         THEN None ELSE e]
  /\ UNCHANGED <<api, worker, dbVars, shut, budget>>

-----------------------------------------------------------------------------
\* The admin, and restarts with another environment.

Toggle(S, x) == (S \ {x}) \cup ({x} \ S)

AdminChange ==
  /\ admin < MaxAdmin
  /\ \/ \E l \in Regions \X Tiers : lines' = Toggle(lines, l) /\ UNCHANGED <<open, active>>
     \/ \E r \in Regions : open' = Toggle(open, r) /\ UNCHANGED <<lines, active>>
     \/ \E t \in Templates : active' = Toggle(active, t) /\ UNCHANGED <<lines, open>>
  /\ shut' = IF order.pc \in Checking THEN shut \cap OffMarket(order, lines', open', active')
                                      ELSE shut
  /\ admin' = admin + 1
  /\ UNCHANGED <<api, worker, order, restarts, faults>>

\* A restart of the API drops the request it is serving.
RestartApi ==
  /\ restarts < MaxRestarts
  /\ api' \in Envs \ {api}
  /\ Goto(IF order.pc \in Checking THEN "refused" ELSE order.pc)
  /\ restarts' = restarts + 1
  /\ UNCHANGED <<worker, dbVars, admin, faults>>

RestartWorker ==
  /\ restarts < MaxRestarts
  /\ worker' \in Envs \ {worker}
  /\ restarts' = restarts + 1
  /\ UNCHANGED <<api, dbVars, order, shut, admin, faults>>

Next ==
  \/ \E r \in Regions, p \in Plans, t \in Templates : Receive(r, p, t)
  \/ CheckTier \/ CheckRegion \/ CheckRegionBlind \/ CheckTemplate \/ CheckFails
  \/ Accept \/ RefuseOther
  \/ Allocate \/ Build \/ Reach
  \/ AdminChange \/ RestartApi \/ RestartWorker

Spec == Init /\ [][Next]_vars

-----------------------------------------------------------------------------
\* missed: the environment in which the last call for the server went to the wrong
\* cloud, or None.
OrderType ==
  [pc: Checking \cup {"refused", "accepted", "allocated", "ready"},
   region: Regions \cup {None}, plan: Plans \cup {None}, os: Templates \cup {None},
   blind: BOOLEAN, gate: Envs \cup {None}, used: Envs \cup {None},
   cloud: {"none", "openstack", "virtfusion"},
   failed: {"none", "flavor", "image", "build"}, missed: Envs \cup {None}]

TypeOK ==
  /\ api \in Envs /\ worker \in Envs
  /\ lines \subseteq Regions \X Tiers /\ open \subseteq Regions /\ active \subseteq Templates
  /\ order \in OrderType
  /\ shut \subseteq {"line", "region", "template"}
  /\ admin \in 0..MaxAdmin /\ restarts \in 0..MaxRestarts /\ faults \in 0..MaxFaults

Paid == order.pc \in {"accepted", "allocated", "ready"}

\* A paid order fails at the cloud only when the worker's environment is not
\* the one CreateOrder checked it against, and its build goes to the wrong cloud
\* only after a restart.  Two kinds of order are let through without a flavor:
\* those of a waitlist tier, and every order while no flavor at all is mapped.
FailsOnlyByDrift ==
  /\ order.failed = "image" => order.gate # order.used
  /\ order.failed = "flavor" =>
       \/ order.gate # order.used
       \/ PlanTier[order.plan] \in WaitlistTiers
       \/ PlanFlavors(order.gate) = {}
  /\ order.failed = "build" => restarts > 0

\* No change of the regions, in either process, loses a server: a call for it goes
\* to the wrong cloud only for a server that the worker made in OpenStack and in a
\* process that has OpenStack no more (router.go:25-30, regions.go:52-60).
MissedOnlyUnconfigured ==
  order.missed # None =>
    order.cloud = "openstack" /\ order.used.openstack /\ ~order.missed.openstack

\* Nothing that was off the market all the time a request was served is sold,
\* although the checks are separate reads: a disabled line never, a closed
\* region only when the region list could not be read, an inactive template
\* only in a region of OpenStack, which asks its image map instead.
ShutIsRefused ==
  Paid =>
    /\ "line" \notin shut
    /\ "region" \in shut => order.blind
    /\ "template" \in shut => RegionUsesOpenStack(order.gate, order.region)

\* Every template the storefront shows for a region is one CreateOrder accepts
\* there.  The exception is the fallback list a VirtFusion region shows while no
\* template is active: CreateOrder refuses all of it.
ShownIsAccepted ==
  \A r \in Regions :
    \A t \in ShownTemplates(r) :
      \/ OSTemplateAvailable(r, t)
      \/ active = {} /\ ~RegionUsesOpenStack(api, r)

-----------------------------------------------------------------------------
\* The inductive invariant: what each check leaves behind for the later steps.

\* A request under way names its parts, and the API still runs with the
\* environment it was checked against.
NamedInv ==
  order.pc # "refused" =>
    /\ order.region \in Regions /\ order.plan \in Plans /\ order.os \in Templates
    /\ order.gate \in Envs
    /\ order.pc \in Checking => order.gate = api

\* What CreateOrder has found out about the environment.
GateInv ==
  /\ order.pc # "refused" /\ RegionUsesOpenStack(order.gate, order.region) =>
       \/ PlanTier[order.plan] \in WaitlistTiers
       \/ PlanFlavors(order.gate) = {}
       \/ HasExplicitFlavor(order.gate, order.plan)
  /\ (order.pc = "create" \/ Paid) /\ RegionUsesOpenStack(order.gate, order.region) =>
       ImageRef(order.gate, order.os)

\* What CreateOrder has found out about the admin's tables.
ShutInv ==
  /\ order.pc \in Checking => shut \subseteq OffMarket(order, lines, open, active)
  /\ order.pc \in {"region", "template", "create"} \/ Paid => "line" \notin shut
  /\ order.pc \in {"template", "create"} \/ Paid => ("region" \in shut => order.blind)
  /\ order.pc = "create" \/ Paid =>
       ("template" \in shut => RegionUsesOpenStack(order.gate, order.region))

\* A server stands where the worker's environment pointed when it was made, and
\* until it is built that is the worker's environment still, unless there was a
\* restart.  An order without a server misses none.
MadeInv ==
  /\ order.pc \in {"allocated", "ready"} =>
       order.used \in Envs /\ order.cloud = ByRegion(order.used, order.region)
  /\ order.pc = "allocated" /\ restarts = 0 => order.used = worker
  /\ order.missed # None => /\ order.pc \in {"allocated", "ready"}
                            /\ order.cloud = "openstack" /\ ~order.missed.openstack

\* The inductive invariant of CreateOrder and the provisioning job: everything
\* the safety properties need to know of the steps before.
IInv == TypeOK /\ NamedInv /\ GateInv /\ ShutInv /\ MadeInv /\ FailsOnlyByDrift

\* handler.go:65: "available=false when admin disabled the region+tier line".
AvailableMeansEnabled ==
  \A p \in Plans :
    PlanRegion[p] # None /\ PlanAvailable(p) => <<PlanRegion[p], PlanTier[p]>> \in lines
=============================================================================
