---------------------------- MODULE OrdersProofs ----------------------------
(***************************************************************************)
(* Proofs about Orders: the type invariant, the inductive invariant IInv,  *)
(* and the safety properties, for every catalog, every set of environments *)
(* and every number of restarts, failed reads and changes by the admin.    *)
(***************************************************************************)
EXTENDS Orders, TLAPS

\* The updates the actions make to the request keep it in OrderType: going on to
\* another step,
LEMMA GotoType ==
  ASSUME NEW o \in OrderType, NEW pc \in Checking \cup {"refused", "accepted"}
  PROVE  [o EXCEPT !.pc = pc] \in OrderType
BY DEF OrderType, Checking

\* passing the region check blindly,
LEMMA BlindType ==
  ASSUME NEW o \in OrderType
  PROVE  [o EXCEPT !.pc = "template", !.blind = TRUE] \in OrderType
BY DEF OrderType, Checking

\* a step of the job,
LEMMA JobType ==
  ASSUME NEW o \in OrderType
  PROVE  /\ \A pc \in {"allocated", "ready"} : [o EXCEPT !.pc = pc] \in OrderType
         /\ \A e \in Envs : [o EXCEPT !.used = e] \in OrderType
         /\ \A cloud \in {"openstack", "virtfusion"} : [o EXCEPT !.cloud = cloud] \in OrderType
         /\ \A why \in {"none", "flavor", "image", "build"} : [o EXCEPT !.failed = why] \in OrderType
<1>1. \A pc \in {"allocated", "ready"} : [o EXCEPT !.pc = pc] \in OrderType
  BY DEF OrderType
<1>2. \A e \in Envs : [o EXCEPT !.used = e] \in OrderType
  BY DEF OrderType
<1>3. \A cloud \in {"openstack", "virtfusion"} : [o EXCEPT !.cloud = cloud] \in OrderType
  BY DEF OrderType
<1>4. \A why \in {"none", "flavor", "image", "build"} : [o EXCEPT !.failed = why] \in OrderType
  BY DEF OrderType
<1> QED
  BY <1>1, <1>2, <1>3, <1>4

LEMMA AllocateType ==
  ASSUME NEW o \in OrderType, NEW e \in Envs
  PROVE  /\ \A cloud \in {"openstack", "virtfusion"} :
              [o EXCEPT !.pc = "allocated", !.used = e, !.cloud = cloud, !.failed = "none"] \in OrderType
         /\ \A why \in {"flavor", "image"} : [o EXCEPT !.used = e, !.failed = why] \in OrderType
<1> DEFINE o1 == [o EXCEPT !.pc = "allocated"]
           o2 == [o1 EXCEPT !.used = e]
           o3(cloud) == [o2 EXCEPT !.cloud = cloud]
<1>1. o1 \in OrderType
  BY JobType
<1> HIDE DEF o1
<1>2. o2 \in OrderType
  BY <1>1, JobType
<1> HIDE DEF o2
<1>3. \A cloud \in {"openstack", "virtfusion"} : o3(cloud) \in OrderType
  BY <1>2, JobType
<1> HIDE DEF o3
<1>4. \A cloud \in {"openstack", "virtfusion"} : [o3(cloud) EXCEPT !.failed = "none"] \in OrderType
  BY <1>3, JobType
<1>5. \A why \in {"flavor", "image"} : [[o EXCEPT !.used = e] EXCEPT !.failed = why] \in OrderType
  <2> DEFINE u == [o EXCEPT !.used = e]
  <2>1. u \in OrderType
    BY JobType
  <2> HIDE DEF u
  <2>2. \A why \in {"flavor", "image"} : [u EXCEPT !.failed = why] \in OrderType
    BY <2>1, JobType
  <2> QED
    BY <2>2 DEF u
<1> QED
  BY <1>4, <1>5, Zenon DEF o1, o2, o3

\* the end of a build,
LEMMA BuildType ==
  ASSUME NEW o \in OrderType
  PROVE  /\ [o EXCEPT !.pc = "ready", !.failed = "none"] \in OrderType
         /\ [o EXCEPT !.failed = "build"] \in OrderType
<1> DEFINE u == [o EXCEPT !.pc = "ready"]
<1>1. u \in OrderType
  BY JobType
<1> HIDE DEF u
<1>2. [u EXCEPT !.failed = "none"] \in OrderType /\ [o EXCEPT !.failed = "build"] \in OrderType
  BY <1>1, JobType
<1> QED
  BY <1>2, Zenon DEF u

\* a call for the server,
LEMMA ReachType ==
  ASSUME NEW o \in OrderType, NEW e \in Envs \cup {None}
  PROVE  [o EXCEPT !.missed = e] \in OrderType
BY DEF OrderType

\* and a new request in the place of the last one.
LEMMA NewType ==
  /\ NoOrder \in OrderType
  /\ \A r \in Regions, p \in Plans, t \in Templates, e \in Envs, pc \in {"tier", "refused"} :
       [NoOrder EXCEPT !.region = r, !.plan = p, !.os = t, !.gate = e, !.pc = pc] \in OrderType
BY DEF OrderType, NoOrder, Checking

\* The initial states satisfy the inductive invariant.
LEMMA InitHolds == Init => IInv
<1> SUFFICES ASSUME Init PROVE IInv
  OBVIOUS
<1>1. TypeOK
  <2>1. order \in OrderType
    BY NewType DEF Init
  <2>2. admin \in 0..MaxAdmin /\ restarts \in 0..MaxRestarts /\ faults \in 0..MaxFaults
    BY BoundAssumption DEF Init
  <2> QED
    BY <2>1, <2>2, Zenon DEF Init, TypeOK
<1>2. NamedInv /\ GateInv /\ ShutInv /\ MadeInv /\ FailsOnlyByDrift
  BY DEF Init, NoOrder, NamedInv, GateInv, ShutInv, MadeInv, FailsOnlyByDrift, Paid, Checking
<1> QED
  BY <1>1, <1>2 DEF IInv

\* Every step keeps the request in OrderType.
LEMMA OrderKept ==
  ASSUME TypeOK, [Next]_vars
  PROVE  order' \in OrderType
<1>0. order \in OrderType /\ api \in Envs /\ worker \in Envs
  BY DEF TypeOK
<1>1. CASE UNCHANGED order
  BY <1>0, <1>1
<1>2. ASSUME NEW r \in Regions, NEW p \in Plans, NEW t \in Templates, Receive(r, p, t)
      PROVE  order' \in OrderType
  <2> DEFINE pc == IF Sellable(r, p) THEN "tier" ELSE "refused"
  <2>1. pc \in {"tier", "refused"}
    OBVIOUS
  <2>2. order' = [NoOrder EXCEPT !.region = r, !.plan = p, !.os = t, !.gate = api, !.pc = pc]
    BY <1>2 DEF Receive
  <2> HIDE DEF pc
  <2> QED
    BY <1>0, <2>1, <2>2, NewType
<1>3. ASSUME NEW pc \in Checking \cup {"refused", "accepted"}, Goto(pc)
      PROVE  order' \in OrderType
  BY <1>0, <1>3, GotoType DEF Goto
<1>4. CASE CheckTier \/ CheckRegion \/ CheckTemplate
  BY <1>3, <1>4 DEF CheckTier, CheckRegion, CheckTemplate, Checking
<1>5. CASE CheckFails \/ Accept \/ RefuseOther
  BY <1>3, <1>5 DEF CheckFails, Accept, RefuseOther
<1>6. CASE CheckRegionBlind
  BY <1>0, <1>6, BlindType DEF CheckRegionBlind
<1>7. CASE Allocate
  <2>1. \/ \E cloud \in {"openstack", "virtfusion"} : Allocated(cloud)
        \/ \E why \in {"flavor", "image"} : AllocateFailed(why)
    BY <1>7, Zenon DEF Allocate
  <2>2. ASSUME NEW cloud \in {"openstack", "virtfusion"}, Allocated(cloud)
        PROVE  order' \in OrderType
    BY <1>0, <2>2, AllocateType, Zenon DEF Allocated
  <2>3. ASSUME NEW why \in {"flavor", "image"}, AllocateFailed(why)
        PROVE  order' \in OrderType
    BY <1>0, <2>3, AllocateType, Zenon DEF AllocateFailed
  <2> QED
    BY <2>1, <2>2, <2>3
<1>8. CASE Build
  BY <1>0, <1>8, BuildType DEF Build
<1>10. CASE Reach
  <2>1. \E e \in Envs \cup {None} : order' = [order EXCEPT !.missed = e]
    BY <1>0, <1>10 DEF Reach
  <2> QED
    BY <1>0, <2>1, ReachType
<1>9. CASE RestartApi
  <2>1. CASE order.pc \in Checking
    BY <1>3, <1>9, <2>1 DEF RestartApi
  <2>2. CASE order.pc \notin Checking
    <3>1. order' = [order EXCEPT !.pc = order.pc]
      BY <1>9, <2>2 DEF RestartApi, Goto
    <3> QED
      BY <1>0, <3>1 DEF OrderType
  <2> QED
    BY <2>1, <2>2
<1> QED
  BY <1>1, <1>2, <1>4, <1>5, <1>6, <1>7, <1>8, <1>9, <1>10 DEF Next, AdminChange, RestartWorker, vars

\* The type of the state is kept by every step.
LEMMA TypeKept ==
  ASSUME TypeOK, [Next]_vars
  PROVE  TypeOK'
<1>1. order' \in OrderType
  BY OrderKept
<1>2. api' \in Envs /\ worker' \in Envs
  BY DEF TypeOK, Next, vars, dbVars, Receive, CheckTier, CheckRegion, CheckRegionBlind,
         CheckTemplate, CheckFails, Accept, RefuseOther, Allocate, Build, Reach, AdminChange,
         RestartApi, RestartWorker
<1>3. lines' \subseteq Regions \X Tiers /\ open' \subseteq Regions /\ active' \subseteq Templates
  <2>1. CASE AdminChange
    BY <2>1 DEF TypeOK, AdminChange, Toggle
  <2>2. CASE ~AdminChange
    BY <2>2 DEF TypeOK, Next, vars, dbVars, Receive, CheckTier, CheckRegion, CheckRegionBlind,
           CheckTemplate, CheckFails, Accept, RefuseOther, Allocate, Build, Reach,
           RestartApi, RestartWorker
  <2> QED
    BY <2>1, <2>2
<1>4. shut' \subseteq {"line", "region", "template"}
  <2>1. ASSUME NEW r \in Regions, NEW p \in Plans, NEW t \in Templates, Receive(r, p, t)
        PROVE  shut' \subseteq {"line", "region", "template"}
    BY <2>1, Zenon DEF Receive, OffMarket
  <2>2. CASE AdminChange
    <3>1. shut' \subseteq shut
      BY <2>2 DEF AdminChange
    <3> QED
      BY <3>1 DEF TypeOK
  <2>3. CASE UNCHANGED shut
    BY <2>3 DEF TypeOK
  <2>4. CASE CheckTier \/ CheckRegion \/ CheckTemplate \/ CheckFails \/ Accept \/ RefuseOther
    BY <2>3, <2>4 DEF CheckTier, CheckRegion, CheckTemplate, CheckFails, Accept, RefuseOther, Goto
  <2>5. CASE CheckRegionBlind \/ Allocate \/ Build \/ Reach
    <3>1. UNCHANGED shut
      BY <2>5, Zenon DEF CheckRegionBlind, Allocate, Build, Reach
    <3> QED
      BY <2>3, <3>1
  <2>6. CASE RestartApi \/ RestartWorker \/ UNCHANGED vars
    BY <2>3, <2>6 DEF RestartApi, RestartWorker, Goto, vars
  <2> QED
    BY <2>1, <2>2, <2>4, <2>5, <2>6 DEF Next
<1>5. admin' \in 0..MaxAdmin /\ restarts' \in 0..MaxRestarts /\ faults' \in 0..MaxFaults
  <2>1. CASE UNCHANGED budget
    BY <2>1 DEF TypeOK, budget
  <2>2. CASE AdminChange
    BY <2>2, BoundAssumption DEF AdminChange, TypeOK
  <2>3. CASE CheckRegionBlind \/ CheckFails
    BY <2>3, BoundAssumption DEF CheckRegionBlind, CheckFails, TypeOK
  <2>4. CASE RestartApi \/ RestartWorker
    BY <2>4, BoundAssumption DEF RestartApi, RestartWorker, TypeOK
  <2>5. CASE UNCHANGED vars
    BY <2>1, <2>5 DEF vars, budget
  <2>6. ASSUME NEW r \in Regions, NEW p \in Plans, NEW t \in Templates, Receive(r, p, t)
        PROVE  UNCHANGED budget
    BY <2>6 DEF Receive
  <2>7. CASE CheckTier \/ CheckRegion \/ CheckTemplate \/ Accept \/ RefuseOther \/ Allocate
            \/ Build \/ Reach
    <3>1. UNCHANGED budget
      BY <2>7, Zenon DEF CheckTier, CheckRegion, CheckTemplate, Accept, RefuseOther, Allocate, Build,
         Reach
    <3> QED
      BY <2>1, <3>1
  <2> QED
    BY <2>1, <2>2, <2>3, <2>4, <2>5, <2>6, <2>7 DEF Next
<1> QED
  BY <1>1, <1>2, <1>3, <1>4, <1>5, Zenon DEF TypeOK

-----------------------------------------------------------------------------
\* Going on to another step changes nothing else of a request.
LEMMA GotoFields ==
  ASSUME NEW o \in OrderType, NEW pc
  PROVE  LET n == [o EXCEPT !.pc = pc]
         IN  /\ n.pc = pc /\ n.region = o.region /\ n.plan = o.plan /\ n.os = o.os
             /\ n.blind = o.blind /\ n.gate = o.gate /\ n.used = o.used
             /\ n.cloud = o.cloud /\ n.failed = o.failed /\ n.missed = o.missed
BY DEF OrderType

\* What is off the market depends only on the parts a request names.
LEMMA OffMarketSame ==
  ASSUME NEW o, NEW n, n.region = o.region, n.plan = o.plan, n.os = o.os,
         NEW ls, NEW rs, NEW ts
  PROVE  OffMarket(n, ls, rs, ts) = OffMarket(o, ls, rs, ts)
BY DEF OffMarket, Line

\* A new request starts with nothing checked but the environment.
LEMMA ReceiveKeeps ==
  ASSUME IInv, NEW r \in Regions, NEW p \in Plans, NEW t \in Templates, Receive(r, p, t)
  PROVE  (NamedInv /\ GateInv /\ ShutInv /\ MadeInv /\ FailsOnlyByDrift)'
<1>1. /\ order'.pc = IF Sellable(r, p) THEN "tier" ELSE "refused"
      /\ order'.region = r /\ order'.plan = p /\ order'.os = t
      /\ order'.gate = api /\ order'.failed = "none" /\ order'.missed = None
  BY DEF Receive, NoOrder
<1>2. shut' = OffMarket(order', lines, open, active)
  BY DEF Receive
<1>3. UNCHANGED <<api, lines, open, active>> /\ api \in Envs
  BY DEF Receive, dbVars, IInv, TypeOK
<1>4. NamedInv'
  BY <1>1, <1>3 DEF NamedInv
<1>5. GateInv'
  BY <1>1 DEF GateInv, Sellable, PlanMapped, Paid
<1>6. ShutInv'
  BY <1>1, <1>2, <1>3 DEF ShutInv, Paid
<1>7. MadeInv' /\ FailsOnlyByDrift'
  BY <1>1 DEF MadeInv, FailsOnlyByDrift
<1> QED
  BY <1>4, <1>5, <1>6, <1>7

\* A check that lets the request pass leaves behind what it has found out.
LEMMA CheckKeeps ==
  ASSUME IInv, CheckTier \/ CheckRegion \/ CheckTemplate \/ CheckFails \/ Accept \/ RefuseOther
  PROVE  (NamedInv /\ GateInv /\ ShutInv /\ MadeInv /\ FailsOnlyByDrift)'
<1> DEFINE F == /\ order'.region = order.region /\ order'.plan = order.plan
                /\ order'.os = order.os /\ order'.blind = order.blind
                /\ order'.gate = order.gate /\ order'.used = order.used
                /\ order'.cloud = order.cloud /\ order'.failed = order.failed
                /\ order'.missed = order.missed
<1>1. order \in OrderType
  BY DEF IInv, TypeOK
<1>2. UNCHANGED <<api, worker, lines, open, active, shut, restarts>>
  BY DEF CheckTier, CheckRegion, CheckTemplate, CheckFails, Accept, RefuseOther, Goto, dbVars, budget
<1>3. ASSUME NEW pc, Goto(pc)
      PROVE  order'.pc = pc /\ F
  BY <1>1, <1>3, GotoFields DEF Goto
<1>4. order'.pc \in {"refused", "region", "template", "create", "accepted"} /\ F
  BY <1>3 DEF CheckTier, CheckRegion, CheckTemplate, CheckFails, Accept, RefuseOther
<1>5. order.pc \in Checking
  BY DEF CheckTier, CheckRegion, CheckTemplate, CheckFails, Accept, RefuseOther, Checking
<1>6. /\ order'.pc = "region" => order.pc = "tier" /\ Line(order) \in lines
      /\ order'.pc = "template" => order.pc = "region" /\ order.region \in open
      /\ order'.pc = "create" => order.pc = "template" /\ OSTemplateAvailable(order.region, order.os)
      /\ order'.pc = "accepted" => order.pc = "create"
  BY <1>3 DEF CheckTier, CheckRegion, CheckTemplate, CheckFails, Accept, RefuseOther
<1>7. NamedInv'
  BY <1>2, <1>4, <1>5 DEF IInv, NamedInv, Checking
<1>8. GateInv'
  <2>1. order'.pc # "refused" => order.pc # "refused"
    BY <1>5 DEF Checking
  <2>2. order'.pc \in {"create", "accepted"} /\ RegionUsesOpenStack(order.gate, order.region) =>
          ImageRef(order.gate, order.os)
    BY <1>5, <1>6 DEF IInv, NamedInv, GateInv, OSTemplateAvailable, Checking
  <2> QED
    BY <1>4, <2>1, <2>2 DEF IInv, GateInv, Paid
<1>9. ShutInv'
  <2>1. shut \subseteq OffMarket(order, lines, open, active)
    BY <1>5 DEF IInv, ShutInv
  <2>2. OffMarket(order', lines, open, active) = OffMarket(order, lines, open, active)
    BY <1>4, OffMarketSame
  <2>3. /\ "line" \in shut => Line(order) \notin lines
        /\ "region" \in shut => order.region \notin open
        /\ "template" \in shut => order.os \notin active
    BY <2>1 DEF OffMarket
  <2>4. order'.pc \in {"region", "template", "create", "accepted"} => "line" \notin shut
    BY <1>6, <2>3 DEF IInv, ShutInv
  <2>5. order'.pc \in {"template", "create", "accepted"} => ("region" \in shut => order.blind)
    BY <1>6, <2>3 DEF IInv, ShutInv
  <2>6. order'.pc \in {"create", "accepted"} =>
          ("template" \in shut => RegionUsesOpenStack(order.gate, order.region))
    BY <1>5, <1>6, <2>3 DEF IInv, ShutInv, NamedInv, OSTemplateAvailable, Checking
  <2> QED
    BY <1>2, <1>4, <2>1, <2>2, <2>4, <2>5, <2>6 DEF ShutInv, Paid
<1>10. MadeInv' /\ FailsOnlyByDrift'
  BY <1>2, <1>4, <1>5 DEF IInv, MadeInv, FailsOnlyByDrift, Checking
<1> QED
  BY <1>7, <1>8, <1>9, <1>10

\* A request that passes the region check blindly is marked.
LEMMA BlindKeeps ==
  ASSUME IInv, CheckRegionBlind
  PROVE  (NamedInv /\ GateInv /\ ShutInv /\ MadeInv /\ FailsOnlyByDrift)'
<1>1. UNCHANGED <<api, worker, lines, open, active, shut, restarts>>
  BY DEF CheckRegionBlind, dbVars
<1>2. order \in OrderType /\ order.pc = "region" /\ order.pc \in Checking
  BY DEF IInv, TypeOK, CheckRegionBlind, Checking
<1>3. /\ order'.pc = "template" /\ order'.blind
      /\ order'.region = order.region /\ order'.plan = order.plan /\ order'.os = order.os
      /\ order'.gate = order.gate /\ order'.used = order.used
      /\ order'.cloud = order.cloud /\ order'.failed = order.failed
      /\ order'.missed = order.missed
  BY <1>2 DEF CheckRegionBlind, OrderType
<1>4. OffMarket(order', lines, open, active) = OffMarket(order, lines, open, active)
  BY <1>3, OffMarketSame
<1>5. NamedInv' /\ GateInv'
  BY <1>1, <1>2, <1>3 DEF IInv, NamedInv, GateInv, Paid, Checking
<1>6. ShutInv'
  BY <1>1, <1>2, <1>3, <1>4 DEF IInv, ShutInv, Paid
<1>7. MadeInv' /\ FailsOnlyByDrift'
  BY <1>1, <1>2, <1>3 DEF IInv, MadeInv, FailsOnlyByDrift
<1> QED
  BY <1>5, <1>6, <1>7

\* A call for the server misses it only where OpenStack is not configured.
LEMMA ReachKeeps ==
  ASSUME IInv, Reach
  PROVE  (NamedInv /\ GateInv /\ ShutInv /\ MadeInv /\ FailsOnlyByDrift)'
<1>1. UNCHANGED <<api, worker, lines, open, active, shut, restarts>>
  BY DEF Reach, dbVars, budget
<1>2. order \in OrderType /\ order.pc \in {"allocated", "ready"}
  BY DEF IInv, TypeOK, Reach
<1>3. PICK e \in {api, worker} :
        order' = [order EXCEPT !.missed = IF ByServerID(e, ServerID(order.cloud)) = order.cloud
                                          THEN None ELSE e]
  BY DEF Reach
<1>4. /\ order'.pc = order.pc /\ order'.blind = order.blind
      /\ order'.region = order.region /\ order'.plan = order.plan /\ order'.os = order.os
      /\ order'.gate = order.gate /\ order'.used = order.used
      /\ order'.cloud = order.cloud /\ order'.failed = order.failed
      /\ order'.missed = None \/ (/\ order'.missed = e
                                /\ ByServerID(e, ServerID(order.cloud)) # order.cloud)
  BY <1>2, <1>3 DEF OrderType
<1>5. NamedInv' /\ GateInv' /\ ShutInv'
  BY <1>1, <1>2, <1>4 DEF IInv, NamedInv, GateInv, ShutInv, Paid, Checking
<1>6. FailsOnlyByDrift'
  BY <1>1, <1>4 DEF IInv, FailsOnlyByDrift
<1>7. MadeInv'
  <2>1. order.cloud \in {"openstack", "virtfusion"}
    BY <1>2 DEF IInv, MadeInv, ByRegion
  <2>2. ByServerID(e, ServerID(order.cloud)) # order.cloud =>
          order.cloud = "openstack" /\ ~e.openstack
    BY <2>1 DEF ByServerID, ServerID, LooksLikeOpenStackServerID
  <2> QED
    BY <1>1, <1>2, <1>4, <2>2 DEF IInv, MadeInv
<1> QED
  BY <1>5, <1>6, <1>7

\* The job: an allocation fails only in an environment that lacks what CreateOrder
\* found in its own, and a build only when the region points elsewhere by now.
LEMMA JobKeeps ==
  ASSUME IInv, Allocate \/ Build
  PROVE  (NamedInv /\ GateInv /\ ShutInv /\ MadeInv /\ FailsOnlyByDrift)'
<1>1. UNCHANGED <<api, worker, lines, open, active, shut, restarts>>
  <2>1. UNCHANGED <<api, worker, dbVars, shut, budget>>
    BY Zenon DEF Allocate, Build
  <2> QED
    BY <2>1 DEF dbVars, budget
<1>2. /\ order \in OrderType /\ order.pc \in {"accepted", "allocated"}
      /\ worker \in Envs /\ restarts \in Nat
  BY BoundAssumption DEF IInv, TypeOK, Allocate, Build
<1>3. order.pc # "refused" /\ order.pc \notin Checking /\ Paid
  BY <1>2 DEF Checking, Paid
<1>4. /\ order'.region = order.region /\ order'.plan = order.plan /\ order'.os = order.os
      /\ order'.gate = order.gate /\ order'.blind = order.blind
      /\ order'.missed = order.missed
  BY <1>2 DEF Allocate, Allocated, AllocateFailed, Build, OrderType
<1>5. order'.pc \in {"accepted", "allocated", "ready"} /\ order'.pc \notin Checking
  BY <1>2 DEF Allocate, Allocated, AllocateFailed, Build, OrderType, Checking
<1>6. NamedInv' /\ GateInv' /\ ShutInv'
  BY <1>1, <1>3, <1>4, <1>5 DEF IInv, NamedInv, GateInv, ShutInv, Paid
<1>7. CASE Allocate
  <2> DEFINE region == order.region
  <2>0. order.missed = None
    BY <1>7 DEF Allocate, IInv, MadeInv
  <2>1. CASE \E cloud \in {"openstack", "virtfusion"} :
               cloud = ByRegion(worker, region) /\ Allocated(cloud)
    <3>1. /\ order'.pc = "allocated" /\ order'.used = worker /\ order'.failed = "none"
          /\ order'.cloud = ByRegion(worker, region)
      BY <1>2, <2>1 DEF Allocated, OrderType
    <3> QED
      BY <1>1, <1>2, <1>4, <1>6, <2>0, <3>1 DEF MadeInv, FailsOnlyByDrift
  <2>2. CASE /\ RegionUsesOpenStack(worker, region) /\ ~FlavorRef(worker, order.plan)
             /\ AllocateFailed("flavor")
    <3>1. order'.pc = "accepted" /\ order'.used = worker /\ order'.failed = "flavor"
      BY <1>2, <1>7, <2>2 DEF Allocate, AllocateFailed, OrderType
    <3>2. ~HasExplicitFlavor(worker, order.plan)
      BY <2>2 DEF FlavorRef, HasExplicitFlavor
    <3> QED
      BY <1>3, <1>4, <1>6, <2>0, <2>2, <3>1, <3>2 DEF IInv, GateInv, MadeInv, FailsOnlyByDrift
  <2>3. CASE /\ RegionUsesOpenStack(worker, region) /\ ~ImageRef(worker, order.os)
             /\ AllocateFailed("image")
    <3>1. order'.pc = "accepted" /\ order'.used = worker /\ order'.failed = "image"
      BY <1>2, <1>7, <2>3 DEF Allocate, AllocateFailed, OrderType
    <3> QED
      BY <1>3, <1>4, <1>6, <2>0, <2>3, <3>1 DEF IInv, GateInv, MadeInv, FailsOnlyByDrift
  <2> QED
    BY <1>7, <2>1, <2>2, <2>3 DEF Allocate, ByRegion
<1>8. CASE Build
  <2>1. order.pc = "allocated"
    BY <1>8 DEF Build
  <2>2. CASE ByRegion(worker, order.region) = order.cloud
    <3>1. /\ order'.pc = "ready" /\ order'.failed = "none"
          /\ order'.used = order.used /\ order'.cloud = order.cloud
      BY <1>2, <1>8, <2>2 DEF Build, OrderType
    <3> QED
      BY <1>4, <1>6, <2>1, <3>1 DEF IInv, MadeInv, FailsOnlyByDrift
  <2>3. CASE ByRegion(worker, order.region) # order.cloud
    <3>1. /\ order'.pc = "allocated" /\ order'.failed = "build"
          /\ order'.used = order.used /\ order'.cloud = order.cloud
      BY <1>2, <1>8, <2>1, <2>3 DEF Build, OrderType
    <3>2. restarts > 0
      BY <1>2, <2>1, <2>3 DEF IInv, MadeInv
    <3> QED
      BY <1>1, <1>4, <1>6, <2>1, <3>1, <3>2 DEF IInv, MadeInv, FailsOnlyByDrift
  <2> QED
    BY <2>2, <2>3
<1> QED
  BY <1>7, <1>8

\* The admin's changes can only take things out of shut while a request runs.
LEMMA AdminKeeps ==
  ASSUME IInv, AdminChange
  PROVE  (NamedInv /\ GateInv /\ ShutInv /\ MadeInv /\ FailsOnlyByDrift)'
<1>1. UNCHANGED <<api, worker, order, restarts>>
  BY DEF AdminChange
<1>2. /\ order.pc \in Checking => shut' = shut \cap OffMarket(order, lines', open', active')
      /\ order.pc \notin Checking => shut' = shut
  BY DEF AdminChange
<1>3. NamedInv' /\ GateInv' /\ MadeInv' /\ FailsOnlyByDrift'
  BY <1>1 DEF IInv, NamedInv, GateInv, MadeInv, FailsOnlyByDrift, Paid
<1>4. ShutInv'
  <2>1. shut' \subseteq shut
    BY <1>2
  <2> QED
    BY <1>1, <1>2, <2>1 DEF IInv, ShutInv, Paid
<1> QED
  BY <1>3, <1>4

\* A restart drops the request the API is serving; the worker's only moves the
\* environment away from the one the server was made with.
LEMMA RestartKeeps ==
  ASSUME IInv, RestartApi \/ RestartWorker
  PROVE  (NamedInv /\ GateInv /\ ShutInv /\ MadeInv /\ FailsOnlyByDrift)'
<1>1. order \in OrderType /\ restarts \in Nat /\ restarts' = restarts + 1
  BY BoundAssumption DEF IInv, TypeOK, RestartApi, RestartWorker
<1>2. UNCHANGED <<lines, open, active, shut>>
  BY DEF RestartApi, RestartWorker, Goto, dbVars
<1>3. CASE RestartApi
  <2>1. /\ order'.pc = IF order.pc \in Checking THEN "refused" ELSE order.pc
        /\ order'.region = order.region /\ order'.plan = order.plan /\ order'.os = order.os
        /\ order'.gate = order.gate /\ order'.blind = order.blind
        /\ order'.used = order.used /\ order'.cloud = order.cloud /\ order'.failed = order.failed
        /\ order'.missed = order.missed
    BY <1>1, <1>3, GotoFields DEF RestartApi, Goto
  <2>2. order'.pc \notin Checking /\ (order'.pc # "refused" => order'.pc = order.pc)
    BY <2>1 DEF Checking
  <2>3. NamedInv' /\ GateInv'
    BY <2>1, <2>2 DEF IInv, NamedInv, GateInv, Paid
  <2>4. ShutInv'
    BY <1>2, <2>1, <2>2 DEF IInv, ShutInv, Paid
  <2>5. MadeInv' /\ FailsOnlyByDrift'
    BY <1>1, <1>3, <2>1 DEF IInv, MadeInv, FailsOnlyByDrift, RestartApi, Checking
  <2> QED
    BY <2>3, <2>4, <2>5
<1>4. CASE RestartWorker
  <2>1. UNCHANGED <<api, order>>
    BY <1>4 DEF RestartWorker
  <2>2. NamedInv' /\ GateInv' /\ ShutInv'
    BY <1>2, <2>1 DEF IInv, NamedInv, GateInv, ShutInv, Paid
  <2>3. MadeInv' /\ FailsOnlyByDrift'
    BY <1>1, <2>1 DEF IInv, MadeInv, FailsOnlyByDrift
  <2> QED
    BY <2>2, <2>3
<1> QED
  BY <1>3, <1>4

\* IInv is inductive.
LEMMA StepKeeps == IInv /\ [Next]_vars => IInv'
<1> SUFFICES ASSUME IInv, [Next]_vars PROVE IInv'
  OBVIOUS
<1>1. TypeOK'
  BY TypeKept DEF IInv
<1>2. (NamedInv /\ GateInv /\ ShutInv /\ MadeInv /\ FailsOnlyByDrift)'
  <2>1. CASE UNCHANGED vars
    BY <2>1 DEF vars, IInv, NamedInv, GateInv, ShutInv, MadeInv, FailsOnlyByDrift, Paid
  <2> QED
    BY <2>1, ReceiveKeeps, CheckKeeps, BlindKeeps, JobKeeps, ReachKeeps, AdminKeeps, RestartKeeps DEF Next
<1> QED
  BY <1>1, <1>2 DEF IInv

-----------------------------------------------------------------------------
\* The inductive invariant holds in every reachable state.
THEOREM OrdersSafe == Spec => []IInv
BY InitHolds, StepKeeps, PTL DEF Spec

\* The state of CreateOrder, of the tables and of the job is of its type.
THEOREM OrdersTypeCorrect == Spec => []TypeOK
<1>1. IInv => TypeOK
  BY DEF IInv
<1> QED
  BY OrdersSafe, <1>1, PTL

\* A paid order fails at the cloud only when the worker's environment differs from
\* the one CreateOrder checked it against, or no flavor was asked for.
THEOREM FailsByDrift == Spec => []FailsOnlyByDrift
<1>1. IInv => FailsOnlyByDrift
  BY DEF IInv
<1> QED
  BY OrdersSafe, <1>1, PTL

\* Nothing that was off the market all the time a request was served is sold, but
\* a region whose list could not be read and a template that OpenStack maps.
THEOREM ShutRefused == Spec => []ShutIsRefused
<1>1. IInv => ShutIsRefused
  BY DEF IInv, ShutInv, ShutIsRefused, Paid
<1> QED
  BY OrdersSafe, <1>1, PTL

\* A change of the regions loses no server: only a process without OpenStack sends
\* a call to the wrong cloud, and only for a server of OpenStack.
THEOREM MissedUnconfigured == Spec => []MissedOnlyUnconfigured
<1>1. IInv => MissedOnlyUnconfigured
  BY DEF IInv, MadeInv, ByRegion, RegionUsesOpenStack, MissedOnlyUnconfigured
<1> QED
  BY OrdersSafe, <1>1, PTL

\* What the storefront shows for a region is what CreateOrder accepts there, but
\* for the fallback list of a VirtFusion region.
THEOREM ShownAccepted == Spec => []ShownIsAccepted
<1>1. ShownIsAccepted
  BY DEF ShownIsAccepted, ShownTemplates, ActiveOSTemplates, OSTemplateAvailable
<1> QED
  BY <1>1, PTL
=============================================================================
