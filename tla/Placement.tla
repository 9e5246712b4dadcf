------------------------------ MODULE Placement ------------------------------
(***************************************************************************)
(* Which node an order's server is counted on (store/nodes.go), and what   *)
(* takes nodes on and off sale: the worker's node sync                     *)
(* (cmd/worker/sync_nodes.go) and the admin.                               *)
(*                                                                         *)
(* PickNodeForRegion is a query of its own, on the pool and not in its     *)
(* caller's transaction: the row that takes the place is written later.    *)
(* Its callers, CreateOrderWithBilling and PromoteWaitlisted, are not in   *)
(* this repository; they are modelled as the comments of store/nodes.go    *)
(* and the answers of CreateOrder describe them.                           *)
(***************************************************************************)
EXTENDS Naturals, FiniteSets

CONSTANTS
    Nodes, Regions, Tiers,
    NodeRegion, Capacity, Rank,   \* nodes.region, capacity_instances, the order of names
    VfEnabled,                    \* nodes with vf_enabled
    Linked,                       \* nodes that have an external ID
    UuidNodes,                    \* nodes whose external ID is a UUID
    Addressed,                    \* nodes whose snapshot carries an IP
    WaitlistTiers,                \* TierAcceptsCapacityWaitlist
    Rows,                         \* rows of the instances table
    Orders,                       \* orders and promotions in progress at once
    OsRegions,                    \* what OPENSTACK_PROVISION_REGIONS may be set to
    Events,                       \* what else happens
    MaxChanges,                   \* bound: the events, all of them together
    None                          \* a model value

AllEvents == {"maintenance", "tiers", "error", "hypervisor", "crash", "fails"}

ASSUME TableAssumption ==
    /\ NodeRegion \in [Nodes -> Regions] /\ Capacity \in [Nodes -> Nat] /\ Rank \in [Nodes -> Nat]
    /\ VfEnabled \subseteq Nodes /\ Addressed \subseteq Nodes
    /\ Linked \subseteq Nodes /\ UuidNodes \subseteq Linked
    /\ WaitlistTiers \subseteq Tiers
    /\ OsRegions \subseteq SUBSET Regions /\ OsRegions # {}
ASSUME RowsAssumption == IsFiniteSet(Rows)
ASSUME OrdersAssumption == IsFiniteSet(Orders) /\ Orders # {}
ASSUME NoneAssumption == None \notin Nodes \cup Rows \cup Regions \cup Tiers
ASSUME BoundAssumption == MaxChanges \in Nat /\ Events \subseteq AllEvents

VARIABLES
    node,      \* the nodes table
    row,       \* the instances table
    order,     \* orders and promotions in progress
    worker,    \* the node sync
    env,       \* OPENSTACK_PROVISION_REGIONS of the worker
    hv,        \* VirtFusion's hypervisors
    down,      \* history: the nodes that were not up at some moment of the pass
    changes

vars == <<node, row, order, worker, env, hv, down, changes>>

-----------------------------------------------------------------------------
\* "active" stands for the states that are counted (creating, running, stopped,
\* reinstalling, suspended), "none" for a row that is free or deleted.
States == {"none", "queued", "active", "error"}

Node == [online : BOOLEAN, maintenance : BOOLEAN, tiers : SUBSET Tiers]

\* region and tier: of a queued row, what it waits for.  erred is history: the row
\* has been in error since it was placed.
Row == [state : States, node : Nodes \cup {None},
        region : Regions \cup {None}, tier : Tiers \cup {None}, erred : BOOLEAN]

\* region and tier: of an order that found no room.  row: the waitlisted row that
\* is promoted, or None for a new order.  joined is history: a row has begun to
\* count on the node since it was picked.
Order == [pc : {"idle", "wait", "place"}, region : Regions \cup {None}, tier : Tiers \cup {None},
          row : Rows \cup {None}, node : Nodes \cup {None}, joined : BOOLEAN]

Worker == [pc : {"idle", "fetch", "next", "apply", "missing"}, todo : SUBSET Nodes,
           snaps : SUBSET Nodes, node : Nodes \cup {None}, up : BOOLEAN]

TypeOK == /\ node \in [Nodes -> Node]
          /\ row \in [Rows -> Row]
          /\ order \in [Orders -> Order]
          /\ worker \in Worker
          /\ env \in OsRegions
          /\ hv \in [Nodes -> {"up", "unreachable", "absent"}]
          /\ down \subseteq Nodes
          /\ changes \in 0..MaxChanges

Occurs(kind) == kind \in Events /\ changes < MaxChanges /\ changes' = changes + 1

-----------------------------------------------------------------------------
(* store/nodes.go.                                                         *)

On(n) == {i \in Rows : row[i].node = n /\ row[i].state = "active"}

\* activeInstancesOnNode: a queued row takes no place, and one in error gives its up.
Active(n) == Cardinality(On(n))

\* nodeProvisionableWhere.
Provisionable(n) == /\ node[n].online /\ ~node[n].maintenance
                    /\ n \in Linked
                    /\ n \in VfEnabled \cup UuidNodes

\* A plan without a tier (None, the empty string of ResolvePlanTier) is sold by
\* every node.
Sells(n, r, t) == /\ NodeRegion[n] = r /\ Provisionable(n)
                  /\ t = None \/ t \in node[n].tiers

\* Mutant of HasRoom: one more than there is room for.
HasRoom_OneMore(n) == Active(n) <= Capacity[n]

HasRoom(n) == Active(n) < Capacity[n]

Less(m, n) == Active(m) < Active(n) \/ (Active(m) = Active(n) /\ Rank[m] < Rank[n])

Candidates(r, t) == {n \in Nodes : Sells(n, r, t) /\ HasRoom(n)}

\* ORDER BY active instances, name LIMIT 1.
Picked(r, t) == {n \in Candidates(r, t) : \A m \in Candidates(r, t) : ~Less(m, n)}

RegionHasOnlineNode(r, t) == \E n \in Nodes : Sells(n, r, t)

IdleOrder == [pc |-> "idle", region |-> None, tier |-> None, row |-> None, node |-> None,
              joined |-> FALSE]

\* PickNodeForRegion, for a new order or for a waitlisted row.
PickNodeForRegion(o, r, t, i) ==
    /\ order[o].pc = "idle"
    /\ \/ \E n \in Picked(r, t) :
             order' = [order EXCEPT ![o] = [IdleOrder EXCEPT !.pc = "place", !.row = i, !.node = n]]
       \/ /\ Candidates(r, t) = {}
          /\ i = None /\ t \in WaitlistTiers
          /\ order' = [order EXCEPT ![o] = [IdleOrder EXCEPT !.pc = "wait", !.region = r, !.tier = t]]
    /\ UNCHANGED <<node, row, worker, env, hv, down, changes>>

New(o) == \E r \in Regions, t \in Tiers \cup {None} : PickNodeForRegion(o, r, t, None)

\* PromoteWaitlisted.
Promote(o, i) == row[i].state = "queued" /\ PickNodeForRegion(o, row[i].region, row[i].tier, i)

\* An order no node has room for waits if the region sells the tier, or is refused.
Wait(o) == /\ order[o].pc = "wait"
           /\ order' = [order EXCEPT ![o] = IF RegionHasOnlineNode(order[o].region, order[o].tier)
                                            THEN [@ EXCEPT !.pc = "place"] ELSE IdleOrder]
           /\ UNCHANGED <<node, row, worker, env, hv, down, changes>>

\* The other orders that have picked n live to see that a row counts on it now.
Join(n, orders) == [p \in Orders |-> IF orders[p].node = n
                                     THEN [orders[p] EXCEPT !.joined = TRUE] ELSE orders[p]]

\* The row that an order writes: a free one, or the one it promotes.
Writable(o, i) == IF order[o].row = None THEN row[i].state = "none"
                                         ELSE i = order[o].row /\ row[i].state = "queued"

Place(o) ==
    LET k == order[o] IN
    /\ k.pc = "place"
    /\ \E i \in Rows :
          /\ Writable(o, i)
          /\ row' = [row EXCEPT ![i] = [state |-> IF k.node = None THEN "queued" ELSE "active",
                                        node |-> k.node, region |-> k.region, tier |-> k.tier,
                                        erred |-> FALSE]]
    /\ order' = IF k.node = None THEN [order EXCEPT ![o] = IdleOrder]
                ELSE Join(k.node, [order EXCEPT ![o] = IdleOrder])
    /\ UNCHANGED <<node, worker, env, hv, down, changes>>

\* The order cannot be paid, or its transaction fails.
GiveUp(o) == /\ order[o].pc # "idle"
             /\ order' = [order EXCEPT ![o] = IdleOrder]
             /\ UNCHANGED <<node, row, worker, env, hv, down, changes>>

-----------------------------------------------------------------------------
(* syncNodes.                                                              *)

IdleWorker == [pc |-> "idle", todo |-> {}, snaps |-> {}, node |-> None, up |-> FALSE]

NextNode == worker' = [worker EXCEPT !.pc = "next", !.node = None, !.up = FALSE]

ListNodesForSync ==
    /\ worker.pc = "idle"
    /\ worker' = [IdleWorker EXCEPT !.pc = "fetch", !.todo = Nodes]
    /\ down' = {n \in Nodes : hv[n] # "up"}
    /\ UNCHANGED <<node, row, order, env, hv, changes>>

\* Mutant of Fetch: an error is taken for an empty list.
Fetch_Empty ==
    /\ worker.pc = "fetch"
    /\ \/ /\ worker' = [worker EXCEPT !.pc = "next", !.snaps = {n \in Nodes : hv[n] # "absent"}]
          /\ UNCHANGED changes
       \/ /\ worker' = [worker EXCEPT !.pc = "next"]
          /\ Occurs("fails")
    /\ UNCHANGED <<node, row, order, env, hv, down>>

\* FetchComputeSnapshots; an error ends the pass.
Fetch ==
    /\ worker.pc = "fetch"
    /\ \/ /\ worker' = [worker EXCEPT !.pc = "next", !.snaps = {n \in Nodes : hv[n] # "absent"}]
          /\ UNCHANGED changes
       \/ worker' = IdleWorker /\ Occurs("fails")
    /\ UNCHANGED <<node, row, order, env, hv, down>>

EndPass == /\ worker.pc = "next" /\ worker.todo = {}
           /\ worker' = IdleWorker
           /\ UNCHANGED <<node, row, order, env, hv, down, changes>>

\* Mutant of TakeNode: OpenStack's nodes are looked up as well.
TakeNode_All(n) ==
    /\ worker.pc = "next" /\ n \in worker.todo
    /\ LET taken(pc, up) == [worker EXCEPT !.todo = @ \ {n}, !.node = n, !.pc = pc, !.up = up]
       IN worker' = IF n \notin worker.snaps THEN taken("missing", FALSE)
                    ELSE taken("apply", n \in Addressed => hv[n] = "up")
    /\ UNCHANGED <<node, row, order, env, hv, down, changes>>

\* The nodes of OpenStack regions are skipped; a node with an address is probed.
TakeNode(n) ==
    /\ worker.pc = "next" /\ n \in worker.todo
    /\ LET taken(pc, up) == [worker EXCEPT !.todo = @ \ {n}, !.node = n, !.pc = pc, !.up = up]
       IN worker' = IF NodeRegion[n] \in env THEN [worker EXCEPT !.todo = @ \ {n}]
                    ELSE IF n \notin worker.snaps THEN taken("missing", FALSE)
                    ELSE taken("apply", n \in Addressed => hv[n] = "up")
    /\ UNCHANGED <<node, row, order, env, hv, down, changes>>

\* Mutant of MarkNodeSyncMissing: the missing node is only logged.
MarkNodeSyncMissing_Logged ==
    /\ worker.pc = "missing" /\ NextNode
    /\ UNCHANGED <<node, row, order, env, hv, down, changes>>

\* What the two store methods write is not in the repository: a node that is
\* missing or does not answer is off line at once, one that answers is on line.
\* A failure of either is logged, and the pass goes on.
MarkNodeSyncMissing ==
    /\ worker.pc = "missing" /\ NextNode
    /\ \/ node' = [node EXCEPT ![worker.node].online = FALSE] /\ UNCHANGED changes
       \/ Occurs("fails") /\ UNCHANGED node
    /\ UNCHANGED <<row, order, env, hv, down>>

\* Mutant of ApplyNodeSync: a node only ever goes off line.
ApplyNodeSync_OffOnly ==
    /\ worker.pc = "apply" /\ NextNode
    /\ node' = [node EXCEPT ![worker.node].online = @ /\ worker.up]
    /\ UNCHANGED <<row, order, env, hv, down, changes>>

ApplyNodeSync ==
    /\ worker.pc = "apply" /\ NextNode
    /\ \/ node' = [node EXCEPT ![worker.node].online = worker.up] /\ UNCHANGED changes
       \/ Occurs("fails") /\ UNCHANGED node
    /\ UNCHANGED <<row, order, env, hv, down>>

\* A restarted worker may find another environment.
Restart == /\ Occurs("crash")
           /\ worker' = IdleWorker
           /\ env' \in OsRegions
           /\ UNCHANGED <<node, row, order, hv, down>>

Sync == \/ ListNodesForSync \/ Fetch \/ EndPass \/ MarkNodeSyncMissing \/ ApplyNodeSync
        \/ \E n \in Nodes : TakeNode(n)

-----------------------------------------------------------------------------
(* The admin, the rows' other jobs and the hypervisors.                    *)

Maintenance(n) == /\ Occurs("maintenance")
                  /\ node' = [node EXCEPT ![n].maintenance = ~@]
                  /\ UNCHANGED <<row, order, worker, env, hv, down>>

\* UpdateNodeSupportedTiers: unknown tiers are dropped, and a request of nothing
\* else is refused; an empty one closes the node to all plans that have a tier.
UpdateNodeSupportedTiers(n) ==
    /\ Occurs("tiers")
    /\ \E known \in SUBSET Tiers, unknown \in BOOLEAN :
          /\ known # {} \/ ~unknown
          /\ node' = [node EXCEPT ![n].tiers = known]
    /\ UNCHANGED <<row, order, worker, env, hv, down>>

FreeRow == [state |-> "none", node |-> None, region |-> None, tier |-> None, erred |-> FALSE]

\* A row is deleted.
Leave(i) == /\ row[i].state # "none"
            /\ row' = [row EXCEPT ![i] = FreeRow]
            /\ UNCHANGED <<node, order, worker, env, hv, down, changes>>

\* Provisioning, a reinstall or the sync pass finds an error; the row comes back
\* from it and counts again.
Break(i) == /\ row[i].state = "active" /\ Occurs("error")
            /\ row' = [row EXCEPT ![i].state = "error", ![i].erred = TRUE]
            /\ UNCHANGED <<node, order, worker, env, hv, down>>

Recover(i) == /\ row[i].state = "error"
              /\ row' = [row EXCEPT ![i].state = "active"]
              /\ order' = Join(row[i].node, order)
              /\ UNCHANGED <<node, worker, env, hv, down, changes>>

\* VirtFusion knows its own nodes only.
Vf == VfEnabled \cap Linked

HypervisorLost(n) ==
    /\ n \in Vf /\ Occurs("hypervisor")
    /\ \E s \in {"unreachable", "absent"} \ {hv[n]} : hv' = [hv EXCEPT ![n] = s]
    /\ down' = down \cup {n}
    /\ UNCHANGED <<node, row, order, worker, env>>

HypervisorBack(n) == /\ n \in Vf /\ hv[n] # "up"
                     /\ hv' = [hv EXCEPT ![n] = "up"]
                     /\ UNCHANGED <<node, row, order, worker, env, down, changes>>

-----------------------------------------------------------------------------
Init == /\ node = [n \in Nodes |-> [online |-> TRUE, maintenance |-> FALSE, tiers |-> Tiers]]
        /\ row = [i \in Rows |-> FreeRow]
        /\ order = [o \in Orders |-> IdleOrder]
        /\ worker = IdleWorker
        /\ env \in OsRegions
        /\ hv = [n \in Nodes |-> IF n \in Vf THEN "up" ELSE "absent"]
        /\ down = {}
        /\ changes = 0

Ordering(o) == New(o) \/ Wait(o) \/ Place(o) \/ GiveUp(o) \/ \E i \in Rows : Promote(o, i)

Next == \/ \E o \in Orders : Ordering(o)
        \/ \E i \in Rows : Leave(i) \/ Break(i) \/ Recover(i)
        \/ Sync \/ Restart
        \/ \E n \in Nodes : Maintenance(n) \/ UpdateNodeSupportedTiers(n)
                          \/ HypervisorLost(n) \/ HypervisorBack(n)

Spec == Init /\ [][Next]_vars

\* The worker runs pass after pass, and no failure is ever due.
FairSpec == Spec /\ WF_vars(changes' = changes /\ Sync)

-----------------------------------------------------------------------------
Occupies(o, i, n) == /\ order[o].pc = "place" /\ order'[o].pc = "idle"
                     /\ row'[i] # row[i] /\ row'[i].state = "active" /\ row'[i].node = n

\* Counting without a lock oversells a node only to orders that meet: an order
\* takes a place beyond the capacity only if, between its query and its row,
\* another row began to count on the node (nodes.go:33-50).
OversoldOnlyByRace ==
    [][\A o \in Orders, i \in Rows, n \in Nodes :
          Occupies(o, i, n) /\ ~order[o].joined => Active(n)' <= Capacity[n]]_vars

\* The node sync takes a node off sale only if its hypervisor was missing or
\* unreachable at some moment of the pass, never for a failed query of all of them
\* or a probe that another node failed, and never a node of a region that is
\* OpenStack's (sync_nodes.go:28-60).
OfflineOnlyIfDown ==
    [][\A n \in Nodes : node[n].online /\ ~node'[n].online
          => n \in down /\ NodeRegion[n] \notin env]_vars

\* The order n's place was sold by.
SoldOn(n) == \E i \in Rows : row[i].state \in {"none", "queued"} /\ row'[i].state = "active"
                             /\ row'[i].node = n

\* A node whose hypervisor stays away takes no orders in the end, also when a row
\* frees its place again and again (sync_nodes.go:42-48, nodes.go:23-31).
LostStopsSelling ==
    \A n \in Nodes : <>[](hv[n] = "absent" /\ NodeRegion[n] \notin env) => <>[][~SoldOn(n)]_vars

\* A hypervisor that stays up is on sale again in the end (sync_nodes.go:49-60).
\* OpenStack's nodes have no such way back.
NodeReturns ==
    \A n \in Nodes : <>[](hv[n] = "up" /\ NodeRegion[n] \notin env) => <>[]node[n].online

\* The rows on n that count and have not been in error, those that have (and may be
\* still, and are not counted then), and the orders about to take a place.
Sound(n) == {i \in On(n) : ~row[i].erred}
Erred(n) == {i \in Rows : row[i].node = n /\ row[i].erred}
Placing(n) == {o \in Orders : order[o].pc = "place" /\ order[o].node = n}

\* How far a node can be oversold by orders that meet: the rows on it that were never
\* in error and the orders that have picked it are together no more than it has room
\* for and the orders in progress at once but one.  Rows in error are not counted, so
\* each row on the node that has been in error may come on top (nodes.go:12-19, :33-50).
CrowdInv == \A n \in Nodes :
    Cardinality(Sound(n)) + Cardinality(Placing(n)) < Capacity[n] + Cardinality(Orders)

-----------------------------------------------------------------------------
(* The inductive invariant.                                                *)

\* Until another row joins, the place an order has picked is there.
RoomInv == \A o \in Orders : order[o].pc = "place" /\ order[o].node # None /\ ~order[o].joined
              => HasRoom(order[o].node)

\* An order waits without a node.
WaitInv == \A o \in Orders : order[o].pc = "wait" => order[o].node = None

\* The worker's verdict about a node is about this pass.
VerdictInv == /\ worker.pc # "idle" => \A n \in Nodes : hv[n] # "up" => n \in down
              /\ worker.pc \in {"next", "missing", "apply"} => Nodes \ worker.snaps \subseteq down
              /\ worker.pc \in {"missing", "apply"} =>
                    worker.node \in Nodes /\ NodeRegion[worker.node] \notin env
              /\ worker.pc = "missing" => worker.node \in down
              /\ worker.pc = "apply" => worker.up \/ worker.node \in down

IInv == TypeOK /\ RoomInv /\ WaitInv /\ VerdictInv
=============================================================================
