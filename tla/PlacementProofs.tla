--------------------------- MODULE PlacementProofs ---------------------------
(* Proofs about Placement: IInv is inductive, and what follows from it.    *)
EXTENDS Placement, FiniteSetTheorems, TLAPS

-----------------------------------------------------------------------------
(* Counting.                                                               *)

\* A node on which no row begins to count does not get fuller.
LEMMA NotFuller ==
    ASSUME NEW n, On(n)' \subseteq On(n)
    PROVE  Active(n)' <= Active(n) /\ Active(n) \in Nat /\ Active(n)' \in Nat
<1>1. IsFiniteSet(On(n))
    BY RowsAssumption, FS_Subset DEF On
<1> QED
    BY <1>1, FS_Subset, FS_CardinalityType DEF Active

\* One row more, one place less.
LEMMA OneMore ==
    ASSUME NEW n, NEW i, On(n)' \subseteq On(n) \cup {i}
    PROVE  Active(n)' <= Active(n) + 1 /\ Active(n) \in Nat /\ Active(n)' \in Nat
<1>1. IsFiniteSet(On(n))
    BY RowsAssumption, FS_Subset DEF On
<1>2. /\ IsFiniteSet(On(n) \cup {i})
      /\ Cardinality(On(n) \cup {i}) <= Cardinality(On(n)) + 1
      /\ Cardinality(On(n)) \in Nat
    BY <1>1, FS_AddElement, FS_CardinalityType
<1>3. /\ IsFiniteSet(On(n)') /\ Cardinality(On(n)') \in Nat
      /\ Cardinality(On(n)') <= Cardinality(On(n) \cup {i})
    BY <1>2, FS_Subset, FS_CardinalityType
<1>4. Cardinality(On(n) \cup {i}) \in Nat
    BY <1>2, FS_CardinalityType
<1> QED
    BY <1>2, <1>3, <1>4 DEF Active

\* The place an order has seen is still there if no row began to count on its
\* node, in particular when the rows are as they were.
LEMMA RoomStays ==
    ASSUME TypeOK, NEW n \in Nodes, HasRoom(n), On(n)' \subseteq On(n)
    PROVE  HasRoom(n)'
<1>1. Active(n)' <= Active(n) /\ Active(n) \in Nat /\ Active(n)' \in Nat
    BY NotFuller
<1>2. Capacity[n] \in Nat /\ Active(n) < Capacity[n]
    BY TableAssumption DEF HasRoom
<1>3. Active(n)' < Capacity[n]
    BY <1>1, <1>2
<1> QED
    BY <1>3 DEF HasRoom

-----------------------------------------------------------------------------
(* Types.                                                                  *)

LEMMA JoinType ==
    ASSUME NEW n, NEW orders \in [Orders -> Order]
    PROVE  /\ Join(n, orders) \in [Orders -> Order]
           /\ \A p \in Orders : /\ Join(n, orders)[p].pc = orders[p].pc
                                /\ Join(n, orders)[p].node = orders[p].node
                                /\ orders[p].node # n => Join(n, orders)[p] = orders[p]
                                /\ orders[p].node = n => Join(n, orders)[p].joined
    BY DEF Join, Order

LEMMA IdleOrderType == IdleOrder \in Order
    BY NoneAssumption DEF IdleOrder, Order

LEMMA IdleWorkerType == IdleWorker \in Worker
    BY DEF IdleWorker, Worker

LEMMA FreeRowType == FreeRow \in Row
    BY DEF FreeRow, Row, States

\* The actions that change neither rows nor orders, and those that change no more.
Others == \/ Sync \/ Restart
          \/ \E n \in Nodes : Maintenance(n) \/ UpdateNodeSupportedTiers(n)
                              \/ HypervisorLost(n) \/ HypervisorBack(n)

Ordered == \/ \E o \in Orders : Ordering(o)
           \/ \E i \in Rows : Leave(i) \/ Break(i) \/ Recover(i)

LEMMA OccursType ==
    ASSUME changes \in 0..MaxChanges, NEW kind, Occurs(kind)
    PROVE  changes' \in 0..MaxChanges
    BY BoundAssumption DEF Occurs

LEMMA OthersUnchanged ==
    ASSUME Others
    PROVE  UNCHANGED <<row, order>>
    BY Zenon DEF Others, Sync, ListNodesForSync, Fetch, EndPass, MarkNodeSyncMissing, ApplyNodeSync,
              TakeNode, Restart, Maintenance, UpdateNodeSupportedTiers, HypervisorLost, HypervisorBack

LEMMA OrderedUnchanged ==
    ASSUME Ordered
    PROVE  UNCHANGED <<node, worker, env, hv, down>>
    BY Zenon DEF Ordered, Ordering, New, Promote, PickNodeForRegion, Wait, Place, GiveUp,
              Leave, Break, Recover

-----------------------------------------------------------------------------
(* Orders keep the types and the room.                                     *)

\* What an order is after PickNodeForRegion.
LEMMA PickStep ==
    ASSUME TypeOK, RoomInv, NEW o \in Orders, NEW r \in Regions \cup {None},
           NEW t \in Tiers \cup {None}, NEW i \in Rows \cup {None}, PickNodeForRegion(o, r, t, i)
    PROVE  /\ order' \in [Orders -> Order]
           /\ RoomInv' /\ (WaitInv => WaitInv')
<1> DEFINE waits == [IdleOrder EXCEPT !.pc = "wait", !.region = r, !.tier = t]
           picked(n) == [IdleOrder EXCEPT !.pc = "place", !.row = i, !.node = n]
<1>2. waits \in Order /\ waits.pc = "wait" /\ waits.node = None
    BY DEF IdleOrder, Order
<1>3. \A n \in Nodes : picked(n) \in Order /\ picked(n).node = n /\ picked(n).pc = "place"
    BY DEF IdleOrder, Order
<1>4. UNCHANGED row
    BY DEF PickNodeForRegion
<1>5. \A n : On(n)' = On(n)
    BY <1>4 DEF On
<1>6. CASE order' = [order EXCEPT ![o] = waits]
    <2>1. order' \in [Orders -> Order] /\ order'[o].pc = "wait" /\ order'[o].node = None
          /\ \A p \in Orders \ {o} : order'[p] = order[p]
        BY <1>2, <1>6 DEF TypeOK
    <2> HIDE DEF waits
    <2>2. RoomInv'
        BY <2>1, <1>5, RoomStays DEF RoomInv, TypeOK, Order
    <2>3. WaitInv => WaitInv'
        BY <2>1 DEF WaitInv
    <2> QED
        BY <2>1, <2>2, <2>3
<1>7. CASE \E n \in Picked(r, t) : order' = [order EXCEPT ![o] = picked(n)]
    <2>1. PICK n \in Picked(r, t) : order' = [order EXCEPT ![o] = picked(n)]
        BY <1>7
    <2>2. n \in Nodes /\ HasRoom(n)
        BY DEF Picked, Candidates
    <2>3. order' \in [Orders -> Order] /\ order'[o].node = n /\ order'[o].pc = "place"
          /\ \A p \in Orders \ {o} : order'[p] = order[p]
        BY <1>3, <2>1, <2>2 DEF TypeOK
    <2> HIDE DEF picked
    <2>4. RoomInv'
        BY <2>2, <2>3, <1>5, RoomStays DEF RoomInv, TypeOK, Order
    <2>5. WaitInv => WaitInv'
        BY <2>3 DEF WaitInv
    <2> QED
        BY <2>3, <2>4, <2>5
<1> QED
    BY <1>6, <1>7 DEF PickNodeForRegion

LEMMA WaitStep ==
    ASSUME TypeOK, RoomInv, WaitInv, NEW o \in Orders, Wait(o)
    PROVE  order' \in [Orders -> Order] /\ RoomInv' /\ WaitInv'
<1> DEFINE goes == [order[o] EXCEPT !.pc = "place"]
<1>1. goes \in Order /\ goes.node = None /\ IdleOrder \in Order /\ IdleOrder.pc = "idle"
    BY IdleOrderType DEF TypeOK, Order, Wait, WaitInv, IdleOrder
<1>2. \/ order' = [order EXCEPT ![o] = goes]
      \/ order' = [order EXCEPT ![o] = IdleOrder]
    BY DEF Wait
<1>3. /\ order' \in [Orders -> Order]
      /\ order'[o].pc = "idle" \/ order'[o].node = None
      /\ \A p \in Orders \ {o} : order'[p] = order[p]
    BY <1>1, <1>2 DEF TypeOK
<1>4. \A n : On(n)' \subseteq On(n)
    BY DEF Wait, On
<1>5. RoomInv'
    BY <1>3, <1>4, RoomStays DEF RoomInv, TypeOK, Order
<1>6. WaitInv'
    BY <1>3 DEF WaitInv
<1> QED
    BY <1>3, <1>5, <1>6

LEMMA GiveUpStep ==
    ASSUME TypeOK, RoomInv, WaitInv, NEW o \in Orders, GiveUp(o)
    PROVE  order' \in [Orders -> Order] /\ RoomInv' /\ WaitInv'
<1>1. /\ order' \in [Orders -> Order]
      /\ order'[o].pc = "idle"
      /\ \A p \in Orders \ {o} : order'[p] = order[p]
    BY IdleOrderType DEF GiveUp, TypeOK, IdleOrder
<1>2. \A n : On(n)' \subseteq On(n)
    BY DEF GiveUp, On
<1>3. RoomInv'
    BY <1>1, <1>2, RoomStays DEF RoomInv, TypeOK, Order
<1>4. WaitInv'
    BY <1>1 DEF WaitInv
<1> QED
    BY <1>1, <1>3, <1>4

\* What Place makes of its row, and of the counts: only the order's own node gets fuller.
LEMMA PlaceRow ==
    ASSUME TypeOK, NEW o \in Orders, Place(o)
    PROVE  \E i \in Rows :
              /\ row' \in [Rows -> Row]
              /\ \A j \in Rows \ {i} : row'[j] = row[j]
              /\ row'[i].node = order[o].node
              /\ \A n \in Nodes : /\ n # order[o].node => On(n)' \subseteq On(n)
                                  /\ On(n)' \subseteq On(n) \cup {i}
<1>1. PICK i \in Rows : row' = [row EXCEPT ![i] =
             [state |-> IF order[o].node = None THEN "queued" ELSE "active",
              node |-> order[o].node, region |-> order[o].region, tier |-> order[o].tier,
              erred |-> FALSE]]
    BY DEF Place
<1>2. row' \in [Rows -> Row]
    BY <1>1 DEF TypeOK, Row, Order, States
<1>3. /\ \A j \in Rows \ {i} : row'[j] = row[j]
      /\ row'[i].node = order[o].node
    BY <1>1 DEF TypeOK
<1>4. \A n \in Nodes : /\ n # order[o].node => On(n)' \subseteq On(n)
                       /\ On(n)' \subseteq On(n) \cup {i}
    BY <1>3 DEF On
<1> QED
    BY <1>2, <1>3, <1>4

LEMMA PlaceStep ==
    ASSUME TypeOK, RoomInv, WaitInv, NEW o \in Orders, Place(o)
    PROVE  /\ row' \in [Rows -> Row]
           /\ order' \in [Orders -> Order] /\ RoomInv' /\ WaitInv'
<1> DEFINE done == [order EXCEPT ![o] = IdleOrder]
           m == order[o].node
<1>1. row' \in [Rows -> Row]
    BY PlaceRow
<1>2. \A n \in Nodes : n # m => On(n)' \subseteq On(n)
    BY PlaceRow
<1>3. /\ done \in [Orders -> Order] /\ done[o].pc = "idle"
      /\ \A p \in Orders \ {o} : done[p] = order[p]
    BY IdleOrderType DEF TypeOK, IdleOrder
<1>4. order' = IF m = None THEN done ELSE Join(m, done)
    BY DEF Place
<1> HIDE DEF done, m
<1>5. /\ order' \in [Orders -> Order]
      /\ \A p \in Orders : /\ order'[p].pc = done[p].pc /\ order'[p].node = done[p].node
                           /\ order'[p].node = m /\ m # None => order'[p].joined
                           /\ order'[p].node # m => order'[p] = done[p]
    <2>1. CASE m = None
        BY <2>1, <1>3, <1>4
    <2>2. CASE m # None
        <3>1. order' = Join(m, done)
            BY <2>2, <1>4
        <3> QED
            BY <3>1, <1>3, JoinType
    <2> QED
        BY <2>1, <2>2
<1>6. RoomInv'
    <2>1. \A n \in Nodes : n # m /\ HasRoom(n) => HasRoom(n)'
        BY <1>2, RoomStays
    <2>2. \A p \in Orders :
             order'[p].pc = "place" /\ order'[p].node # None /\ ~order'[p].joined
                => /\ order'[p].node # m /\ order'[p] = order[p]
                   /\ order[p].node \in Nodes /\ HasRoom(order[p].node)
        BY <1>3, <1>5 DEF RoomInv, TypeOK, Order
    <2> QED
        BY <2>1, <2>2 DEF RoomInv
<1>7. WaitInv'
    BY <1>3, <1>5 DEF WaitInv
<1> QED
    BY <1>1, <1>5, <1>6, <1>7

\* A row that is deleted or breaks frees a place; one that comes back takes one.
LEMMA RowsFree ==
    ASSUME TypeOK, RoomInv, WaitInv, NEW i \in Rows, Leave(i) \/ Break(i)
    PROVE  row' \in [Rows -> Row] /\ order' = order /\ RoomInv' /\ WaitInv'
<1>1. PICK r \in Row : row' = [row EXCEPT ![i] = r] /\ r.state # "active"
    <2>1. CASE Leave(i)
        BY <2>1, FreeRowType DEF Leave, FreeRow
    <2>2. CASE Break(i)
        <3> DEFINE r == [row[i] EXCEPT !.state = "error", !.erred = TRUE]
        <3>1. r \in Row /\ r.state # "active"
            BY DEF TypeOK, Row, States
        <3>2. row' = [row EXCEPT ![i] = r]
            BY <2>2 DEF Break
        <3> QED
            BY <3>1, <3>2
    <2> QED
        BY <2>1, <2>2
<1>2. /\ row' \in [Rows -> Row]
      /\ \A j \in Rows : row'[j].state = "active" => row'[j] = row[j]
    BY <1>1 DEF TypeOK
<1>3. \A n : On(n)' \subseteq On(n)
    BY <1>2 DEF On
<1>4. order' = order
    BY DEF Leave, Break
<1>5. RoomInv'
    BY <1>3, <1>4, RoomStays DEF RoomInv, TypeOK, Order
<1> QED
    BY <1>2, <1>4, <1>5 DEF WaitInv

LEMMA RecoverStep ==
    ASSUME TypeOK, RoomInv, WaitInv, NEW i \in Rows, Recover(i)
    PROVE  row' \in [Rows -> Row] /\ order' \in [Orders -> Order] /\ RoomInv' /\ WaitInv'
<1> DEFINE r == [row[i] EXCEPT !.state = "active"]
           m == row[i].node
<1>1. r \in Row /\ r.node = m
    BY DEF TypeOK, Row, States
<1>2. row' = [row EXCEPT ![i] = r] /\ order' = Join(m, order)
    BY DEF Recover
<1> HIDE DEF r, m
<1>3. /\ row' \in [Rows -> Row] /\ row'[i].node = m
      /\ \A j \in Rows \ {i} : row'[j] = row[j]
    BY <1>1, <1>2 DEF TypeOK
<1>4. \A n : n # m => On(n)' \subseteq On(n)
    BY <1>3 DEF On
<1>5. /\ order' \in [Orders -> Order]
      /\ \A p \in Orders : /\ order'[p].pc = order[p].pc /\ order'[p].node = order[p].node
                           /\ order'[p].node = m => order'[p].joined
                           /\ order'[p].node # m => order'[p] = order[p]
    BY <1>2, JoinType DEF TypeOK
<1>6. \A n \in Nodes : n # m /\ HasRoom(n) => HasRoom(n)'
    BY <1>4, RoomStays
<1>7. \A p \in Orders :
         order'[p].pc = "place" /\ order'[p].node # None /\ ~order'[p].joined
            => /\ order'[p].node # m /\ order'[p] = order[p]
               /\ order[p].node \in Nodes /\ HasRoom(order[p].node)
    BY <1>5 DEF RoomInv, TypeOK, Order
<1>8. RoomInv'
    BY <1>6, <1>7 DEF RoomInv
<1>9. WaitInv'
    BY <1>5 DEF WaitInv
<1> QED
    BY <1>3, <1>5, <1>8, <1>9

LEMMA OrderedStep ==
    ASSUME TypeOK, RoomInv, WaitInv, VerdictInv, Ordered
    PROVE  IInv'
<1> DEFINE kept == row' \in [Rows -> Row] /\ order' \in [Orders -> Order] /\ RoomInv' /\ WaitInv'
<1>1. kept
    <2>1. ASSUME NEW o \in Orders, NEW r \in Regions \cup {None}, NEW t \in Tiers \cup {None},
                 NEW i \in Rows \cup {None}, PickNodeForRegion(o, r, t, i)
          PROVE  kept
        <3>1. row' = row
            BY <2>1 DEF PickNodeForRegion
        <3> QED
            BY <2>1, <3>1, PickStep DEF TypeOK
    <2>2. ASSUME NEW o \in Orders, New(o) PROVE kept
        BY <2>1, <2>2 DEF New
    <2>3. ASSUME NEW o \in Orders, NEW i \in Rows, Promote(o, i) PROVE kept
        <3>1. row[i].region \in Regions \cup {None} /\ row[i].tier \in Tiers \cup {None}
            BY DEF TypeOK, Row
        <3> QED
            BY <2>1, <2>3, <3>1 DEF Promote
    <2>4. ASSUME NEW o \in Orders, Wait(o) PROVE kept
        BY <2>4, WaitStep DEF Wait, TypeOK
    <2>5. ASSUME NEW o \in Orders, Place(o) PROVE kept
        BY <2>5, PlaceStep
    <2>6. ASSUME NEW o \in Orders, GiveUp(o) PROVE kept
        BY <2>6, GiveUpStep DEF GiveUp, TypeOK
    <2>7. ASSUME NEW i \in Rows, Leave(i) \/ Break(i) PROVE kept
        BY <2>7, RowsFree DEF TypeOK
    <2>8. ASSUME NEW i \in Rows, Recover(i) PROVE kept
        BY <2>8, RecoverStep
    <2> HIDE DEF kept
    <2> QED
        BY <2>2, <2>3, <2>4, <2>5, <2>6, <2>7, <2>8, Zenon DEF Ordered, Ordering
<1>2. UNCHANGED <<node, worker, env, hv, down>>
    BY OrderedUnchanged
<1>3. changes' \in 0..MaxChanges
    BY OccursType DEF Ordered, Ordering, New, Promote, PickNodeForRegion, Wait, Place, GiveUp,
                      Leave, Break, Recover, TypeOK
<1>4. VerdictInv'
    BY <1>2 DEF VerdictInv
<1>5. TypeOK'
    BY <1>1, <1>2, <1>3 DEF TypeOK
<1> QED
    BY <1>1, <1>4, <1>5 DEF IInv

-----------------------------------------------------------------------------
(* The node sync and the rest.                                             *)

NodesKept == /\ node' \in [Nodes -> Node]
             /\ worker' \in Worker
             /\ env' \in OsRegions
             /\ hv' \in [Nodes -> {"up", "unreachable", "absent"}]
             /\ down' \subseteq Nodes
             /\ changes' \in 0..MaxChanges
             /\ VerdictInv'

LEMMA NextNodeType ==
    ASSUME worker \in Worker, NextNode
    PROVE  /\ worker' \in Worker /\ worker'.pc = "next"
           /\ worker'.snaps = worker.snaps
    BY DEF NextNode, Worker

LEMMA OnlineType ==
    ASSUME node \in [Nodes -> Node], NEW n, NEW b \in BOOLEAN,
           node' = [node EXCEPT ![n].online = b]
    PROVE  node' \in [Nodes -> Node]
    BY DEF Node

LEMMA FetchStep ==
    ASSUME TypeOK, VerdictInv, ListNodesForSync \/ Fetch \/ EndPass \/ Restart
    PROVE  NodesKept
<1>1. CASE ListNodesForSync
    BY <1>1, IdleWorkerType DEF ListNodesForSync, TypeOK, NodesKept, VerdictInv, Worker, IdleWorker
<1>2. CASE Fetch
    <2> DEFINE fetched == [worker EXCEPT !.pc = "next", !.snaps = {n \in Nodes : hv[n] # "absent"}]
    <2>1. fetched \in Worker /\ fetched.pc = "next" /\ Nodes \ fetched.snaps \subseteq down
        BY <1>2 DEF Fetch, TypeOK, Worker, VerdictInv
    <2> HIDE DEF fetched
    <2>2. CASE worker' = fetched /\ UNCHANGED changes
        BY <1>2, <2>1, <2>2 DEF Fetch, TypeOK, NodesKept, VerdictInv
    <2>3. CASE worker' = IdleWorker /\ Occurs("fails")
        BY <1>2, <2>3, IdleWorkerType, OccursType DEF Fetch, TypeOK, NodesKept, VerdictInv, IdleWorker
    <2> QED
        BY <1>2, <2>2, <2>3 DEF Fetch, fetched
<1>3. CASE EndPass
    BY <1>3, IdleWorkerType DEF EndPass, TypeOK, NodesKept, VerdictInv, IdleWorker
<1>4. CASE Restart
    BY <1>4, IdleWorkerType, OccursType DEF Restart, TypeOK, NodesKept, VerdictInv, IdleWorker
<1> QED
    BY <1>1, <1>2, <1>3, <1>4

LEMMA TakeNodeStep ==
    ASSUME TypeOK, VerdictInv, NEW n \in Nodes, TakeNode(n)
    PROVE  NodesKept
<1> DEFINE left == [worker EXCEPT !.todo = @ \ {n}]
           taken(pc, up) == [worker EXCEPT !.todo = @ \ {n}, !.node = n, !.pc = pc, !.up = up]
           up == n \in Addressed => hv[n] = "up"
<1>1. worker \in Worker /\ worker.pc = "next" /\ up \in BOOLEAN
    BY DEF TakeNode, TypeOK
<1>2. left \in Worker /\ left.pc = "next" /\ left.snaps = worker.snaps
    BY <1>1 DEF Worker
<1>3. /\ taken("missing", FALSE) \in Worker /\ taken("missing", FALSE).pc = "missing"
      /\ taken("missing", FALSE).node = n /\ taken("missing", FALSE).snaps = worker.snaps
    BY <1>1 DEF Worker
<1>4. /\ taken("apply", up) \in Worker /\ taken("apply", up).pc = "apply"
      /\ taken("apply", up).node = n /\ taken("apply", up).snaps = worker.snaps
      /\ taken("apply", up).up = up
    BY <1>1 DEF Worker
<1>5. \/ worker' = left
      \/ worker' = taken("missing", FALSE) /\ n \notin worker.snaps /\ NodeRegion[n] \notin env
      \/ worker' = taken("apply", up) /\ NodeRegion[n] \notin env
    BY DEF TakeNode
<1>6. /\ Nodes \ worker.snaps \subseteq down
      /\ \A m \in Nodes : hv[m] # "up" => m \in down
    BY <1>1 DEF VerdictInv
<1>7. up \/ n \in down
    BY <1>6
<1>8. UNCHANGED <<node, env, hv, down, changes>>
    BY DEF TakeNode
<1> HIDE DEF left, taken, up
<1>9. worker' \in Worker /\ VerdictInv'
    BY <1>2, <1>3, <1>4, <1>5, <1>6, <1>7, <1>8 DEF VerdictInv
<1> QED
    BY <1>8, <1>9 DEF NodesKept, TypeOK

LEMMA MarkStep ==
    ASSUME TypeOK, VerdictInv, MarkNodeSyncMissing \/ ApplyNodeSync
    PROVE  NodesKept
<1>1. /\ worker \in Worker /\ worker.up \in BOOLEAN /\ worker.pc \in {"missing", "apply"}
      /\ NextNode
    BY DEF TypeOK, Worker, MarkNodeSyncMissing, ApplyNodeSync
<1>2. worker' \in Worker /\ worker'.pc = "next" /\ worker'.snaps = worker.snaps
    BY <1>1, NextNodeType
<1>3. node' \in [Nodes -> Node] /\ changes' \in 0..MaxChanges
    BY <1>1, OnlineType, OccursType DEF TypeOK, MarkNodeSyncMissing, ApplyNodeSync
<1>4. UNCHANGED <<env, hv, down>>
    BY DEF MarkNodeSyncMissing, ApplyNodeSync
<1>5. VerdictInv'
    BY <1>1, <1>2, <1>4 DEF VerdictInv
<1> QED
    BY <1>2, <1>3, <1>4, <1>5 DEF NodesKept, TypeOK

LEMMA AdminStep ==
    ASSUME TypeOK, VerdictInv, NEW n \in Nodes, Maintenance(n) \/ UpdateNodeSupportedTiers(n)
    PROVE  NodesKept
<1>1. node' \in [Nodes -> Node]
    <2>1. node[n] \in Node
        BY DEF TypeOK
    <2>2. PICK x \in Node : node' = [node EXCEPT ![n] = x]
        <3>1. CASE Maintenance(n)
            <4>1. [node[n] EXCEPT !.maintenance = ~@] \in Node
                BY <2>1 DEF Node
            <4> QED
                BY <3>1, <4>1 DEF Maintenance
        <3>2. CASE UpdateNodeSupportedTiers(n)
            <4>1. \A known \in SUBSET Tiers : [node[n] EXCEPT !.tiers = known] \in Node
                BY <2>1 DEF Node
            <4> QED
                BY <3>2, <4>1 DEF UpdateNodeSupportedTiers
        <3> QED
            BY <3>1, <3>2
    <2> QED
        BY <2>2 DEF TypeOK
<1>2. changes' \in 0..MaxChanges /\ UNCHANGED <<worker, env, hv, down>>
    BY OccursType DEF Maintenance, UpdateNodeSupportedTiers, TypeOK
<1> QED
    BY <1>1, <1>2 DEF NodesKept, TypeOK, VerdictInv

LEMMA HypervisorStep ==
    ASSUME TypeOK, VerdictInv, NEW n \in Nodes, HypervisorLost(n) \/ HypervisorBack(n)
    PROVE  NodesKept
<1>1. /\ hv' \in [Nodes -> {"up", "unreachable", "absent"}]
      /\ \A m \in Nodes : hv'[m] # "up" => hv[m] # "up" \/ m \in down'
      /\ down \subseteq down' /\ down' \subseteq Nodes
    BY DEF HypervisorLost, HypervisorBack, Vf, TypeOK
<1>2. changes' \in 0..MaxChanges /\ UNCHANGED <<node, worker, env>>
    BY OccursType DEF HypervisorLost, HypervisorBack, TypeOK
<1>3. VerdictInv'
    BY <1>1, <1>2 DEF VerdictInv
<1> QED
    BY <1>1, <1>2, <1>3 DEF NodesKept, TypeOK

LEMMA OthersStep ==
    ASSUME TypeOK, RoomInv, WaitInv, VerdictInv, Others
    PROVE  IInv'
<1>1. NodesKept
    BY FetchStep, TakeNodeStep, MarkStep, AdminStep, HypervisorStep, Zenon DEF Others, Sync
<1>2. row' = row /\ order' = order
    BY OthersUnchanged
<1>3. \A n : On(n)' \subseteq On(n)
    BY <1>2 DEF On
<1>4. RoomInv' /\ WaitInv'
    BY <1>2, <1>3, RoomStays DEF RoomInv, WaitInv, TypeOK, Order
<1> QED
    BY <1>1, <1>2, <1>4 DEF IInv, TypeOK, NodesKept

-----------------------------------------------------------------------------
(* The theorems.                                                           *)

LEMMA InitIInv == Init => IInv
<1> SUFFICES ASSUME Init PROVE IInv
    OBVIOUS
<1>1. TypeOK
    BY IdleOrderType, IdleWorkerType, FreeRowType, BoundAssumption
       DEF Init, TypeOK, Node
<1>2. RoomInv /\ WaitInv /\ VerdictInv
    BY DEF Init, RoomInv, WaitInv, VerdictInv, IdleOrder, IdleWorker
<1> QED
    BY <1>1, <1>2 DEF IInv

LEMMA NextSplit == Next => Ordered \/ Others
    BY Zenon DEF Next, Ordered, Others

LEMMA StepIInv == IInv /\ [Next]_vars => IInv'
<1>1. IInv /\ UNCHANGED vars => IInv'
    BY DEF IInv, TypeOK, RoomInv, WaitInv, VerdictInv, HasRoom, Active, On, vars
<1>2. IInv /\ Next => IInv'
    BY NextSplit, OrderedStep, OthersStep DEF IInv
<1> QED
    BY <1>1, <1>2

\* Whatever the nodes, orders and hypervisors, the place that an order has seen is
\* there until another row joins it, and what the node sync thinks of a node is
\* true of its hypervisor during this pass (nodes.go:33-50, sync_nodes.go:28-60).
THEOREM PlacementSafe == Spec => []IInv
    BY InitIInv, StepIInv, PTL DEF Spec

LEMMA StepOversold ==
    ASSUME IInv, Next, NEW o \in Orders, NEW i \in Rows, NEW n \in Nodes,
           Occupies(o, i, n), ~order[o].joined
    PROVE  Active(n)' <= Capacity[n]
<1>1. Place(o)
    <2>1. row'[i] # row[i] /\ order[o].pc = "place" /\ order'[o].pc = "idle"
        BY DEF Occupies
    <2>2. Ordered
        BY <2>1, NextSplit, OthersUnchanged
    <2>3. ~ \E j \in Rows : Leave(j) \/ Break(j)
        BY <2>1 DEF Leave, Break
    <2>4. ~ \E j \in Rows : Recover(j)
        BY <2>1, JoinType DEF Recover, IInv, TypeOK
    <2>5. PICK p \in Orders : Ordering(p)
        BY <2>2, <2>3, <2>4 DEF Ordered
    <2>6. Place(p)
        BY <2>1, <2>5 DEF Ordering, New, Promote, PickNodeForRegion, Wait, GiveUp
    <2>7. p = o
        <3> SUFFICES ASSUME p # o PROVE FALSE
            OBVIOUS
        <3> DEFINE done == [order EXCEPT ![p] = IdleOrder]
        <3>1. done \in [Orders -> Order] /\ done[o] = order[o]
            BY IdleOrderType DEF IInv, TypeOK
        <3>2. order' = done \/ order' = Join(order[p].node, done)
            BY <2>6 DEF Place
        <3> HIDE DEF done
        <3>3. order'[o].pc = order[o].pc
            BY <3>1, <3>2, JoinType
        <3> QED
            BY <3>3, <2>1
    <2> QED
        BY <2>6, <2>7
<1>2. PICK j \in Rows : /\ \A k \in Rows \ {j} : row'[k] = row[k]
                        /\ row'[j].node = order[o].node
                        /\ On(n)' \subseteq On(n) \cup {j}
    BY <1>1, PlaceRow DEF IInv
<1>3. order[o].node = n /\ order[o].pc = "place"
    BY <1>2 DEF Occupies
<1>4. HasRoom(n)
    BY <1>3, NoneAssumption DEF IInv, RoomInv
<1>5. Active(n)' <= Active(n) + 1 /\ Active(n) \in Nat /\ Active(n)' \in Nat
    BY <1>2, OneMore
<1>6. Active(n) < Capacity[n] /\ Capacity[n] \in Nat
    BY <1>4, TableAssumption DEF HasRoom
<1> QED
    BY <1>5, <1>6

\* A node is oversold only to orders that meet, for any nodes and capacities.
THEOREM OversoldByRace == Spec => OversoldOnlyByRace
<1>1. IInv /\ [Next]_vars =>
         [\A o \in Orders, i \in Rows, n \in Nodes :
             Occupies(o, i, n) /\ ~order[o].joined => Active(n)' <= Capacity[n]]_vars
    BY StepOversold
<1> QED
    BY <1>1, PlacementSafe, PTL DEF Spec, OversoldOnlyByRace

LEMMA StepOffline ==
    ASSUME IInv, Next, NEW n \in Nodes, node[n].online, ~node'[n].online
    PROVE  n \in down /\ NodeRegion[n] \notin env
<1>1. Others
    BY NextSplit, OrderedUnchanged
<1>2. node # node'
    OBVIOUS
<1>3. ~ \E m \in Nodes : \/ Maintenance(m) \/ UpdateNodeSupportedTiers(m)
                         \/ HypervisorLost(m) \/ HypervisorBack(m)
    BY <1>2 DEF Maintenance, UpdateNodeSupportedTiers, HypervisorLost, HypervisorBack, IInv, TypeOK, Node
<1>4. MarkNodeSyncMissing \/ ApplyNodeSync
    BY <1>1, <1>2, <1>3 DEF Others, Sync, ListNodesForSync, Fetch, EndPass, TakeNode, Restart
<1>5. CASE MarkNodeSyncMissing
    <2>1. node' = [node EXCEPT ![worker.node].online = FALSE] /\ worker.pc = "missing"
        BY <1>2, <1>5 DEF MarkNodeSyncMissing
    <2>2. worker.node = n
        BY <2>1 DEF IInv, TypeOK
    <2> QED
        BY <2>1, <2>2 DEF IInv, VerdictInv
<1>6. CASE ApplyNodeSync
    <2>1. node' = [node EXCEPT ![worker.node].online = worker.up] /\ worker.pc = "apply"
        BY <1>2, <1>6 DEF ApplyNodeSync
    <2>2. worker.node = n
        BY <2>1 DEF IInv, TypeOK
    <2>3. ~worker.up
        BY <2>1, <2>2 DEF IInv, TypeOK, Node
    <2> QED
        BY <2>1, <2>2, <2>3 DEF IInv, VerdictInv
<1> QED
    BY <1>4, <1>5, <1>6

\* The node sync takes no node off sale without a reason of its own, for any nodes.
THEOREM OfflineIfDown == Spec => OfflineOnlyIfDown
<1>1. IInv /\ [Next]_vars =>
         [\A n \in Nodes : node[n].online /\ ~node'[n].online
             => n \in down /\ NodeRegion[n] \notin env]_vars
    BY StepOffline
<1> QED
    BY <1>1, PlacementSafe, PTL DEF Spec, OfflineOnlyIfDown

-----------------------------------------------------------------------------
(* How far a node can be oversold.                                         *)

\* What a set of rows or orders counts after it shrank, grew or lost a member.
LEMMA CountShrinks ==
    ASSUME NEW S, NEW T, IsFiniteSet(S), T \subseteq S
    PROVE  /\ IsFiniteSet(T) /\ Cardinality(T) \in Nat /\ Cardinality(S) \in Nat
           /\ Cardinality(T) <= Cardinality(S)
           /\ \A x \in S : x \notin T => Cardinality(T) + 1 <= Cardinality(S)
<1>1. IsFiniteSet(T) /\ Cardinality(T) \in Nat /\ Cardinality(S) \in Nat
      /\ Cardinality(T) <= Cardinality(S)
    BY FS_Subset, FS_CardinalityType
<1>2. ASSUME NEW x \in S, x \notin T
      PROVE  Cardinality(T) + 1 <= Cardinality(S)
    <2>1. IsFiniteSet(T \cup {x}) /\ Cardinality(T \cup {x}) = Cardinality(T) + 1
        BY <1>1, <1>2, FS_AddElement
    <2>2. T \cup {x} \subseteq S
        BY <1>2
    <2>3. Cardinality(T \cup {x}) <= Cardinality(S)
        BY <2>2, FS_Subset
    <2> QED
        BY <2>1, <2>3
<1> QED
    BY <1>1, <1>2

LEMMA CountGrows ==
    ASSUME NEW S, NEW T, NEW x, IsFiniteSet(S), T \subseteq S \cup {x}
    PROVE  Cardinality(T) \in Nat /\ Cardinality(T) <= Cardinality(S) + 1
<1>1. /\ IsFiniteSet(S \cup {x}) /\ Cardinality(S) \in Nat
      /\ Cardinality(S \cup {x}) = Cardinality(S) \/ Cardinality(S \cup {x}) = Cardinality(S) + 1
    BY FS_AddElement, FS_CardinalityType
<1>2. Cardinality(T) \in Nat /\ Cardinality(T) <= Cardinality(S \cup {x})
    BY <1>1, CountShrinks
<1> QED
    BY <1>1, <1>2

LEMMA CrowdFinite ==
    ASSUME NEW n
    PROVE  /\ IsFiniteSet(On(n)) /\ IsFiniteSet(Sound(n)) /\ IsFiniteSet(Placing(n))
           /\ IsFiniteSet(Sound(n)') /\ IsFiniteSet(Placing(n)')
    BY RowsAssumption, OrdersAssumption, FS_Subset DEF On, Sound, Placing

LEMMA CrowdTypes ==
    ASSUME NEW n \in Nodes
    PROVE  /\ Cardinality(Sound(n)) \in Nat /\ Cardinality(Placing(n)) \in Nat
           /\ Cardinality(Sound(n)') \in Nat /\ Cardinality(Placing(n)') \in Nat
           /\ Capacity[n] \in Nat /\ Cardinality(Orders) \in Nat
    BY CrowdFinite, FS_CardinalityType, TableAssumption, OrdersAssumption

\* CrowdInv of one node.
CrowdOK(n) == Cardinality(Sound(n)) + Cardinality(Placing(n)) < Capacity[n] + Cardinality(Orders)

\* A row that comes back from an error has been in one.
ErredInv == \A i \in Rows : row[i].state = "error" => row[i].erred

LEMMA ErredStep ==
    ASSUME IInv, ErredInv, [Next]_vars
    PROVE  ErredInv'
<1>1. ASSUME UNCHANGED row PROVE ErredInv'
    BY <1>1 DEF ErredInv
<1>2. ASSUME NEW o \in Orders, Place(o) PROVE ErredInv'
    <2>1. PICK i \in Rows : \E k :
             row' = [row EXCEPT ![i] = [state |-> IF order[o].node = None THEN "queued" ELSE "active",
                        node |-> order[o].node, region |-> k.region, tier |-> k.tier,
                        erred |-> FALSE]]
        BY <1>2 DEF Place
    <2>2. row'[i].state # "error" /\ \A j \in Rows \ {i} : row'[j] = row[j]
        BY <2>1 DEF IInv, TypeOK
    <2> QED
        BY <2>2 DEF ErredInv
<1>3. ASSUME NEW i \in Rows, Leave(i) \/ Break(i) \/ Recover(i) PROVE ErredInv'
    <2>1. \A j \in Rows \ {i} : row'[j] = row[j]
        BY <1>3 DEF Leave, Break, Recover, IInv, TypeOK
    <2>2. row'[i].state = "error" => row'[i].erred
        BY <1>3 DEF Leave, Break, Recover, FreeRow, IInv, TypeOK, Row
    <2> QED
        BY <2>1, <2>2 DEF ErredInv
<1>4. UNCHANGED row \/ (\E o \in Orders : Place(o))
      \/ \E i \in Rows : Leave(i) \/ Break(i) \/ Recover(i)
    <2>1. CASE Others \/ UNCHANGED vars
        BY <2>1, OthersUnchanged DEF vars
    <2>2. CASE Ordered
        BY <2>2, Zenon DEF Ordered, Ordering, New, Promote, PickNodeForRegion, Wait, GiveUp
    <2> QED
        BY <2>1, <2>2, NextSplit
<1> QED
    BY <1>1, <1>2, <1>3, <1>4

\* An order that has picked the node goes over to the rows on it, or rows and
\* orders leave the node.
LEMMA CrowdMoves ==
    ASSUME NEW n \in Nodes, CrowdOK(n), NEW x, Placing(n)' \subseteq Placing(n),
           \/ Sound(n)' \subseteq Sound(n)
           \/ /\ Sound(n)' \subseteq Sound(n) \cup {x}
              /\ \E o \in Placing(n) : o \notin Placing(n)'
    PROVE  CrowdOK(n)'
<1> DEFINE a == Cardinality(Sound(n))
           p == Cardinality(Placing(n))
           a1 == Cardinality(Sound(n)')
           p1 == Cardinality(Placing(n)')
           limit == Capacity[n] + Cardinality(Orders)
<1>1. a \in Nat /\ p \in Nat /\ a1 \in Nat /\ p1 \in Nat /\ limit \in Nat
    BY CrowdTypes
<1>2. a + p < limit
    BY DEF CrowdOK
<1>3. (a1 <= a /\ p1 <= p) \/ (a1 <= a + 1 /\ p1 + 1 <= p)
    BY CrowdFinite, CountShrinks, CountGrows
<1>4. a1 + p1 < limit
    <2> HIDE DEF a, p, a1, p1, limit
    <2> QED
        BY <1>1, <1>2, <1>3
<1> QED
    BY <1>4 DEF CrowdOK

LEMMA CrowdPick ==
    ASSUME IInv, NEW o \in Orders, NEW r \in Regions \cup {None},
           NEW t \in Tiers \cup {None}, NEW i \in Rows \cup {None},
           PickNodeForRegion(o, r, t, i), NEW n \in Nodes, CrowdOK(n)
    PROVE  CrowdOK(n)'
<1> DEFINE waits == [IdleOrder EXCEPT !.pc = "wait", !.region = r, !.tier = t]
           picked(m) == [IdleOrder EXCEPT !.pc = "place", !.row = i, !.node = m]
<1>1. waits.pc = "wait" /\ \A m : picked(m).node = m
    BY DEF IdleOrder
<1>2. Sound(n)' = Sound(n)
    BY DEF PickNodeForRegion, On, Sound
<1>3. CASE order' = [order EXCEPT ![o] = waits]
    <2>1. Placing(n)' \subseteq Placing(n)
        BY <1>1, <1>3 DEF Placing, IInv, TypeOK
    <2> QED
        BY <1>2, <2>1, CrowdMoves
<1>4. CASE \E m \in Picked(r, t) : order' = [order EXCEPT ![o] = picked(m)]
    <2>1. PICK m \in Picked(r, t) : order' = [order EXCEPT ![o] = picked(m)]
        BY <1>4
    <2>2. m \in Nodes /\ HasRoom(m)
        BY DEF Picked, Candidates
    <2>3. CASE m # n
        <3>1. Placing(n)' \subseteq Placing(n)
            BY <1>1, <2>1, <2>3 DEF Placing, IInv, TypeOK
        <3> QED
            BY <1>2, <3>1, CrowdMoves
    <2>4. CASE m = n
        <3>1. Cardinality(On(n)) < Capacity[n]
            BY <2>2, <2>4 DEF HasRoom, Active
        <3>2. Cardinality(Sound(n)) <= Cardinality(On(n)) /\ Cardinality(On(n)) \in Nat
            BY CrowdFinite, CountShrinks DEF Sound
        <3>3. Cardinality(Placing(n)') <= Cardinality(Orders)
            <4>1. Placing(n)' \subseteq Orders
                BY DEF Placing
            <4> QED
                BY <4>1, OrdersAssumption, CountShrinks
        <3>4. Cardinality(Sound(n)) + Cardinality(Placing(n)')
                 < Capacity[n] + Cardinality(Orders)
            BY <3>1, <3>2, <3>3, CrowdTypes
        <3> QED
            BY <1>2, <3>4 DEF CrowdOK
    <2> QED
        BY <2>3, <2>4
<1> QED
    BY <1>3, <1>4 DEF PickNodeForRegion

LEMMA CrowdWait ==
    ASSUME IInv, NEW o \in Orders, Wait(o) \/ GiveUp(o), NEW n \in Nodes, CrowdOK(n)
    PROVE  CrowdOK(n)'
<1>1. Sound(n)' = Sound(n)
    BY DEF Wait, GiveUp, On, Sound
<1>2. order[o] \in Order /\ (Wait(o) => order[o].node = None)
    BY DEF IInv, TypeOK, WaitInv, Wait
<1>3. PICK k \in Order : order' = [order EXCEPT ![o] = k] /\ (k.pc = "idle" \/ k.node = None)
    <2>1. IdleOrder \in Order /\ IdleOrder.pc = "idle"
        BY IdleOrderType DEF IdleOrder
    <2>2. Wait(o) => [order[o] EXCEPT !.pc = "place"] \in Order
                     /\ [order[o] EXCEPT !.pc = "place"].node = None
        BY <1>2 DEF Order
    <2> QED
        BY <2>1, <2>2 DEF Wait, GiveUp
<1>4. Placing(n)' \subseteq Placing(n)
    BY <1>3, NoneAssumption DEF Placing, IInv, TypeOK
<1> QED
    BY <1>1, <1>4, CrowdMoves

LEMMA CrowdPlace ==
    ASSUME IInv, NEW o \in Orders, Place(o), NEW n \in Nodes, CrowdOK(n)
    PROVE  CrowdOK(n)'
<1> DEFINE m == order[o].node
           done == [order EXCEPT ![o] = IdleOrder]
<1>1. PICK i \in Rows : /\ \A j \in Rows \ {i} : row'[j] = row[j]
                        /\ row'[i].node = m
    BY PlaceRow DEF IInv
<1>2. /\ n = m => Sound(n)' \subseteq Sound(n) \cup {i}
      /\ n # m => Sound(n)' \subseteq Sound(n)
    BY <1>1 DEF On, Sound
<1>3. /\ done \in [Orders -> Order] /\ done[o].pc = "idle"
      /\ \A p \in Orders \ {o} : done[p] = order[p]
    BY IdleOrderType DEF IdleOrder, IInv, TypeOK
<1>4. order' = done \/ order' = Join(m, done)
    BY DEF Place
<1>5. /\ order'[o].pc = "idle"
      /\ \A p \in Orders \ {o} : order'[p].pc = order[p].pc /\ order'[p].node = order[p].node
    <2> HIDE DEF done
    <2> QED
        BY <1>3, <1>4, JoinType
<1>6. Placing(n)' \subseteq Placing(n) /\ o \notin Placing(n)'
    BY <1>5 DEF Placing
<1>7. n = m => o \in Placing(n)
    BY DEF Placing, Place
<1> HIDE DEF m, done
<1>8. CASE n = m
    <2>1. \E p \in Placing(n) : p \notin Placing(n)'
        BY <1>6, <1>7, <1>8
    <2> QED
        BY <1>2, <1>6, <1>8, <2>1, CrowdMoves
<1>9. CASE n # m
    BY <1>2, <1>6, <1>9, CrowdMoves
<1> QED
    BY <1>8, <1>9

LEMMA CrowdRows ==
    ASSUME IInv, ErredInv, NEW i \in Rows, Leave(i) \/ Break(i) \/ Recover(i),
           NEW n \in Nodes, CrowdOK(n)
    PROVE  CrowdOK(n)'
<1>1. \A j \in Rows \ {i} : row'[j] = row[j]
    BY DEF Leave, Break, Recover, IInv, TypeOK
<1>2. Placing(n)' = Placing(n)
    BY JoinType DEF Leave, Break, Recover, Placing, IInv, TypeOK
<1>3. row'[i].state # "active" \/ row'[i].erred
    BY DEF Leave, Break, Recover, FreeRow, ErredInv, IInv, TypeOK, Row
<1>4. Sound(n)' \subseteq Sound(n)
    BY <1>1, <1>3 DEF On, Sound
<1> QED
    BY <1>2, <1>4, CrowdMoves

LEMMA CrowdOthers ==
    ASSUME Others \/ UNCHANGED vars, NEW n \in Nodes, CrowdOK(n)
    PROVE  CrowdOK(n)'
<1>1. row' = row /\ order' = order
    BY OthersUnchanged DEF vars
<1>2. Sound(n)' = Sound(n) /\ Placing(n)' = Placing(n)
    BY <1>1 DEF On, Sound, Placing
<1> QED
    BY <1>2, CrowdMoves

LEMMA CrowdInit == Init => CrowdInv /\ ErredInv
<1> SUFFICES ASSUME Init PROVE CrowdInv /\ ErredInv
    OBVIOUS
<1>1. ASSUME NEW n \in Nodes PROVE CrowdOK(n)
    <2>1. Sound(n) = {} /\ Placing(n) = {}
        BY DEF Init, On, Sound, Placing, FreeRow, IdleOrder
    <2>2. Cardinality(Sound(n)) = 0 /\ Cardinality(Placing(n)) = 0
        BY <2>1, FS_EmptySet
    <2>3. Cardinality(Orders) # 0
        BY OrdersAssumption, FS_EmptySet
    <2> QED
        BY <2>2, <2>3, CrowdTypes DEF CrowdOK
<1>2. ErredInv
    BY DEF Init, ErredInv, FreeRow
<1> QED
    BY <1>1, <1>2 DEF CrowdInv, CrowdOK

LEMMA CrowdStep ==
    ASSUME IInv, CrowdInv, ErredInv, [Next]_vars
    PROVE  CrowdInv'
<1> SUFFICES ASSUME NEW n \in Nodes PROVE CrowdOK(n)'
    BY DEF CrowdInv, CrowdOK
<1>1. CrowdOK(n)
    BY DEF CrowdInv, CrowdOK
<1>2. CASE Others \/ UNCHANGED vars
    BY <1>1, <1>2, CrowdOthers
<1>3. CASE Ordered
    <2>1. ASSUME NEW o \in Orders, New(o) PROVE CrowdOK(n)'
        BY <1>1, <2>1, CrowdPick DEF New
    <2>2. ASSUME NEW o \in Orders, NEW i \in Rows, Promote(o, i) PROVE CrowdOK(n)'
        <3>1. row[i].region \in Regions \cup {None} /\ row[i].tier \in Tiers \cup {None}
            BY DEF IInv, TypeOK, Row
        <3> QED
            BY <1>1, <2>2, <3>1, CrowdPick DEF Promote
    <2>3. ASSUME NEW o \in Orders, Wait(o) \/ GiveUp(o) PROVE CrowdOK(n)'
        BY <1>1, <2>3, CrowdWait
    <2>4. ASSUME NEW o \in Orders, Place(o) PROVE CrowdOK(n)'
        BY <1>1, <2>4, CrowdPlace
    <2>5. ASSUME NEW i \in Rows, Leave(i) \/ Break(i) \/ Recover(i) PROVE CrowdOK(n)'
        BY <1>1, <2>5, CrowdRows
    <2> QED
        BY <1>3, <2>1, <2>2, <2>3, <2>4, <2>5, Zenon DEF Ordered, Ordering
<1> QED
    BY <1>2, <1>3, NextSplit

\* However many orders meet, the rows on a node that were never in error and the
\* orders about to join them are fewer than its capacity and the orders in progress
\* together (nodes.go:14-19, :33-50).
THEOREM CrowdSafe == Spec => []CrowdInv
    BY CrowdInit, CrowdStep, ErredStep, PlacementSafe, PTL DEF Spec

\* A node is oversold at most by the orders in progress at once but one, and by one
\* more for every row on it that has been in error, and was not counted then
\* (nodes.go:12-19, :33-50).
THEOREM OversoldByMeetings ==
    Spec => [](\A n \in Nodes :
                  Active(n) < Capacity[n] + Cardinality(Orders) + Cardinality(Erred(n)))
<1>1. CrowdInv => \A n \in Nodes :
                     Active(n) < Capacity[n] + Cardinality(Orders) + Cardinality(Erred(n))
    <2> SUFFICES ASSUME CrowdInv, NEW n \in Nodes
                 PROVE  Active(n) < Capacity[n] + Cardinality(Orders) + Cardinality(Erred(n))
        OBVIOUS
    <2>1. On(n) \subseteq Sound(n) \cup Erred(n) /\ IsFiniteSet(Sound(n)) /\ IsFiniteSet(Erred(n))
        BY RowsAssumption, CrowdFinite, FS_Subset DEF On, Sound, Erred
    <2>2. Sound(n) \cap Erred(n) = {}
        BY DEF Sound, Erred
    <2>3. /\ IsFiniteSet(Sound(n) \cup Erred(n))
          /\ Cardinality(Sound(n) \cup Erred(n)) = Cardinality(Sound(n)) + Cardinality(Erred(n))
        <3>1. /\ IsFiniteSet(Sound(n) \cup Erred(n))
              /\ Cardinality(Sound(n) \cup Erred(n))
                    = Cardinality(Sound(n)) + Cardinality(Erred(n)) - Cardinality({})
            BY <2>1, <2>2, FS_Union
        <3>2. /\ Cardinality({}) = 0
              /\ Cardinality(Sound(n)) \in Nat /\ Cardinality(Erred(n)) \in Nat
            BY <2>1, FS_EmptySet, FS_CardinalityType
        <3> QED
            BY <3>1, <3>2
    <2>4. Active(n) \in Nat /\ Active(n) <= Cardinality(Sound(n) \cup Erred(n))
        BY <2>1, <2>3, CountShrinks DEF Active
    <2>5. Cardinality(Erred(n)) \in Nat
        BY <2>1, FS_CardinalityType
    <2> QED
        BY <2>3, <2>4, <2>5, CrowdTypes DEF CrowdInv
<1> QED
    BY <1>1, CrowdSafe, PTL
=============================================================================
