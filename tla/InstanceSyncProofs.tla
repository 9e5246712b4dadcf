-------------------------- MODULE InstanceSyncProofs --------------------------
(* Proofs about InstanceSync: IInv is inductive, and what follows from it. *)
EXTENDS InstanceSync, TLAPS

-----------------------------------------------------------------------------
(* Types.                                                                  *)

LEMMA MeType ==
    ASSUME TypeOK, WorkerInv, Busy
    PROVE  /\ worker.item \in Item /\ Me \in Instances
           /\ row[Me] \in Row /\ vm[Me] \in Vm /\ streak[Me] \in 0..MissLimit
           /\ worker.item.state \in States
    BY DEF TypeOK, WorkerInv, Item, Me

LEMMA SnapshotType ==
    ASSUME row \in [Instances -> Row], NEW i \in Instances
    PROVE  Snapshot(i) \in Item /\ Snapshot(i).id = i
    BY DEF Snapshot, Item, Row

LEMMA IdleWorkerType == IdleWorker \in Worker
    BY DEF IdleWorker, Worker, WorkerSteps

LEMMA GoType ==
    ASSUME worker \in Worker, NEW pc \in WorkerSteps, Go(pc)
    PROVE  /\ worker' \in Worker /\ worker'.pc = pc
           /\ worker'.item = worker.item /\ worker'.todo = worker.todo /\ worker'.srv = worker.srv
    BY DEF Go, Worker

LEMMA NextItemType ==
    ASSUME worker \in Worker, NextItem
    PROVE  worker' \in Worker /\ worker'.pc = "next" /\ worker'.todo = worker.todo
    BY DEF NextItem, Worker, WorkerSteps

LEMMA FaultType ==
    ASSUME faults \in 0..MaxFaults, NEW kind, Fault(kind)
    PROVE  faults' \in faults..MaxFaults /\ faults' # 0 /\ kind \in Events
    BY BoundAssumption DEF Fault

\* Faults are not forgotten.
LEMMA RemembersLess ==
    ASSUME faults \in 0..MaxFaults, faults' \in faults..MaxFaults
    PROVE  Remembers' => Remembers
    BY BoundAssumption DEF Remembers

LEMMA UpToType ==
    ASSUME NEW n \in Nat
    PROVE  UpTo(n) \in 0..MissLimit /\ UpTo(n) <= n /\ (n <= MissLimit => UpTo(n) = n)
           /\ (n >= MissLimit => UpTo(n) = MissLimit)
    BY BoundAssumption DEF UpTo

\* Row i gets another count and state, its address or its provision error may
\* change, and nothing else does.
Rewritten(i, n, s) ==
    /\ row' \in [Instances -> Row]
    /\ row'[i].miss = n /\ row'[i].state = s
    /\ row'[i].blocked = row[i].blocked /\ row'[i].hold = row[i].hold /\ row'[i].badId = row[i].badId
    /\ \A j \in Instances \ {i} : row'[j] = row[j]

LEMMA SetMiss ==
    ASSUME row \in [Instances -> Row], NEW i \in Instances, NEW n \in 0..MissLimit,
           SetRow(i, "miss", n)
    PROVE  Rewritten(i, n, row[i].state)
    BY DEF SetRow, Row, Rewritten

LEMMA SetState_ ==
    ASSUME row \in [Instances -> Row], NEW i \in Instances, NEW s \in States,
           SetRow(i, "state", s)
    PROVE  Rewritten(i, row[i].miss, s)
    BY DEF SetRow, Row, Rewritten

LEMMA SetFlag ==
    ASSUME row \in [Instances -> Row], NEW i \in Instances, NEW b \in BOOLEAN,
           SetRow(i, "ip", b) \/ SetRow(i, "provErr", b)
    PROVE  Rewritten(i, row[i].miss, row[i].state)
    BY DEF SetRow, Row, Rewritten

LEMMA SetBoth ==
    ASSUME row \in [Instances -> Row], NEW i \in Instances, NEW s \in States, NEW b \in BOOLEAN,
           row' = [row EXCEPT ![i].state = s, ![i].ip = b]
    PROVE  Rewritten(i, row[i].miss, s)
    BY DEF Row, Rewritten

LEMMA SameRow ==
    ASSUME row \in [Instances -> Row], NEW i \in Instances, row' = row
    PROVE  Rewritten(i, row[i].miss, row[i].state)
    BY DEF Rewritten

-----------------------------------------------------------------------------
(* The sync pass.                                                          *)

\* What a step of the worker may do to what it shares with the requests.
WorkerShares ==
    /\ req' = req /\ destroy' = destroy /\ unread' = unread
    /\ row' \in [Instances -> Row] /\ vm' \in [Instances -> Vm]
    /\ \A i \in Instances :
          /\ Exists(i)' = Exists(i)
          /\ On(vm[i]) \/ ~On(vm'[i])
          /\ row'[i].blocked = row[i].blocked /\ row'[i].hold = row[i].hold
          /\ row'[i].badId = row[i].badId
          /\ row'[i].state = "creating" => row[i].state = "creating"
          /\ row'[i].state = "deleted" => row[i].state = "deleted"

\* What it makes of its own state.
WorkerHas ==
    /\ worker' \in Worker /\ faults' \in faults..MaxFaults
    /\ streak' \in [Instances -> 0..MissLimit]
    /\ WorkerInv' /\ MissInv'
    /\ \A item \in worker'.todo : row'[item.id].state # "creating"
    /\ Busy' => row'[Me'].state # "creating"

LEMMA Shares ==
    ASSUME IInv, NEW i \in Instances, NEW n, NEW s, Rewritten(i, n, s),
           row[i].state # "creating", s # "creating", s = "deleted" => row[i].state = "deleted",
           UNCHANGED <<vm, req, destroy, unread>>
    PROVE  /\ WorkerShares
           /\ \A j \in Instances : row'[j].state = "creating" => row[j].state = "creating"
    BY DEF WorkerShares, Rewritten, IInv, TypeOK, Exists

LEMMA SharesNothing ==
    ASSUME IInv, UNCHANGED <<row, vm, req, destroy, unread>>
    PROVE  WorkerShares
    BY DEF WorkerShares, IInv, TypeOK, Exists

\* The pass begins and ends.
LEMMA BatchStep ==
    ASSUME IInv, ListRows \/ EndPass \/ WorkerCrash
    PROVE  WorkerShares /\ WorkerHas
<1>1. WorkerShares
    BY SharesNothing DEF ListRows, EndPass, WorkerCrash
<1>2. UNCHANGED <<row, streak>> /\ faults' \in faults..MaxFaults
    <2>1. UNCHANGED <<row, streak>> /\ (faults' = faults \/ Fault("crash"))
        BY Zenon DEF ListRows, EndPass, WorkerCrash
    <2> QED
        BY <2>1, FaultType DEF IInv, TypeOK
<1>3. worker' \in Worker /\ worker'.pc \in {"idle", "next"}
      /\ \A item \in worker'.todo : row[item.id].state # "creating"
    <2>1. CASE ListRows
        <3>0. PICK rows \in SUBSET Listed :
                worker' = [IdleWorker EXCEPT !.pc = "next", !.todo = {Snapshot(i) : i \in rows}]
            BY <2>1 DEF ListRows
        <3> DEFINE batch == {Snapshot(i) : i \in rows}
                   w == [IdleWorker EXCEPT !.pc = "next", !.todo = batch]
        <3>1. batch \subseteq Item /\ \A item \in batch : row[item.id].state # "creating"
            BY SnapshotType DEF Listed, IInv, TypeOK
        <3> HIDE DEF batch
        <3>2. w \in Worker /\ w.pc = "next" /\ w.todo = batch
            BY <3>1 DEF IdleWorker, Worker, WorkerSteps
        <3> QED
            BY <3>0, <3>1, <3>2 DEF batch
    <2>2. CASE EndPass \/ WorkerCrash
        BY <2>2, IdleWorkerType DEF EndPass, WorkerCrash, IdleWorker
    <2> QED
        BY <2>1, <2>2
<1>4. ~Remembers' \/ \A i \in Instances : ~At(i, "clear") /\ ~At(i, "miss")
    <2>1. CASE WorkerCrash
        BY <2>1, FaultType DEF WorkerCrash, Remembers, IInv, TypeOK
    <2>2. CASE ListRows \/ EndPass
        BY <2>2 DEF ListRows, EndPass, At
    <2> QED
        BY <2>1, <2>2
<1>5. MissInv'
    BY <1>2, <1>3, <1>4, RemembersLess DEF MissInv, Counted, IInv, TypeOK, At
<1> QED
    BY <1>1, <1>2, <1>3, <1>5 DEF WorkerHas, WorkerInv, Busy, IInv, TypeOK

\* What is to be shown of the steps that work on an item.
LEMMA ItemStep ==
    ASSUME IInv, Busy, NEW n \in 0..MissLimit, NEW s \in States, Rewritten(Me, n, s),
           row[Me].state # "creating", s # "creating",
           worker' \in Worker, worker'.todo = worker.todo,
           worker'.pc = "next" \/ (worker'.item = worker.item /\ worker'.pc # "idle"),
           WorkerInv', faults' \in faults..MaxFaults,
           streak' \in [Instances -> 0..MissLimit],
           \A j \in Instances \ {Me} : streak'[j] = streak[j],
           Remembers' =>
              /\ \/ worker'.pc = "clear"
                 \/ UpTo(n + (IF worker'.pc = "miss" THEN 1 ELSE 0)) <= streak'[Me]
              /\ worker'.pc = "orphan" => row[Me].badId \/ streak'[Me] = MissLimit,
           worker'.pc \in {"miss", "orphan"} => row[Me].badId \/ streak'[Me] # 0
    PROVE  WorkerHas
<1> DEFINE me == Me
<1>1. me \in Instances
    BY MeType DEF IInv
<1>2. /\ row'[me].miss = n /\ row'[me].state = s /\ row'[me].badId = row[me].badId
      /\ \A j \in Instances \ {me} : row'[j] = row[j]
    BY DEF Rewritten
<1>3. worker'.pc # "next" => Me' = me
    BY DEF Me
<1>4. \A i \in Instances : row[i].state # "creating" => row'[i].state # "creating"
    BY <1>1, <1>2
<1>5. \A item \in worker'.todo : row'[item.id].state # "creating"
    BY <1>4 DEF IInv, HeldInv, TypeOK, Worker, Item
<1>6. Busy' => row'[Me'].state # "creating"
    BY <1>2, <1>3 DEF Busy
<1>7. worker'.pc \in {"miss", "orphan"} => row'[Me'].badId \/ streak'[Me'] # 0
    BY <1>2, <1>3
<1>8. MissInv'
    <2> SUFFICES ASSUME Remembers' PROVE MissInv'
        BY <1>7 DEF MissInv
    <2>0. Remembers
        BY RemembersLess DEF IInv, TypeOK
    <2>1. ASSUME NEW i \in Instances, i # me
          PROVE  Counted(i)'
        <3>1. ~At(i, "clear") /\ ~At(i, "miss")
            BY <2>1 DEF At
        <3>2. UpTo(row[i].miss + 0) <= streak[i]
            BY <2>0, <3>1 DEF IInv, MissInv, Counted
        <3>3. ~At(i, "miss")'
            BY <2>1, <1>3 DEF At
        <3>4. UpTo(row'[i].miss + 0) <= streak'[i]
            BY <1>2, <2>1, <3>2
        <3> QED
            BY <3>3, <3>4 DEF Counted
    <2>2. ASSUME NEW i \in Instances, i = me
          PROVE  Counted(i)'
        <3>1. CASE worker'.pc = "clear"
            BY <2>2, <3>1, <1>3 DEF At, Counted
        <3>2. CASE worker'.pc # "clear"
            <4>1. At(i, "miss")' <=> worker'.pc = "miss"
                BY <2>2, <1>3 DEF At
            <4>2. UpTo(row'[i].miss + (IF worker'.pc = "miss" THEN 1 ELSE 0)) <= streak'[i]
                BY <2>2, <3>2, <1>2
            <4> QED
                BY <4>1, <4>2 DEF Counted
        <3> QED
            BY <3>1, <3>2
    <2>3. worker'.pc = "orphan" => row'[Me'].badId \/ streak'[Me'] = MissLimit
        BY <1>2, <1>3
    <2> HIDE DEF me
    <2>4. \A i \in Instances : Counted(i)'
        BY <2>1, <2>2
    <2> QED
        BY <1>7, <2>3, <2>4 DEF MissInv
<1> QED
    BY <1>5, <1>6, <1>8 DEF WorkerHas

LEMMA NextRowStep ==
    ASSUME IInv, NextRow
    PROVE  WorkerShares /\ WorkerHas
<1>1. WorkerShares
    BY SharesNothing DEF NextRow
<1>2. PICK item \in worker.todo :
        worker' = [worker EXCEPT !.todo = @ \ {item}, !.item = item,
                                 !.pc = IF row[item.id].badId THEN "orphan" ELSE "get"]
    BY DEF NextRow
<1>3. item \in Item /\ item.id \in Instances /\ row[item.id].state # "creating"
    BY DEF IInv, TypeOK, Worker, Item, HeldInv
<1>4. /\ worker' \in Worker /\ worker'.item = item
      /\ worker'.todo = worker.todo \ {item}
      /\ worker'.pc = IF row[item.id].badId THEN "orphan" ELSE "get"
    BY <1>2, <1>3 DEF IInv, TypeOK, Worker, WorkerSteps
<1>5. UNCHANGED <<row, streak, faults>> /\ worker.pc = "next"
    BY DEF NextRow
<1>6. WorkerInv'
    BY <1>3, <1>4 DEF WorkerInv
<1>7. MissInv'
    <2>1. \A i \in Instances : ~At(i, "clear") /\ ~At(i, "miss") /\ ~At(i, "miss")'
        BY <1>4, <1>5 DEF At
    <2> QED
        BY <2>1, <1>3, <1>4, <1>5 DEF MissInv, Counted, IInv, Me, At, Remembers
<1> QED
    BY <1>1, <1>3, <1>4, <1>5, <1>6, <1>7 DEF WorkerHas, IInv, TypeOK, HeldInv, Busy, Me

LEMMA GetStep ==
    ASSUME IInv, GetFound \/ GetMissing
    PROVE  WorkerShares /\ WorkerHas
<1> DEFINE me == Me
<1>1. worker.pc = "get" /\ Busy /\ UNCHANGED <<row, vm, req, destroy, faults, unread>>
    BY DEF GetFound, GetMissing, Busy
<1>2. /\ me \in Instances /\ row[me] \in Row /\ vm[me] \in Vm /\ row[me].state # "creating"
      /\ row[me].miss \in 0..MissLimit /\ row[me].state \in States
      /\ streak \in [Instances -> 0..MissLimit] /\ worker \in Worker
    BY <1>1, MeType DEF IInv, HeldInv, Row, TypeOK
<1>3. WorkerShares
    BY <1>1, SharesNothing
<1>4. Rewritten(me, row[me].miss, row[me].state)
    BY <1>1, <1>2, SameRow DEF IInv, TypeOK
<1>5. CASE GetFound
    <2>1. /\ worker' \in Worker /\ worker'.pc = "clear" /\ worker'.srv = vm[me]
          /\ worker'.item = worker.item /\ worker'.todo = worker.todo
        BY <1>2, <1>5 DEF GetFound, Worker, WorkerSteps
    <2>2. /\ streak' \in [Instances -> 0..MissLimit]
          /\ \A j \in Instances \ {me} : streak'[j] = streak[j]
        BY <1>2, <1>5, BoundAssumption DEF GetFound
    <2>3. WorkerInv'
        BY <1>1, <1>2, <1>5, <2>1 DEF WorkerInv, IInv, GetFound, Exists, Busy
    <2> QED
        BY <1>1, <1>2, <1>3, <1>4, <2>1, <2>2, <2>3, ItemStep DEF IInv, TypeOK
<1>6. CASE GetMissing
    <2>1. /\ worker' \in Worker /\ worker'.pc = "miss"
          /\ worker'.item = worker.item /\ worker'.todo = worker.todo
        BY <1>2, <1>6, GoType DEF GetMissing, WorkerSteps
    <2>2. streak' = [streak EXCEPT ![me] = UpTo(streak[me] + 1)]
        BY <1>6 DEF GetMissing
    <2>3. UpTo(streak[me] + 1) \in 0..MissLimit
        BY <1>2, UpToType, BoundAssumption
    <2>4. /\ streak' \in [Instances -> 0..MissLimit]
          /\ streak'[me] = UpTo(streak[me] + 1)
          /\ \A j \in Instances \ {me} : streak'[j] = streak[j]
        BY <1>2, <2>2, <2>3
    <2>5. WorkerInv'
        BY <1>1, <2>1 DEF WorkerInv, IInv, Busy
    <2>6. Remembers' => UpTo(row[me].miss + 1) <= streak'[me]
        <3>1. ~At(me, "clear") /\ ~At(me, "miss")
            BY <1>1 DEF At
        <3>2. Remembers' => UpTo(row[me].miss + 0) <= streak[me]
            BY <1>1, <1>2, <3>1 DEF IInv, MissInv, Counted, Remembers
        <3> QED
            BY <1>2, <2>4, <3>2, BoundAssumption DEF UpTo
    <2>7. streak'[me] # 0
        BY <1>2, <2>4, BoundAssumption DEF UpTo
    <2> QED
        BY <1>1, <1>2, <1>3, <1>4, <2>1, <2>4, <2>5, <2>6, <2>7, ItemStep DEF IInv, TypeOK
<1> QED
    BY <1>5, <1>6

\* The item is left, or gone on with, and the counts stay as they are.
LEMMA PlainStep ==
    ASSUME IInv, Busy, worker.pc \notin {"clear", "miss"}, NEW s \in States, s # "creating",
           Rewritten(Me, row[Me].miss, s), UNCHANGED streak, faults' \in faults..MaxFaults,
           \/ NextItem
           \/ Go("refund")
           \/ worker.pc \in {"poweroff", "verify"} /\ (Go("verify") \/ Go("stopped"))
    PROVE  WorkerHas
<1> DEFINE me == Me
<1>1. /\ me \in Instances /\ row[me] \in Row /\ row[me].state # "creating"
      /\ row[me].miss \in 0..MissLimit /\ worker \in Worker
      /\ streak \in [Instances -> 0..MissLimit]
    BY MeType DEF IInv, HeldInv, Row, TypeOK
<1>2. /\ worker' \in Worker /\ worker'.todo = worker.todo
      /\ \/ worker'.pc = "next"
         \/ /\ worker'.item = worker.item /\ worker'.srv = worker.srv
            /\ \/ worker'.pc = "refund"
               \/ worker.pc \in {"poweroff", "verify"} /\ worker'.pc \in {"verify", "stopped"}
    BY <1>1, NextItemType, GoType DEF WorkerSteps
<1>3. WorkerInv'
    BY <1>2 DEF WorkerInv, IInv, Busy
<1>4. Remembers' => UpTo(row[me].miss + 0) <= streak[me]
    <2>1. ~At(me, "clear") /\ ~At(me, "miss")
        BY DEF At
    <2> QED
        BY <1>1, <2>1, RemembersLess DEF IInv, TypeOK, MissInv, Counted
<1>5. worker'.pc \notin {"idle", "miss", "orphan"}
    BY <1>2
<1> HIDE DEF me
<1>6. Rewritten(Me, row[Me].miss, s) /\ row[Me].state # "creating" /\ row[Me].miss \in 0..MissLimit
      /\ streak' \in [Instances -> 0..MissLimit]
      /\ \A j \in Instances \ {Me} : streak'[j] = streak[j]
    BY <1>1 DEF me
<1>7. Remembers' =>
              /\ \/ worker'.pc = "clear"
                 \/ UpTo(row[Me].miss + (IF worker'.pc = "miss" THEN 1 ELSE 0)) <= streak'[Me]
              /\ worker'.pc = "orphan" => row[Me].badId \/ streak'[Me] = MissLimit
    BY <1>4, <1>5 DEF me
<1> QED
    BY <1>2, <1>3, <1>5, <1>6, <1>7, ItemStep

\* The steps that write nothing but the worker's own state.
LEMMA ReadStep ==
    ASSUME IInv, Refund \/ Verify \/ (StepFails /\ worker.pc # "miss")
    PROVE  WorkerShares /\ WorkerHas
<1>1. /\ Busy /\ worker.pc \notin {"clear", "miss"}
      /\ UNCHANGED <<row, vm, req, destroy, streak, unread>>
      /\ NextItem \/ (worker.pc = "verify" /\ Go("stopped"))
    BY DEF Refund, Verify, StepFails, Busy
<1>2. faults' \in faults..MaxFaults
    BY FaultType DEF Refund, Verify, StepFails, IInv, TypeOK
<1>3. Me \in Instances /\ row[Me].state \in States /\ row[Me].state # "creating"
    BY <1>1, MeType DEF IInv, HeldInv, Row
<1>4. Rewritten(Me, row[Me].miss, row[Me].state)
    BY <1>1, <1>3, SameRow DEF IInv, TypeOK
<1> QED
    BY <1>1, <1>2, <1>3, <1>4, PlainStep, SharesNothing

LEMMA PowerOffStep ==
    ASSUME IInv, PowerOff
    PROVE  WorkerShares /\ WorkerHas
<1> DEFINE me == Me
<1>1. Busy /\ worker.pc = "poweroff" /\ Go("verify") /\ UNCHANGED <<row, req, destroy, faults, streak, unread>>
    BY DEF PowerOff, Busy
<1>2. me \in Instances /\ row[me].state \in States /\ row[me].state # "creating" /\ vm[me] \in Vm
    BY <1>1, MeType DEF IInv, HeldInv, Row
<1>3. Rewritten(me, row[me].miss, row[me].state)
    BY <1>1, <1>2, SameRow DEF IInv, TypeOK
<1>4. vm' = IF On(vm[me]) THEN [vm EXCEPT ![me].power = "off"] ELSE vm
    BY DEF PowerOff
<1>5. vm' \in [Instances -> Vm] /\ \A i \in Instances : Exists(i)' = Exists(i) /\ (On(vm[i]) \/ ~On(vm'[i]))
    BY <1>2, <1>4 DEF IInv, TypeOK, Vm, On, Exists
<1>6. WorkerShares
    BY <1>1, <1>5 DEF WorkerShares, IInv, TypeOK
<1>7. WorkerHas
    BY <1>1, <1>2, <1>3, PlainStep DEF IInv, TypeOK
<1> QED
    BY <1>6, <1>7

\* The state or the address of the row is written.
LEMMA WriteStep ==
    ASSUME IInv, ClearIP \/ MarkStopped \/ Heal \/ Update
    PROVE  WorkerShares /\ WorkerHas
<1> DEFINE me == Me
<1>1. Busy /\ worker.pc \notin {"clear", "miss"} /\ NextItem /\ UNCHANGED <<vm, req, destroy, faults, streak, unread>>
    BY DEF ClearIP, MarkStopped, Heal, Update, Busy
<1>2. /\ me \in Instances /\ row[me].state \in States /\ row[me].state # "creating"
      /\ row \in [Instances -> Row]
    BY <1>1, MeType DEF IInv, HeldInv, Row, TypeOK
<1>3. \E s \in States : /\ s = row[me].state \/ s \notin {"creating", "deleted"}
                        /\ Rewritten(me, row[me].miss, s)
    <2>1. CASE ClearIP
        BY <1>2, <2>1, SetFlag, SameRow DEF ClearIP
    <2>2. CASE MarkStopped
        BY <1>2, <2>2, SetState_ DEF MarkStopped, States
    <2>3. CASE Heal
        BY <1>2, <2>3, SetFlag DEF Heal
    <2>4. CASE Update
        <3>1. worker.srv.power \in {"on", "off", "err"} /\ worker.srv.ip \in BOOLEAN
            BY <2>4 DEF Update, IInv, WorkerInv, Vm
        <3>2. \A s \in MapServerState(worker.srv) : s \in {"running", "stopped", "error"}
            BY <3>1 DEF MapServerState
        <3>3. PICK s \in {"running", "stopped", "error"} :
                row' = [row EXCEPT ![me].state = s, ![me].ip = worker.srv.ip]
            BY <2>4, <3>2 DEF Update
        <3>4. s \in States
            BY DEF States
        <3> QED
            BY <1>2, <3>1, <3>3, <3>4, SetBoth
    <2> QED
        BY <2>1, <2>2, <2>3, <2>4
<1>4. PICK s \in States : /\ s = row[me].state \/ s \notin {"creating", "deleted"}
                          /\ Rewritten(me, row[me].miss, s)
    BY <1>3
<1>5. WorkerHas
    BY <1>1, <1>2, <1>4, PlainStep DEF IInv, TypeOK
<1>6. WorkerShares
    BY <1>1, <1>2, <1>4, Shares
<1> QED
    BY <1>5, <1>6

LEMMA OrphanStep ==
    ASSUME IInv, MarkOrphaned
    PROVE  WorkerShares /\ WorkerHas
<1> DEFINE me == Me
<1>1. /\ Busy /\ worker.pc \notin {"clear", "miss"} /\ (NextItem \/ Go("refund"))
      /\ UNCHANGED <<vm, req, destroy, faults, streak, unread>>
    BY DEF MarkOrphaned, Busy
<1>2. /\ me \in Instances /\ row[me].state \in States /\ row[me].state # "creating"
      /\ row \in [Instances -> Row]
    BY <1>1, MeType DEF IInv, HeldInv, Row, TypeOK
<1>3. \E s \in States : /\ s = row[me].state \/ s \notin {"creating", "deleted"}
                        /\ Rewritten(me, row[me].miss, s)
    BY <1>2, SetState_, SameRow DEF MarkOrphaned, States
<1>4. PICK s \in States : /\ s = row[me].state \/ s \notin {"creating", "deleted"}
                          /\ Rewritten(me, row[me].miss, s)
    BY <1>3
<1>5. WorkerHas
    BY <1>1, <1>2, <1>4, PlainStep DEF IInv, TypeOK
<1>6. WorkerShares
    BY <1>1, <1>2, <1>4, Shares
<1> QED
    BY <1>5, <1>6

\* A miss is counted, or its counting fails.
LEMMA MissStep ==
    ASSUME IInv, CountMiss \/ (StepFails /\ worker.pc = "miss")
    PROVE  WorkerShares /\ WorkerHas
<1> DEFINE me == Me
<1>1. Busy /\ worker.pc = "miss" /\ UNCHANGED <<vm, req, destroy, streak, unread>>
    BY DEF CountMiss, StepFails, Busy
<1>2. /\ me \in Instances /\ row[me] \in Row /\ row[me].state \in States
      /\ row[me].state # "creating" /\ row[me].miss \in 0..MissLimit
      /\ row \in [Instances -> Row] /\ worker \in Worker
      /\ streak \in [Instances -> 0..MissLimit]
    BY <1>1, MeType DEF IInv, HeldInv, Row, TypeOK
<1>3. faults' \in faults..MaxFaults
    BY FaultType DEF CountMiss, StepFails, IInv, TypeOK
<1>4. row[me].badId \/ streak[me] # 0
    BY <1>1 DEF IInv, MissInv
<1>5. Remembers' => UpTo(row[me].miss + 1) <= streak[me]
    <2>1. At(me, "miss") /\ ~At(me, "clear")
        BY <1>1 DEF At
    <2> QED
        BY <1>2, <1>3, <2>1, RemembersLess DEF IInv, TypeOK, MissInv, Counted
<1>6. row[me].miss + 1 \in Nat /\ UpTo(row[me].miss + 1) \in 0..MissLimit
    BY <1>2, UpToType, BoundAssumption
<1>7. CASE CountMiss
    <2>1. Rewritten(me, UpTo(row[me].miss + 1), row[me].state)
        BY <1>2, <1>6, <1>7, SetMiss DEF CountMiss
    <2>2. /\ worker' \in Worker /\ worker'.todo = worker.todo
          /\ \/ worker'.pc = "next"
             \/ /\ worker'.item = worker.item /\ worker'.pc = "orphan"
                /\ row[me].miss + 1 >= MissLimit
        BY <1>2, <1>7, NextItemType, GoType DEF CountMiss, WorkerSteps
    <2>3. WorkerInv'
        BY <1>1, <2>2 DEF WorkerInv, Busy, IInv
    <2>4. WorkerShares
        BY <1>1, <1>2, <2>1, Shares DEF WorkerShares
    <2>5. Remembers' =>
              /\ UpTo(UpTo(row[me].miss + 1) + 0) <= streak[me]
              /\ worker'.pc = "orphan" => streak[me] = MissLimit
        BY <1>2, <1>5, <1>6, <2>2, UpToType, BoundAssumption DEF UpTo
    <2> HIDE DEF me
    <2>6. /\ \A j \in Instances \ {me} : streak'[j] = streak[j]
          /\ streak' \in [Instances -> 0..MissLimit] /\ streak'[me] = streak[me]
          /\ worker'.pc # "miss"
        BY <1>1, <1>2, <2>2
    <2>7. Remembers' =>
              /\ \/ worker'.pc = "clear"
                 \/ UpTo(UpTo(row[me].miss + 1) + (IF worker'.pc = "miss" THEN 1 ELSE 0)) <= streak'[me]
              /\ worker'.pc = "orphan" => row[me].badId \/ streak'[me] = MissLimit
        BY <2>5, <2>6
    <2>8. WorkerHas
        BY <1>1, <1>2, <1>3, <1>6, <1>4, <2>1, <2>2, <2>3, <2>6, <2>7, ItemStep DEF me
    <2> QED
        BY <2>4, <2>8
<1>8. CASE StepFails
    <2>1. row' = row /\ NextItem
        BY <1>1, <1>8 DEF StepFails
    <2>2. Rewritten(me, row[me].miss, row[me].state)
        BY <1>2, <2>1, SameRow
    <2>3. worker' \in Worker /\ worker'.todo = worker.todo /\ worker'.pc = "next"
        BY <1>2, <2>1, NextItemType
    <2>4. WorkerInv'
        BY <2>3 DEF WorkerInv, Busy
    <2>5. Remembers' => UpTo(row[me].miss + 0) <= streak[me]
        BY <1>2, <1>5, BoundAssumption DEF UpTo
    <2>6. WorkerHas
        BY <1>1, <1>2, <1>3, <2>2, <2>3, <2>4, <2>5, ItemStep
    <2> QED
        BY <1>1, <2>1, <2>6, SharesNothing
<1> QED
    BY <1>7, <1>8

LEMMA ClearStep ==
    ASSUME IInv, ClearMiss
    PROVE  WorkerShares /\ WorkerHas
<1> DEFINE me == Me
<1>1. Busy /\ worker.pc = "clear" /\ Decide /\ UNCHANGED <<vm, req, destroy, streak, unread>>
    BY DEF ClearMiss, Busy
<1>2. /\ me \in Instances /\ row[me] \in Row /\ row[me].state \in States
      /\ row[me].state # "creating" /\ row[me].miss \in 0..MissLimit
      /\ row \in [Instances -> Row] /\ worker \in Worker
      /\ streak \in [Instances -> 0..MissLimit]
    BY <1>1, MeType DEF IInv, HeldInv, Row, TypeOK
<1>3. faults' \in faults..MaxFaults
    BY FaultType DEF ClearMiss, IInv, TypeOK
<1>4. Decision(worker.item, worker.srv) \in {"next", "clearip", "poweroff", "heal", "update"}
    BY DEF Decision
<1>5. /\ worker' \in Worker /\ worker'.todo = worker.todo
      /\ \/ worker'.pc = "next"
         \/ /\ worker'.item = worker.item /\ worker'.srv = worker.srv
            /\ worker'.pc \in {"clearip", "poweroff", "heal", "update"}
    BY <1>1, <1>2, <1>4, NextItemType, GoType DEF Decide, WorkerSteps
<1>6. WorkerInv'
    BY <1>1, <1>5 DEF WorkerInv, IInv, Busy
<1>7. PICK n \in 0..MissLimit : /\ Rewritten(me, n, row[me].state)
                                /\ n = 0 \/ ~Remembers'
    <2>1. CASE SetRow(me, "miss", 0)
        <3>1. 0 \in 0..MissLimit
            BY BoundAssumption
        <3> QED
            BY <1>2, <2>1, <3>1, SetMiss
    <2>2. CASE Fault("clearerror") /\ UNCHANGED row
        BY <1>2, <2>2, SameRow, FaultType DEF Remembers, IInv, TypeOK
    <2> QED
        BY <2>1, <2>2 DEF ClearMiss
<1> DEFINE st == row[me].state
<1> HIDE DEF st, me
<1>st. me \in Instances /\ Rewritten(me, n, st) /\ st \in States /\ st # "creating"
      /\ row[me].state = st /\ n \in 0..MissLimit
    BY <1>2, <1>7 DEF st, me
<1>8. WorkerShares
    <2>1. UNCHANGED <<vm, req, destroy, unread>>
        BY <1>1 DEF me
    <2> QED
        BY <1>st, <2>1, Shares
<1>9. /\ \A j \in Instances \ {me} : streak'[j] = streak[j]
      /\ streak' \in [Instances -> 0..MissLimit]
      /\ worker'.pc \notin {"miss", "orphan", "idle"}
    BY <1>1, <1>2, <1>5
<1>10. Remembers' => UpTo(n + 0) <= streak'[me]
    BY <1>2, <1>7, <1>9, BoundAssumption DEF UpTo
<1>11. Remembers' =>
          /\ \/ worker'.pc = "clear"
             \/ UpTo(n + (IF worker'.pc = "miss" THEN 1 ELSE 0)) <= streak'[me]
          /\ worker'.pc = "orphan" => row[me].badId \/ streak'[me] = MissLimit
    BY <1>9, <1>10
<1>12. WorkerHas
    BY <1>1, <1>st, <1>3, <1>5, <1>6, <1>9, <1>11, ItemStep DEF me
<1> QED
    BY <1>8, <1>12

LEMMA WorkerStep ==
    ASSUME IInv, Pass \/ WorkerCrash
    PROVE  WorkerShares /\ WorkerHas
    BY BatchStep, NextRowStep, GetStep, MissStep, ReadStep, PowerOffStep, WriteStep, OrphanStep,
       ClearStep, Zenon DEF Pass

LEMMA WorkerKeeps ==
    ASSUME IInv, WorkerShares, WorkerHas
    PROVE  IInv'
<1>1. TypeOK'
    BY DEF IInv, TypeOK, WorkerShares, WorkerHas
<1>2. HeldInv'
    BY DEF IInv, HeldInv, WorkerShares, WorkerHas
<1>3. \A i \in Instances : Gone(i) => Gone(i)'
    BY DEF Gone, WorkerShares
<1>4. GoneInv'
    BY <1>3 DEF IInv, GoneInv, HeldInv, WorkerShares
<1>5. BlockInv'
    <2>1. \A h \in Requests : req[h].pc # "idle" =>
             /\ row'[req[h].id].blocked = row[req[h].id].blocked
             /\ row'[req[h].id].hold = row[req[h].id].hold
        BY DEF IInv, HeldInv, WorkerShares
    <2>2. req' = req
        BY DEF WorkerShares
    <2> QED
        BY <2>1, <2>2 DEF IInv, BlockInv
<1> QED
    BY <1>1, <1>2, <1>4, <1>5 DEF IInv, WorkerHas

-----------------------------------------------------------------------------
(* The requests.                                                           *)

RowsKeep == /\ row' \in [Instances -> Row]
            /\ \A i \in Instances :
                  /\ row'[i].miss = row[i].miss /\ row'[i].badId = row[i].badId
                  /\ row'[i].blocked = row[i].blocked /\ row'[i].hold = row[i].hold
                  /\ row[i].state # "creating" => row'[i].state # "creating"

\* Nobody but the worker counts.
LEMMA OthersKeep ==
    ASSUME IInv, UNCHANGED <<worker, streak>>, faults' \in faults..MaxFaults,
           \A i \in Instances :
              /\ row'[i].miss = row[i].miss
              /\ row[i].state # "creating" =>
                    row'[i].state # "creating" /\ row'[i].badId = row[i].badId
    PROVE  /\ WorkerInv' /\ MissInv'
           /\ \A item \in worker'.todo : row'[item.id].state # "creating"
           /\ Busy' => row'[Me'].state # "creating"
<1>1. WorkerInv'
    BY DEF IInv, WorkerInv, Busy
<1>2. Me' = Me /\ Busy' = Busy
    BY DEF Me, Busy
<1>3. Busy => Me \in Instances
    BY MeType DEF IInv
<1>4. \A i \in Instances : Counted(i) => Counted(i)'
    BY <1>2 DEF Counted, At
<1>5. worker.pc \in {"miss", "orphan"} => row'[Me'].badId = row[Me].badId
    BY <1>2, <1>3 DEF IInv, HeldInv, Busy
<1>6. MissInv'
    BY <1>2, <1>4, <1>5, RemembersLess DEF IInv, TypeOK, MissInv
<1>7. \A item \in worker'.todo : row'[item.id].state # "creating"
    BY DEF IInv, HeldInv, TypeOK, Worker, Item
<1> QED
    BY <1>1, <1>2, <1>3, <1>6, <1>7 DEF IInv, HeldInv

LEMMA RequestKeeps ==
    ASSUME IInv, NEW h \in Requests, NEW r \in Request, SetReq(h, r),
           UNCHANGED <<worker, streak>>, RowsKeep,
           vm' \in [Instances -> Vm], destroy' \subseteq Instances, faults' \in faults..MaxFaults,
           unread' \subseteq Instances,
           \A i \in Instances : Gone(i) => Gone(i)',
           \A i \in Instances : row'[i].state = "deleted" => row[i].state = "deleted" \/ Gone(i)',
           r.pc # "idle" => /\ r.id \in Instances /\ r.action \in AllActions
                            /\ row[r.id].state # "creating",
           r.pc = "set" /\ r.action = "delete" => Gone(r.id)',
           r.pc = "check" /\ row[r.id].blocked => r.blocked \/ r.overtaken,
           r.pc = "power" /\ r.action \in {"start", "reboot"} /\ (row[r.id].blocked \/ row[r.id].hold)
              => r.overtaken \/ (r.unchecked /\ ~r.blocked),
           r.pc = "power" => r.action # "delete"
    PROVE  IInv'
<1>1. /\ req' \in [Requests -> Request] /\ req'[h] = r
      /\ \A p \in Requests \ {h} : req'[p] = req[p]
    BY DEF SetReq, IInv, TypeOK
<1>2. TypeOK'
    BY <1>1 DEF IInv, TypeOK, RowsKeep
<1>3. /\ WorkerInv' /\ MissInv'
      /\ \A item \in worker'.todo : row'[item.id].state # "creating"
      /\ Busy' => row'[Me'].state # "creating"
    BY OthersKeep DEF RowsKeep
<1>4. \A p \in Requests : req'[p].pc # "idle" =>
         /\ req'[p].id \in Instances /\ req'[p].action \in AllActions
         /\ row'[req'[p].id].state # "creating"
    BY <1>1 DEF IInv, HeldInv, RowsKeep
<1>5. HeldInv'
    BY <1>3, <1>4 DEF HeldInv
<1>6. GoneInv'
    BY <1>1, <1>4 DEF IInv, GoneInv, HeldInv
<1>7. BlockInv'
    <2>1. \A p \in Requests : req'[p].pc # "idle" =>
             /\ row'[req'[p].id].blocked = row[req'[p].id].blocked
             /\ row'[req'[p].id].hold = row[req'[p].id].hold
        BY <1>4 DEF RowsKeep
    <2> QED
        BY <1>1, <2>1 DEF IInv, BlockInv
<1> QED
    BY <1>2, <1>3, <1>5, <1>6, <1>7 DEF IInv

\* What requests need of each other.
LEMMA RequestType ==
    ASSUME IInv, NEW h \in Requests
    PROVE  /\ req[h] \in Request /\ IdleRequest \in Request /\ IdleRequest.pc = "idle"
           /\ req[h].pc # "idle" => /\ req[h].id \in Instances /\ req[h].action \in AllActions
                                    /\ row[req[h].id].state # "creating"
    BY BoundAssumption DEF IInv, TypeOK, HeldInv, IdleRequest, Request

LEMMA StepType ==
    ASSUME NEW r \in Request, NEW pc \in {"idle", "check", "power", "enqueue", "set"},
           NEW q, q = [r EXCEPT !.pc = pc]
    PROVE  /\ q \in Request /\ q.pc = pc /\ q.id = r.id /\ q.action = r.action
           /\ q.blocked = r.blocked /\ q.overtaken = r.overtaken /\ q.unchecked = r.unchecked
    BY DEF Request

\* A request that ends leaves everything else as it is.
LEMMA RespondStep ==
    ASSUME IInv, NEW h \in Requests, Respond(h),
           UNCHANGED <<row, vm, worker, destroy, streak, unread>>, faults' \in faults..MaxFaults
    PROVE  IInv'
<1>1. RowsKeep /\ \A i \in Instances : Gone(i) => Gone(i)'
    BY DEF RowsKeep, Gone, Exists, IInv, TypeOK
<1> QED
    BY <1>1, RequestType, RequestKeeps DEF Respond, IInv, TypeOK

\* A request goes on without having done anything yet.
LEMMA ProceedStep ==
    ASSUME IInv, NEW h \in Requests, NEW r \in Request, SetReq(h, r), r.id \in Instances,
           r.action \in AllActions, row[r.id].state # "creating",
           UNCHANGED <<row, vm, worker, destroy, streak>>, faults' \in faults..MaxFaults,
           unread \subseteq unread', unread' \subseteq Instances,
           r.pc = "set" /\ r.action = "delete" => r.id \in unread',
           r.pc = "check" /\ row[r.id].blocked => r.blocked \/ r.overtaken,
           r.pc = "power" /\ r.action \in {"start", "reboot"} /\ (row[r.id].blocked \/ row[r.id].hold)
              => r.overtaken \/ (r.unchecked /\ ~r.blocked),
           r.pc = "power" => r.action # "delete"
    PROVE  IInv'
<1>1. RowsKeep /\ \A i \in Instances : Gone(i) => Gone(i)'
    BY DEF RowsKeep, Gone, Exists, IInv, TypeOK
<1>2. r.id \in unread' => Gone(r.id)'
    BY DEF Gone
<1> QED
    BY <1>1, <1>2, RequestKeeps DEF IInv, TypeOK

LEMMA ReceiveStep ==
    ASSUME IInv, NEW h \in Requests, NEW i \in Instances, NEW a \in AllActions, Receive(h, i, a)
    PROVE  IInv'
<1>1. PICK b \in BOOLEAN : b = row[i].blocked
    BY DEF IInv, TypeOK, Row
<1>2. PICK k \in Request : k = IdleRequest
    BY RequestType
<1>3. PICK r : r = [k EXCEPT !.pc = "check", !.id = i, !.action = a, !.blocked = b]
    OBVIOUS
<1>4. r \in Request /\ r.pc = "check" /\ r.id = i /\ r.action = a /\ r.blocked = b
    BY <1>3 DEF Request
<1>5. /\ SetReq(h, r) /\ row[i].state # "creating"
      /\ UNCHANGED <<row, vm, worker, destroy, faults, streak, unread>>
    BY <1>1, <1>2, <1>3 DEF Receive, Accepts
<1> QED
    BY <1>1, <1>4, <1>5, ProceedStep DEF IInv, TypeOK

LEMMA CheckStep ==
    ASSUME IInv, NEW h \in Requests, Check(h)
    PROVE  IInv'
<1>1. PICK r \in Request : r = req[h]
    BY RequestType
<1>2. /\ r.pc = "check" /\ r.id \in Instances /\ r.action \in AllActions /\ row[r.id].state # "creating"
      /\ row[r.id].blocked => r.blocked \/ r.overtaken
    BY <1>1, RequestType DEF Check, IInv, BlockInv
<1>3. /\ UNCHANGED <<row, vm, worker, destroy, streak>> /\ faults' \in faults..MaxFaults
      /\ unread \subseteq unread' /\ unread' \subseteq Instances
    BY <1>1, <1>2, FaultType DEF Check, IInv, TypeOK
<1>4. CASE Respond(h) /\ UNCHANGED unread
    BY <1>3, <1>4, RespondStep
<1>5. ASSUME NEW pc \in {"enqueue", "power", "set"}, SetReq(h, [r EXCEPT !.pc = pc]),
             pc = "set" => r.id \in unread',
             pc = "power" => /\ r.action # "delete"
                             /\ r.action \in {"start", "reboot"} => ~r.blocked /\ ~row[r.id].hold
      PROVE  IInv'
    <2>1. PICK q : q = [r EXCEPT !.pc = pc]
        OBVIOUS
    <2>2. /\ q \in Request /\ q.pc = pc /\ q.id = r.id /\ q.action = r.action
          /\ q.blocked = r.blocked /\ q.overtaken = r.overtaken /\ q.unchecked = r.unchecked
        BY <2>1, StepType
    <2>3. SetReq(h, q)
        BY <1>5, <2>1
    <2>4. q.pc = "power" /\ q.action \in {"start", "reboot"} /\ (row[q.id].blocked \/ row[q.id].hold)
              => q.overtaken \/ (q.unchecked /\ ~q.blocked)
        BY <1>2, <1>5, <2>2
    <2> QED
        BY <1>2, <1>3, <1>5, <2>2, <2>3, <2>4, ProceedStep
<1>6. CASE /\ r.action \in {"start", "reboot"} /\ ~r.blocked
           /\ SetReq(h, [r EXCEPT !.pc = "power", !.unchecked = TRUE])
    <2>1. PICK q : q = [r EXCEPT !.pc = "power", !.unchecked = TRUE]
        OBVIOUS
    <2>2. /\ q \in Request /\ q.pc = "power" /\ q.id = r.id /\ q.blocked = r.blocked
          /\ q.unchecked /\ q.action = r.action
        BY <2>1 DEF Request
    <2> QED
        BY <1>2, <1>3, <1>6, <2>1, <2>2, ProceedStep
<1>7. \/ Respond(h) /\ UNCHANGED unread
      \/ \E pc \in {"enqueue", "power", "set"} :
            /\ SetReq(h, [r EXCEPT !.pc = pc])
            /\ pc = "set" => r.id \in unread'
            /\ pc = "power" => /\ r.action # "delete"
                               /\ r.action \in {"start", "reboot"} => ~r.blocked /\ ~row[r.id].hold
      \/ /\ r.action \in {"start", "reboot"} /\ ~r.blocked
         /\ SetReq(h, [r EXCEPT !.pc = "power", !.unchecked = TRUE])
    BY <1>1 DEF Check, Step, Fault
<1> QED
    BY <1>4, <1>5, <1>6, <1>7

LEMMA PowerStep ==
    ASSUME IInv, NEW h \in Requests, PowerWorks(h)
    PROVE  IInv'
<1>1. PICK r \in Request : r = req[h]
    BY RequestType
<1>2. /\ r.pc = "power" /\ r.id \in Instances /\ row[r.id].state # "creating"
      /\ r.action \in AllActions \ {"delete"}
    BY <1>1, RequestType DEF PowerWorks, IInv, BlockInv
<1>3. PICK q : q = [r EXCEPT !.pc = "set"]
    OBVIOUS
<1>4. /\ q \in Request /\ q.pc = "set" /\ q.id = r.id /\ q.action = r.action
    BY <1>3, StepType
<1>5. /\ SetReq(h, q) /\ UNCHANGED <<row, worker, destroy, faults, streak, unread>>
      /\ vm[r.id].power \in {"on", "off"} /\ vm' = [vm EXCEPT ![r.id].power = Effect(r.action)]
    BY <1>1, <1>3 DEF PowerWorks, Step
<1>6. Effect(r.action) \in {"on", "off"}
    BY DEF Effect
<1>7. vm' \in [Instances -> Vm] /\ \A i \in Instances : Exists(i)' = Exists(i)
    BY <1>2, <1>5, <1>6 DEF IInv, TypeOK, Vm, Exists
<1>8. RowsKeep /\ \A i \in Instances : Gone(i) => Gone(i)'
    BY <1>5, <1>7 DEF RowsKeep, Gone, IInv, TypeOK
<1> QED
    BY <1>2, <1>4, <1>5, <1>7, <1>8, RequestKeeps DEF IInv, TypeOK

LEMMA BusyStep ==
    ASSUME IInv, NEW h \in Requests, PowerBusy(h)
    PROVE  IInv'
<1>1. PICK r \in Request : r = req[h]
    BY RequestType
<1>2. PICK n : n = r.attempt + 1
    OBVIOUS
<1>3. /\ UNCHANGED <<row, vm, worker, destroy, faults, streak, unread>>
      /\ faults \in 0..MaxFaults /\ unread \subseteq Instances
    BY DEF PowerBusy, IInv, TypeOK
<1>4. CASE n >= PowerAttempts
    BY <1>1, <1>2, <1>3, <1>4, RespondStep DEF PowerBusy
<1>5. CASE ~(n >= PowerAttempts)
    <2>1. PICK q : q = [r EXCEPT !.attempt = n]
        OBVIOUS
    <2>2. n \in 0..PowerAttempts
        BY <1>2, <1>5, BoundAssumption DEF Request
    <2>3. /\ q \in Request /\ q.pc = r.pc /\ q.id = r.id /\ q.action = r.action
          /\ q.blocked = r.blocked /\ q.overtaken = r.overtaken /\ q.unchecked = r.unchecked
        BY <2>1, <2>2 DEF Request
    <2>4. SetReq(h, q) /\ r.pc = "power"
        BY <1>1, <1>2, <1>5, <2>1 DEF PowerBusy
    <2>5. /\ r.id \in Instances /\ row[r.id].state # "creating"
          /\ r.action \in AllActions \ {"delete"}
          /\ r.action \in {"start", "reboot"} /\ (row[r.id].blocked \/ row[r.id].hold)
                => r.overtaken \/ (r.unchecked /\ ~r.blocked)
        BY <1>1, <2>4, RequestType DEF IInv, BlockInv
    <2> QED
        BY <1>3, <2>3, <2>4, <2>5, ProceedStep
<1> QED
    BY <1>4, <1>5

LEMMA EnqueueStep ==
    ASSUME IInv, NEW h \in Requests, Enqueue(h)
    PROVE  IInv'
<1>1. PICK r \in Request : r = req[h]
    BY RequestType
<1>2. r.id \in Instances /\ r.action \in AllActions /\ row[r.id].state # "creating"
    BY <1>1, RequestType DEF Enqueue
<1>3. PICK q : q = [r EXCEPT !.pc = "set"]
    OBVIOUS
<1>4. /\ q \in Request /\ q.pc = "set" /\ q.id = r.id /\ q.action = r.action
    BY <1>3, StepType
<1>5. /\ SetReq(h, q) /\ UNCHANGED <<row, vm, worker, faults, streak, unread>>
      /\ destroy' = destroy \cup {r.id}
    BY <1>1, <1>3 DEF Enqueue, Step
<1>6. RowsKeep /\ \A i \in Instances : Gone(i) => Gone(i)'
    BY <1>5 DEF RowsKeep, Gone, Exists, IInv, TypeOK
<1>7. Gone(q.id)'
    BY <1>4, <1>5 DEF Gone
<1> QED
    BY <1>2, <1>4, <1>5, <1>6, <1>7, RequestKeeps DEF IInv, TypeOK

LEMMA SetStep ==
    ASSUME IInv, NEW h \in Requests, SetState(h)
    PROVE  IInv'
<1>1. PICK r \in Request : r = req[h]
    BY RequestType
<1>2. r.pc = "set" /\ r.id \in Instances /\ row[r.id].state # "creating"
    BY <1>1, RequestType DEF SetState
<1>3. PICK s \in States : s = TargetState(r.action)
    BY DEF TargetState, States
<1>4. s # "creating" /\ (s = "deleted" => r.action = "delete" \/ r.action \notin AllActions)
    BY <1>3 DEF TargetState
<1>5. /\ SetRow(r.id, "state", s) /\ SetReq(h, IdleRequest)
      /\ UNCHANGED <<vm, worker, destroy, faults, streak, unread>>
    BY <1>1, <1>3 DEF SetState, Respond
<1>6. Rewritten(r.id, row[r.id].miss, s)
    BY <1>2, <1>5, SetState_ DEF IInv, TypeOK
<1>7. RowsKeep /\ \A i \in Instances : Gone(i) => Gone(i)'
    BY <1>2, <1>4, <1>5, <1>6 DEF RowsKeep, Rewritten, Gone, Exists
<1>8. s = "deleted" => Gone(r.id)
    BY <1>1, <1>2, <1>3 DEF IInv, GoneInv, TargetState
<1>9. \A i \in Instances : row'[i].state = "deleted" =>
         row[i].state = "deleted" \/ Gone(i)'
    BY <1>2, <1>6, <1>7, <1>8 DEF Rewritten
<1> QED
    BY <1>5, <1>7, <1>9, RequestType, RequestKeeps DEF IInv, TypeOK

LEMMA HandleStep ==
    ASSUME IInv, NEW h \in Requests, Handle(h)
    PROVE  IInv'
<1>1. CASE PowerRefused(h) \/ RequestFails(h)
    <2>1. /\ Respond(h) /\ UNCHANGED <<row, vm, worker, destroy, streak, unread>>
          /\ faults' \in faults..MaxFaults
        BY <1>1, FaultType DEF PowerRefused, RequestFails, IInv, TypeOK
    <2> QED
        BY <2>1, RespondStep
<1> QED
    BY <1>1, CheckStep, PowerStep, BusyStep, EnqueueStep, SetStep DEF Handle

-----------------------------------------------------------------------------
(* The rest of the system.                                                 *)

\* A request is told of a block or a hold, and otherwise left alone.
Told(h) == /\ req'[h].pc = req[h].pc /\ req'[h].id = req[h].id
           /\ req'[h].action = req[h].action /\ req'[h].blocked = req[h].blocked
           /\ req'[h].unchecked = req[h].unchecked
           /\ req[h].overtaken => req'[h].overtaken

\* What a step of the environment may do to the rows and the servers.
RowsMove == \A i \in Instances :
               /\ row'[i].miss = row[i].miss
               /\ row[i].state # "creating" =>
                     row'[i].state # "creating" /\ row'[i].badId = row[i].badId
               /\ row'[i].state = "deleted" => row[i].state = "deleted"
               /\ row[i].state # "creating" /\ Gone(i) => Gone(i)'

LEMMA EnvironmentKeeps ==
    ASSUME IInv, UNCHANGED <<worker, streak, faults, unread>>,
           row' \in [Instances -> Row], vm' \in [Instances -> Vm], destroy' \subseteq Instances,
           req' \in [Requests -> Request], RowsMove, \A h \in Requests : Told(h),
           \A h \in Requests : req[h].pc # "idle" =>
              /\ row'[req[h].id].blocked => row[req[h].id].blocked \/ req'[h].overtaken
              /\ row'[req[h].id].hold => row[req[h].id].hold \/ req'[h].overtaken
    PROVE  IInv'
<1>1. TypeOK'
    BY DEF IInv, TypeOK
<1>2. /\ WorkerInv' /\ MissInv'
      /\ \A item \in worker'.todo : row'[item.id].state # "creating"
      /\ Busy' => row'[Me'].state # "creating"
    <2>1. faults' \in faults..MaxFaults
        BY DEF IInv, TypeOK
    <2> QED
        BY <2>1, OthersKeep DEF RowsMove
<1>3. HeldInv'
    BY <1>2 DEF HeldInv, IInv, RowsMove, Told
<1>4. GoneInv'
    BY DEF IInv, GoneInv, HeldInv, RowsMove, Told
<1>5. BlockInv'
    BY DEF IInv, BlockInv, Told
<1> QED
    BY <1>1, <1>2, <1>3, <1>4, <1>5 DEF IInv

LEMMA SameRequests ==
    ASSUME IInv, req' = req
    PROVE  req' \in [Requests -> Request] /\ \A h \in Requests : Told(h)
    BY DEF IInv, TypeOK, Told

LEMMA OvertakeType ==
    ASSUME IInv, NEW i \in Instances, req' = Overtake(i)
    PROVE  /\ req' \in [Requests -> Request] /\ \A h \in Requests : Told(h)
           /\ \A h \in Requests : req[h].id = i => req'[h].overtaken
<1>1. ASSUME NEW r \in Request, NEW q, q = [r EXCEPT !.overtaken = TRUE]
      PROVE  /\ q \in Request /\ q.overtaken /\ q.pc = r.pc /\ q.id = r.id
             /\ q.action = r.action /\ q.blocked = r.blocked /\ q.unchecked = r.unchecked
    BY <1>1 DEF Request
<1>2. \A h \in Requests : req[h] \in Request
    BY DEF IInv, TypeOK
<1>3. /\ req' = [h \in Requests |-> req'[h]]
      /\ \A h \in Requests : req'[h] = IF req[h].id = i THEN [req[h] EXCEPT !.overtaken = TRUE]
                                       ELSE req[h]
    BY DEF Overtake
<1>4. ASSUME NEW h \in Requests
      PROVE  /\ req'[h] \in Request /\ Told(h)
             /\ req[h].id = i => req'[h].overtaken
    BY <1>1, <1>2, <1>3 DEF Told
<1> QED
    BY <1>3, <1>4

LEMMA BlockStep ==
    ASSUME IInv, NEW i \in Instances, Block(i) \/ Hold(i)
    PROVE  IInv'
<1>1. /\ UNCHANGED <<worker, streak, faults, vm, destroy, unread>>
      /\ req' = req \/ req' = Overtake(i)
      /\ \A j \in Instances : Gone(j)' <=> Gone(j)
    BY DEF Block, Hold, Event, Gone, Exists
<1>2. req' \in [Requests -> Request] /\ \A h \in Requests : Told(h)
    BY <1>1, SameRequests, OvertakeType
<1>3. ASSUME NEW b \in BOOLEAN, SetRow(i, "blocked", b) \/ SetRow(i, "hold", b)
      PROVE  /\ row' \in [Instances -> Row]
             /\ row'[i].miss = row[i].miss /\ row'[i].state = row[i].state
             /\ row'[i].badId = row[i].badId
             /\ row'[i].blocked = row[i].blocked \/ (SetRow(i, "blocked", b) /\ row'[i].blocked = b)
             /\ row'[i].hold = row[i].hold \/ (SetRow(i, "hold", b) /\ row'[i].hold = b)
             /\ \A j \in Instances \ {i} : row'[j] = row[j]
    BY <1>3 DEF SetRow, IInv, TypeOK, Row
<1>4. PICK b \in BOOLEAN : SetRow(i, "blocked", b) \/ SetRow(i, "hold", b)
    BY DEF Block, Hold, IInv, TypeOK, Row
<1>5. RowsMove /\ row' \in [Instances -> Row]
    BY <1>1, <1>3, <1>4 DEF RowsMove
<1>6. \/ row'[i].blocked => row[i].blocked
      \/ req' = Overtake(i)
    BY <1>3, <1>4 DEF Block, Hold
<1>7. \/ row'[i].hold => row[i].hold
      \/ req' = Overtake(i)
    BY <1>3, <1>4 DEF Block, Hold
<1>8. \A h \in Requests : req[h].pc # "idle" =>
              /\ row'[req[h].id].blocked => row[req[h].id].blocked \/ req'[h].overtaken
              /\ row'[req[h].id].hold => row[req[h].id].hold \/ req'[h].overtaken
    BY <1>3, <1>4, <1>6, <1>7, OvertakeType DEF IInv, HeldInv
<1> QED
    BY <1>1, <1>2, <1>5, <1>8, EnvironmentKeeps DEF IInv, TypeOK

\* The requests and what they have read of the row are left alone.
LEMMA QuietStep ==
    ASSUME IInv, UNCHANGED <<worker, streak, faults, req, unread>>,
           row' \in [Instances -> Row], vm' \in [Instances -> Vm], destroy' \subseteq Instances,
           RowsMove,
           \A i \in Instances : row'[i].blocked = row[i].blocked /\ row'[i].hold = row[i].hold
    PROVE  IInv'
<1>1. \A h \in Requests : req[h].pc # "idle" =>
              /\ row'[req[h].id].blocked => row[req[h].id].blocked \/ req'[h].overtaken
              /\ row'[req[h].id].hold => row[req[h].id].hold \/ req'[h].overtaken
    BY DEF IInv, HeldInv
<1> QED
    BY <1>1, SameRequests, EnvironmentKeeps

LEMMA JobStep ==
    ASSUME IInv, NEW i \in Instances, Provisioned(i) \/ Reinstall(i) \/ Reinstalled(i)
    PROVE  IInv'
<1>1. /\ UNCHANGED <<worker, streak, faults, req, destroy, unread>>
      /\ row \in [Instances -> Row] /\ vm \in [Instances -> Vm] /\ destroy \subseteq Instances
    BY DEF Provisioned, Reinstall, Reinstalled, Event, IInv, TypeOK
<1>2. ASSUME NEW failed \in BOOLEAN, NEW bad \in BOOLEAN, NEW s \in States,
             \/ row' = [row EXCEPT ![i].state = s]
             \/ row' = [row EXCEPT ![i].state = s, ![i].provErr = failed]
             \/ /\ row[i].state = "creating"
                /\ row' = [row EXCEPT ![i].state = s, ![i].ip = TRUE, ![i].provErr = failed,
                                      ![i].badId = bad]
      PROVE  /\ row' \in [Instances -> Row]
             /\ row'[i].miss = row[i].miss /\ row'[i].state = s
             /\ row'[i].blocked = row[i].blocked /\ row'[i].hold = row[i].hold
             /\ row[i].state = "creating" \/ row'[i].badId = row[i].badId
             /\ \A j \in Instances \ {i} : row'[j] = row[j]
    BY <1>1, <1>2 DEF Row
<1>3. \A s \in {"running", "reinstalling"} : s \in States
    BY DEF States
<1>4. \E s \in {"running", "reinstalling"} :
      /\ row' \in [Instances -> Row]
      /\ row'[i].miss = row[i].miss /\ row'[i].state = s
      /\ row'[i].blocked = row[i].blocked /\ row'[i].hold = row[i].hold
      /\ row[i].state = "creating" \/ row'[i].badId = row[i].badId
      /\ \A j \in Instances \ {i} : row'[j] = row[j]
    <2>1. CASE Provisioned(i)
        <3>1. PICK failed \in BOOLEAN, bad \in {b \in BOOLEAN : b => "badid" \in Events} :
                row' = [row EXCEPT ![i].state = "running", ![i].ip = TRUE, ![i].provErr = failed,
                                   ![i].badId = bad]
            BY <2>1, Zenon DEF Provisioned
        <3>2. bad \in BOOLEAN
            OBVIOUS
        <3> QED
            BY <2>1, <3>1, <3>2, <1>2, <1>3 DEF Provisioned
    <2>2. CASE Reinstall(i)
        BY <2>2, <1>2, <1>3 DEF Reinstall, SetRow
    <2>3. CASE Reinstalled(i)
        <3>1. PICK failed \in BOOLEAN :
                row' = [row EXCEPT ![i].state = "running", ![i].provErr = failed]
            BY <2>3 DEF Reinstalled
        <3> QED
            BY <3>1, <1>2, <1>3
    <2> QED
        BY <2>1, <2>2, <2>3
<1>5. PICK s \in {"running", "reinstalling"} :
      /\ row' \in [Instances -> Row]
      /\ row'[i].miss = row[i].miss /\ row'[i].state = s
      /\ row'[i].blocked = row[i].blocked /\ row'[i].hold = row[i].hold
      /\ row[i].state = "creating" \/ row'[i].badId = row[i].badId
      /\ \A j \in Instances \ {i} : row'[j] = row[j]
    BY <1>4
<1>6. /\ vm' \in [Instances -> Vm]
      /\ \A j \in Instances : row[j].state # "creating" /\ Gone(j) => Gone(j)'
    <2>1. CASE Provisioned(i)
        BY <1>1, <2>1 DEF Provisioned, Vm, Gone, Exists
    <2>2. CASE Reinstall(i)
        BY <1>1, <2>2 DEF Reinstall, Gone, Exists
    <2>3. CASE Reinstalled(i)
        BY <1>1, <2>3 DEF Reinstalled, Vm, Gone, Exists
    <2> QED
        BY <2>1, <2>2, <2>3
<1>7. RowsMove
    BY <1>5, <1>6 DEF RowsMove
<1> QED
    BY <1>1, <1>5, <1>6, <1>7, QuietStep

LEMMA ServerStep ==
    ASSUME IInv, NEW i \in Instances,
           Destroy(i) \/ Vanish(i) \/ Shutdown(i) \/ Fails(i) \/ Readdress(i)
    PROVE  IInv'
<1>1. /\ UNCHANGED <<worker, streak, faults, req, row, unread>>
      /\ row \in [Instances -> Row] /\ vm \in [Instances -> Vm] /\ destroy \subseteq Instances
    BY DEF Destroy, Vanish, Shutdown, Fails, Readdress, Event, IInv, TypeOK
<1>2. Lost \in Vm /\ Lost.power = "none"
    BY DEF Lost, Vm
<1>3. /\ vm' \in [Instances -> Vm] /\ destroy' \subseteq Instances
      /\ \A j \in Instances : Gone(j) => Gone(j)'
    <2>1. CASE Destroy(i) \/ Vanish(i)
        BY <1>1, <1>2, <2>1 DEF Destroy, Vanish, Gone, Exists
    <2>2. CASE Shutdown(i) \/ Fails(i) \/ Readdress(i)
        BY <1>1, <2>2 DEF Shutdown, Fails, Readdress, Vm, Gone, Exists, On
    <2> QED
        BY <2>1, <2>2
<1>4. RowsMove
    BY <1>1, <1>3 DEF RowsMove
<1> QED
    BY <1>1, <1>3, <1>4, QuietStep

-----------------------------------------------------------------------------
(* The invariant.                                                          *)

LEMMA InitIInv ==
    ASSUME Init
    PROVE  IInv
<1>1. TypeOK
    BY IdleWorkerType, BoundAssumption
       DEF Init, TypeOK, Row, Vm, Lost, States, IdleRequest, Request
<1>2. WorkerInv /\ HeldInv /\ BlockInv
    BY DEF Init, WorkerInv, HeldInv, BlockInv, Busy, IdleWorker, IdleRequest
<1>3. MissInv
    BY BoundAssumption DEF Init, MissInv, Counted, At, IdleWorker, UpTo
<1>4. GoneInv
    BY DEF Init, GoneInv, IdleRequest
<1> QED
    BY <1>1, <1>2, <1>3, <1>4 DEF IInv

LEMMA StepIInv ==
    ASSUME IInv, [Next]_vars
    PROVE  IInv'
<1>1. CASE UNCHANGED vars
    BY <1>1 DEF vars, IInv, TypeOK, WorkerInv, HeldInv, MissInv, GoneInv, BlockInv, Busy, At, Me,
                Counted, Gone, Exists, Remembers
<1>2. CASE Pass \/ WorkerCrash
    BY <1>2, WorkerStep, WorkerKeeps
<1>3. ASSUME NEW h \in Requests,
             Handle(h) \/ \E i \in Instances, a \in AllActions : Receive(h, i, a)
      PROVE  IInv'
    BY <1>3, HandleStep, ReceiveStep
<1>4. ASSUME NEW i \in Instances, Environment(i)
      PROVE  IInv'
    BY <1>4, BlockStep, JobStep, ServerStep, Zenon DEF Environment
<1> QED
    BY <1>1, <1>2, <1>3, <1>4 DEF Next

\* Whatever requests, faults and events interleave with the pass, the worker's
\* snapshot and every request keep to what the rows and the servers allow:
\* the invariant behind the three theorems below.
THEOREM SyncSafe == Spec => []IInv
<1>1. Init => IInv
    BY InitIInv
<1>2. IInv /\ [Next]_vars => IInv'
    BY StepIInv
<1> QED
    BY <1>1, <1>2, PTL DEF Spec

\* A deleted row never leaves a server behind that nobody deletes, unless the
\* external ID could not be read when it was deleted (handler.go:652-658, 745-767).
THEOREM NoServerLeft == Spec => []DeletedIsDestroyed
<1>1. IInv => DeletedIsDestroyed
    BY DEF IInv, GoneInv, Gone, DeletedIsDestroyed
<1> QED
    BY <1>1, SyncSafe, PTL

-----------------------------------------------------------------------------
(* What no step does.                                                      *)

\* Only the pass orphans a row, and only after it has made up its mind.
LEMMA OrphanStep_ ==
    ASSUME IInv, [Next]_vars, NEW i \in Instances,
           row[i].state # "orphaned", row'[i].state = "orphaned"
    PROVE  worker.pc = "orphan" /\ i = Me
<1>1. CASE UNCHANGED vars
    BY <1>1 DEF vars
<1>2. CASE Pass \/ WorkerCrash
    <2>1. ASSUME NEW j \in Instances, NEW n \in 0..MissLimit,
                 SetRow(j, "miss", n) \/ SetRow(j, "ip", FALSE) \/ SetRow(j, "provErr", FALSE)
          PROVE  row'[i].state = row[i].state
        BY <2>1 DEF SetRow, IInv, TypeOK, Row
    <2>2. ASSUME Busy
          PROVE  Me \in Instances /\ UpTo(row[Me].miss + 1) \in 0..MissLimit /\ 0 \in 0..MissLimit
        BY <2>2, MeType, UpToType, BoundAssumption DEF IInv, Row
    <2>3. CASE CountMiss \/ ClearMiss \/ ClearIP \/ Heal
        BY <2>1, <2>2, <2>3 DEF CountMiss, ClearMiss, ClearIP, Heal, Busy
    <2>4. CASE MarkStopped
        BY <2>2, <2>4 DEF MarkStopped, SetRow, IInv, TypeOK, Row, Busy
    <2>5. CASE Update
        <3>1. PICK s \in {"running", "stopped", "error"} :
                row' = [row EXCEPT ![Me].state = s, ![Me].ip = worker.srv.ip]
            BY <2>5 DEF Update, MapServerState, IInv, WorkerInv, Vm
        <3> QED
            BY <2>2, <2>5, <3>1 DEF Update, IInv, TypeOK, Row, Busy
    <2>6. CASE MarkOrphaned
        BY <2>2, <2>6 DEF MarkOrphaned, SetRow, IInv, TypeOK, Row, Busy
    <2>7. CASE row' = row
        BY <2>7
    <2>8. \/ CountMiss \/ ClearMiss \/ ClearIP \/ Heal \/ MarkStopped \/ Update \/ MarkOrphaned
          \/ row' = row
        BY <1>2 DEF Pass, ListRows, EndPass, NextRow, GetFound, GetMissing, Refund, PowerOff, Verify,
                    StepFails, WorkerCrash
    <2> QED
        BY <2>3, <2>4, <2>5, <2>6, <2>7, <2>8
<1>3. ASSUME NEW h \in Requests,
             Handle(h) \/ \E j \in Instances, a \in AllActions : Receive(h, j, a)
      PROVE  row'[i].state # "orphaned"
    <2>1. CASE SetState(h)
        <3>1. TargetState(req[h].action) # "orphaned" /\ req[h].id \in Instances
            BY <2>1, RequestType DEF TargetState, SetState
        <3> QED
            BY <2>1, <3>1 DEF SetState, SetRow, IInv, TypeOK, Row
    <2>2. CASE row' = row
        BY <2>2
    <2> QED
        BY <1>3, <2>1, <2>2 DEF Handle, Receive, Check, PowerWorks, PowerBusy, PowerRefused, Enqueue,
                                RequestFails
<1>4. ASSUME NEW j \in Instances, Environment(j)
      PROVE  row'[i].state # "orphaned"
    <2>1. CASE Provisioned(j)
        BY <2>1 DEF Provisioned, IInv, TypeOK, Row
    <2>2. CASE Reinstalled(j)
        BY <2>2 DEF Reinstalled, IInv, TypeOK, Row
    <2>3. CASE Reinstall(j) \/ Block(j) \/ Hold(j)
        BY <2>3 DEF Reinstall, Block, Hold, SetRow, IInv, TypeOK, Row
    <2>4. CASE row' = row
        BY <2>4
    <2> QED
        BY <1>4, <2>1, <2>2, <2>3, <2>4 DEF Environment, Destroy, Vanish, Shutdown, Fails, Readdress
<1> QED
    BY <1>1, <1>2, <1>3, <1>4 DEF Next

\* No customer's row is given up for a single wrong answer, whatever happens to
\* it meanwhile, unless a count could not be cleared or the worker was restarted
\* before it was; and even then not a server found when it was last looked for
\* (sync_instances.go:39-54, 102-119).
THEOREM OrphanedLate == Spec => OrphanAfterMisses
<1> DEFINE kept == \A i \in Instances :
                      ~row[i].badId /\ row[i].state # "orphaned" /\ row'[i].state = "orphaned"
                         => streak[i] = MissLimit \/ (~Remembers /\ streak[i] # 0)
<1>1. IInv /\ [Next]_vars => kept
    BY OrphanStep_ DEF IInv, MissInv
<1>2. IInv /\ [Next]_vars => [kept]_vars
    BY <1>1
<1> QED
    BY <1>2, SyncSafe, PTL DEF Spec, OrphanAfterMisses

LEMMA StartStep ==
    ASSUME IInv, [Next]_vars, NEW h \in Requests, NEW i \in Instances,
           req[h].id = i, req'[h] # req[h], ~On(vm[i]), On(vm'[i]), row[i].blocked \/ row[i].hold
    PROVE  req[h].overtaken \/ (req[h].unchecked /\ ~req[h].blocked)
<1>1. CASE UNCHANGED vars
    BY <1>1 DEF vars
<1>2. CASE Pass \/ WorkerCrash
    BY <1>2, WorkerStep DEF WorkerShares
<1>3. ASSUME NEW p \in Requests,
             Handle(p) \/ \E j \in Instances, a \in AllActions : Receive(p, j, a)
      PROVE  req[h].overtaken \/ (req[h].unchecked /\ ~req[h].blocked)
    <2>1. CASE PowerWorks(p)
        <3>1. PICK q : req' = [req EXCEPT ![p] = q]
            BY <2>1 DEF PowerWorks, Step, SetReq
        <3>2. p = h
            BY <3>1 DEF IInv, TypeOK
        <3>3. req[h].pc = "power" /\ vm' = [vm EXCEPT ![i].power = Effect(req[h].action)]
            BY <2>1, <3>2 DEF PowerWorks
        <3>4. vm'[i].power = Effect(req[h].action)
            BY <3>3 DEF IInv, TypeOK, Vm
        <3>5. req[h].action # "stop" /\ req[h].action # "delete"
            BY <3>3, <3>4 DEF Effect, On, IInv, BlockInv
        <3>6. req[h].action \in AllActions
            BY <3>3 DEF IInv, HeldInv
        <3> QED
            BY <3>3, <3>5, <3>6 DEF IInv, BlockInv, AllActions
    <2>2. CASE vm' = vm
        BY <2>2
    <2> QED
        BY <1>3, <2>1, <2>2 DEF Handle, Receive, Check, PowerBusy, PowerRefused, Enqueue, SetState,
                                RequestFails
<1>4. ASSUME NEW j \in Instances, Environment(j)
      PROVE  req[h].overtaken \/ (req[h].unchecked /\ ~req[h].blocked)
    <2>1. CASE req' = req
        BY <2>1
    <2>2. CASE vm' = vm
        BY <2>2
    <2> QED
        BY <1>4, <2>1, <2>2, Zenon DEF Environment, Provisioned, Block, Hold, Reinstall, Reinstalled, Destroy,
                                Vanish, Shutdown, Fails, Readdress
<1> QED
    BY <1>1, <1>2, <1>3, <1>4 DEF Next

\* No request powers on a server that billing or abuse handling had blocked
\* when the request looked (handler.go:634-650, 682, 728).
THEOREM StartsUnblocked == Spec => StartsOnlyUnblocked
<1> DEFINE kept == \A h \in Requests, i \in Instances :
                      /\ req[h].id = i /\ req'[h] # req[h]
                      /\ ~On(vm[i]) /\ On(vm'[i])
                      /\ row[i].blocked \/ row[i].hold
                      => req[h].overtaken \/ (req[h].unchecked /\ ~req[h].blocked)
<1>1. IInv /\ [Next]_vars => kept
    BY StartStep
<1>2. IInv /\ [Next]_vars => [kept]_vars
    BY <1>1
<1> QED
    BY <1>2, SyncSafe, PTL DEF Spec, StartsOnlyUnblocked
=============================================================================
