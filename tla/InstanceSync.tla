---------------------------- MODULE InstanceSync ----------------------------
(***************************************************************************)
(* The portal row of a VPS, its server on the hypervisor, and what keeps   *)
(* them together: the worker's sync pass (cmd/worker/sync_instances.go),   *)
(* the customer's power and delete requests (InstanceAction in             *)
(* internal/handler/handler.go), billing, reinstall and destroy jobs.      *)
(*                                                                         *)
(* The pass reads a batch of rows first and works on that snapshot, item   *)
(* by item, while the rows and the servers change under it; a request      *)
(* reads its row once and acts on it later.  Every store call and every    *)
(* hypervisor call is one step.                                            *)
(*                                                                         *)
(* The store is not part of this repository.  Its calls are modelled by    *)
(* how they are used: one that reports "ok" is a conditional update that   *)
(* says whether it changed the row, one whose result is only an error      *)
(* writes the row whatever has happened to it since the batch was read.    *)
(***************************************************************************)
EXTENDS Naturals, FiniteSets

CONSTANTS
    Instances,      \* rows of the instances table
    Requests,       \* API requests that may be in progress at once
    Actions,        \* the actions the customers use
    Events,         \* what else happens: see the section on the rest of the system
    None,           \* a model value
    BatchLimit,     \* sync_instances.go: rows of a pass (30 in the code)
    MissLimit,      \* sync_instances.go: orphaned at the third miss (3 in the code)
    PowerAttempts,  \* runPowerWithRetry: 5 in the code
    MaxFaults       \* bound: failed store or hypervisor calls, crashes, restarts

AllActions == {"start", "stop", "reboot", "delete"}
AllEvents == {"badid", "block", "hold", "reinstall", "vanish", "shutdown", "fail", "address",
              "notfound", "hverror", "dberror", "clearerror", "iderror", "crash", "apicrash"}

ASSUME NoneAssumption == None \notin Instances \cup Requests
ASSUME ChoiceAssumption == Actions \subseteq AllActions /\ Events \subseteq AllEvents
ASSUME BoundAssumption == /\ BatchLimit \in Nat \ {0}
                          /\ MissLimit \in Nat \ {0}
                          /\ PowerAttempts \in Nat \ {0}
                          /\ MaxFaults \in Nat

VARIABLES
    row,       \* the portal database
    vm,        \* the hypervisor
    worker,    \* the sync pass
    req,       \* the API requests in progress
    destroy,   \* instances with a destroy event in the outbox
    faults,    \* failed calls and crashes so far
    streak,    \* history: "not found" answers since GetServer last found the server
    unread     \* history: instances whose external ID a deletion could not read

vars == <<row, vm, worker, req, destroy, faults, streak, unread>>

-----------------------------------------------------------------------------
(* Types.                                                                  *)

States == {"creating", "running", "stopped", "error", "reinstalling", "orphaned", "deleted"}

Row == [state : States, miss : 0..MissLimit, ip : BOOLEAN,
        blocked : BOOLEAN,      \* ClientPowerBlocked(billing status)
        hold : BOOLEAN,         \* abuse hold or administrator's block
        provErr : BOOLEAN,      \* a provision error is recorded
        badId : BOOLEAN]        \* the external ID is no UUID and no number

\* Power "none": the server does not exist.  ip: it has an address.
Vm == [power : {"none", "on", "off", "err"}, ip : BOOLEAN]

\* What ListInstancesForHypervisorSync returns of a row.
Item == [id : Instances, state : States, ip : BOOLEAN, blocked : BOOLEAN, provErr : BOOLEAN]

WorkerSteps == {"idle", "next", "get", "miss", "orphan", "refund", "clear", "clearip",
                "poweroff", "verify", "stopped", "heal", "update"}

Worker == [pc : WorkerSteps, todo : SUBSET Item, item : Item \cup {None}, srv : Vm \cup {None}]

Request == [pc : {"idle", "check", "power", "enqueue", "set"}, id : Instances \cup {None},
            action : AllActions \cup {None},
            blocked : BOOLEAN,       \* the billing status the request has read
            attempt : 0..PowerAttempts,
            overtaken : BOOLEAN,     \* history: it was blocked after that read
            unchecked : BOOLEAN]     \* history: the query for holds has failed

TypeOK == /\ row \in [Instances -> Row]
          /\ vm \in [Instances -> Vm]
          /\ worker \in Worker
          /\ req \in [Requests -> Request]
          /\ destroy \subseteq Instances
          /\ faults \in 0..MaxFaults
          /\ streak \in [Instances -> 0..MissLimit]
          /\ unread \subseteq Instances

-----------------------------------------------------------------------------

On(v) == v.power = "on"            \* hypervisor.ServerPoweredOn
Exists(i) == vm[i].power # "none"

\* Counters above the limit behave like the limit.
UpTo(n) == IF n > MissLimit THEN MissLimit ELSE n

SetRow(i, field, value) == row' = [row EXCEPT ![i][field] = value]

\* The events that are failures are bounded together.
Fault(kind) == kind \in Events /\ faults < MaxFaults /\ faults' = faults + 1

-----------------------------------------------------------------------------
(* The sync pass, syncInstanceStates and syncReinstallingInstance.         *)

IdleWorker == [pc |-> "idle", todo |-> {}, item |-> None, srv |-> None]

Go(pc) == worker' = [worker EXCEPT !.pc = pc]

\* continue, or the end of the loop body.
NextItem == worker' = [worker EXCEPT !.pc = "next", !.item = None, !.srv = None]

Me == worker.item.id
Reinstalling == worker.item.state = "reinstalling"

Snapshot(i) == [id |-> i, state |-> row[i].state, ip |-> row[i].ip,
                blocked |-> row[i].blocked, provErr |-> row[i].provErr]

\* ListInstancesForHypervisorSync: the rows that have a server to look at.
Listed == {i \in Instances : row[i].state \notin {"creating", "orphaned", "deleted"}}

\* At most BatchLimit of them; which ones, if there are more, is up to the store.
ListRows ==
    /\ worker.pc = "idle"
    /\ \E batch \in SUBSET Listed :
          /\ IF Cardinality(Listed) <= BatchLimit THEN batch = Listed
                                                 ELSE Cardinality(batch) = BatchLimit
          /\ worker' = [IdleWorker EXCEPT !.pc = "next", !.todo = {Snapshot(i) : i \in batch}]
    /\ UNCHANGED <<row, vm, req, destroy, faults, streak, unread>>

EndPass == /\ worker.pc = "next" /\ worker.todo = {}
           /\ worker' = IdleWorker
           /\ UNCHANGED <<row, vm, req, destroy, faults, streak, unread>>

\* An invalid external ID orphans the row without asking the hypervisor.  The
\* snapshot has the ID, which never changes.
NextRow == /\ worker.pc = "next"
           /\ \E item \in worker.todo :
                 worker' = [worker EXCEPT !.todo = @ \ {item}, !.item = item,
                                          !.pc = IF row[item.id].badId THEN "orphan" ELSE "get"]
           /\ UNCHANGED <<row, vm, req, destroy, faults, streak, unread>>

GetFound == /\ worker.pc = "get" /\ Exists(Me)
            /\ worker' = [worker EXCEPT !.pc = "clear", !.srv = vm[Me]]
            /\ streak' = [streak EXCEPT ![Me] = 0]
            /\ UNCHANGED <<row, vm, req, destroy, faults, unread>>

\* A hypervisor that answers "not found" of a server it has: the reason why one
\* miss is not enough.
GetMissing == /\ worker.pc = "get" /\ (~Exists(Me) \/ "notfound" \in Events)
              /\ Go("miss")
              /\ streak' = [streak EXCEPT ![Me] = UpTo(@ + 1)]
              /\ UNCHANGED <<row, vm, req, destroy, faults, unread>>

\* Mutant of CountMiss: misses of a row being reinstalled never orphan it.
CountMiss_NotReinstalling ==
    /\ worker.pc = "miss"
    /\ SetRow(Me, "miss", UpTo(row[Me].miss + 1))
    /\ IF row[Me].miss + 1 >= MissLimit /\ ~Reinstalling THEN Go("orphan") ELSE NextItem
    /\ UNCHANGED <<vm, req, destroy, faults, streak, unread>>

\* IncrementInstanceSyncMiss, compared with the limit.
CountMiss == /\ worker.pc = "miss"
             /\ SetRow(Me, "miss", UpTo(row[Me].miss + 1))
             /\ IF row[Me].miss + 1 >= MissLimit THEN Go("orphan") ELSE NextItem
             /\ UNCHANGED <<vm, req, destroy, faults, streak, unread>>

\* MarkInstanceOrphaned, ok unless the row was orphaned or deleted before.  The
\* refund depends on the state in the snapshot.
MarkOrphaned ==
    /\ worker.pc = "orphan"
    /\ IF row[Me].state \in {"orphaned", "deleted"}
       THEN NextItem /\ UNCHANGED row
       ELSE /\ SetRow(Me, "state", "orphaned")
            /\ IF Reinstalling THEN NextItem ELSE Go("refund")
    /\ UNCHANGED <<vm, req, destroy, faults, streak, unread>>

\* failVPSOrphanRefund.
Refund == /\ worker.pc = "refund"
          /\ NextItem
          /\ UNCHANGED <<row, vm, req, destroy, faults, streak, unread>>

\* Mutant of Decision: rows with a provision error are skipped before billing.
Decision_ErrorFirst(item, srv) ==
    IF item.state = "reinstalling" THEN IF ~srv.ip /\ item.ip THEN "clearip" ELSE "next"
    ELSE IF item.state = "error" \/ item.provErr THEN "next"
    ELSE IF item.blocked /\ On(srv) THEN "poweroff"
    ELSE "update"

\* Mutant of Decision: a reinstalling row keeps its address.
Decision_KeepIP(item, srv) ==
    IF item.state = "reinstalling" THEN "next"
    ELSE IF item.blocked /\ On(srv) THEN "poweroff"
    ELSE IF item.state = "error" \/ item.provErr
         THEN IF item.provErr /\ item.state = "running" /\ srv.ip /\ On(srv) THEN "heal" ELSE "next"
    ELSE "update"

\* What to do with the server that was found, in the order of the code.
Decision(item, srv) ==
    IF item.state = "reinstalling" THEN IF ~srv.ip /\ item.ip THEN "clearip" ELSE "next"
    ELSE IF item.blocked /\ On(srv) THEN "poweroff"
    ELSE IF item.state = "error" \/ item.provErr
         THEN IF item.provErr /\ item.state = "running" /\ srv.ip /\ On(srv) THEN "heal" ELSE "next"
    ELSE "update"

Decide == LET pc == Decision(worker.item, worker.srv)
          IN IF pc = "next" THEN NextItem ELSE Go(pc)

\* Mutant of ClearMiss: the count is kept.
ClearMiss_Kept == /\ worker.pc = "clear"
                  /\ Decide
                  /\ UNCHANGED <<row, vm, req, destroy, faults, streak, unread>>

\* ClearInstanceSyncMiss; its error is ignored (_ =).
ClearMiss == /\ worker.pc = "clear"
             /\ \/ SetRow(Me, "miss", 0) /\ UNCHANGED faults
                \/ Fault("clearerror") /\ UNCHANGED row
             /\ Decide
             /\ UNCHANGED <<vm, req, destroy, streak, unread>>

\* ClearInstanceIPDuringReinstall, ok while the row is being reinstalled.
ClearIP == /\ worker.pc = "clearip"
           /\ IF row[Me].state = "reinstalling" THEN SetRow(Me, "ip", FALSE) ELSE UNCHANGED row
           /\ NextItem
           /\ UNCHANGED <<vm, req, destroy, faults, streak, unread>>

\* enforceBillingPowerOff.
PowerOff == /\ worker.pc = "poweroff"
            /\ vm' = IF On(vm[Me]) THEN [vm EXCEPT ![Me].power = "off"] ELSE vm
            /\ Go("verify")
            /\ UNCHANGED <<row, req, destroy, faults, streak, unread>>

\* billingPowerOffApplied reads the server again.
Verify == /\ worker.pc = "verify"
          /\ IF On(vm[Me]) THEN NextItem ELSE Go("stopped")
          /\ UNCHANGED <<row, vm, req, destroy, faults, streak, unread>>

\* MarkInstanceStopped.
MarkStopped == /\ worker.pc = "stopped"
               /\ SetRow(Me, "state", "stopped")
               /\ NextItem
               /\ UNCHANGED <<vm, req, destroy, faults, streak, unread>>

\* ClearInstanceProvisionError.
Heal == /\ worker.pc = "heal"
        /\ SetRow(Me, "provErr", FALSE)
        /\ NextItem
        /\ UNCHANGED <<vm, req, destroy, faults, streak, unread>>

\* MapServerState: a commission status may call a stopped server running.
MapServerState(srv) == CASE srv.power = "on" -> {"running"}
                         [] srv.power = "off" -> {"running", "stopped"}
                         [] srv.power = "err" -> {"error"}

\* Mutant of Update: the state is stored, the address is not.
Update_StateOnly == /\ worker.pc = "update"
                    /\ \E state \in MapServerState(worker.srv) : SetRow(Me, "state", state)
                    /\ NextItem
                    /\ UNCHANGED <<vm, req, destroy, faults, streak, unread>>

\* Mutant of Update: the address is stored, the state is not.
Update_AddressOnly == /\ worker.pc = "update"
                      /\ SetRow(Me, "ip", worker.srv.ip)
                      /\ NextItem
                      /\ UNCHANGED <<vm, req, destroy, faults, streak, unread>>

\* UpdateInstanceFromHypervisor with what GetServer answered.
Update == /\ worker.pc = "update"
          /\ \E state \in MapServerState(worker.srv) :
                row' = [row EXCEPT ![Me].state = state, ![Me].ip = worker.srv.ip]
          /\ NextItem
          /\ UNCHANGED <<vm, req, destroy, faults, streak, unread>>

\* Any other error is logged, and the pass goes on with the next item.
StepFails == /\ \/ worker.pc \in {"get", "poweroff", "verify"} /\ Fault("hverror")
                \/ worker.pc \in {"miss", "orphan", "refund", "clearip", "stopped", "heal", "update"}
                   /\ Fault("dberror")
             /\ NextItem
             /\ UNCHANGED <<row, vm, req, destroy, streak, unread>>

\* The worker is restarted.
WorkerCrash == /\ worker.pc # "idle" /\ Fault("crash")
               /\ worker' = IdleWorker
               /\ UNCHANGED <<row, vm, req, destroy, streak, unread>>

-----------------------------------------------------------------------------
(* InstanceAction.                                                         *)

IdleRequest == [pc |-> "idle", id |-> None, action |-> None, blocked |-> FALSE,
                attempt |-> 0, overtaken |-> FALSE, unchecked |-> FALSE]

SetReq(h, r) == req' = [req EXCEPT ![h] = r]
Step(h, pc) == SetReq(h, [req[h] EXCEPT !.pc = pc])
Respond(h) == SetReq(h, IdleRequest)

\* A server must exist before it is used; deletion waits for a reinstall.
Accepts(i, action) == IF action = "delete"
                      THEN row[i].state \notin {"creating", "reinstalling"}
                      ELSE row[i].state # "creating" /\ row[i].ip

\* GetInstanceForUser and the guards on what it read.
Receive(h, i, action) ==
    /\ req[h].pc = "idle" /\ action \in Actions
    /\ row[i].state # "deleted" /\ Accepts(i, action)
    /\ SetReq(h, [IdleRequest EXCEPT !.pc = "check", !.id = i, !.action = action,
                                     !.blocked = row[i].blocked])
    /\ UNCHANGED <<row, vm, worker, destroy, faults, streak, unread>>

\* Mutant of Check: a reboot is not checked.
Check_StartOnly(h) ==
    /\ req[h].pc = "check"
    /\ IF req[h].action = "start" /\ (row[req[h].id].hold \/ req[h].blocked)
       THEN Respond(h)
       ELSE Step(h, IF req[h].action = "delete" THEN "enqueue" ELSE "power")
    /\ UNCHANGED <<row, vm, worker, destroy, faults, streak, unread>>

\* InstanceAbuseHold and InstanceAdminBlock let the request pass when they
\* fail; the billing status is the one GetInstanceForUser read.  When the
\* external ID cannot be read, a deletion goes on as if there were no server.
\* The three reads are one step: a hold that is placed between two of them, or
\* at any time after Receive, is counted as one that overtakes the request.
Check(h) ==
    LET r == req[h]
        Forbidden(hold) == r.action \in {"start", "reboot"} /\ (hold \/ r.blocked)
        Proceed == Step(h, IF r.action = "delete" THEN "enqueue" ELSE "power")
    IN /\ r.pc = "check"
       /\ \/ /\ IF Forbidden(row[r.id].hold) THEN Respond(h) ELSE Proceed
             /\ UNCHANGED <<faults, unread>>
          \/ /\ r.action \in {"start", "reboot"} /\ ~Forbidden(FALSE)
             /\ Fault("dberror")
             /\ SetReq(h, [r EXCEPT !.pc = "power", !.unchecked = TRUE])
             /\ UNCHANGED unread
          \/ /\ Fault("iderror")
             /\ IF r.action = "delete" THEN Step(h, "set") /\ unread' = unread \cup {r.id}
                                       ELSE Respond(h) /\ UNCHANGED unread
       /\ UNCHANGED <<row, vm, worker, destroy, streak>>

Effect(action) == IF action = "stop" THEN "off" ELSE "on"

\* runPowerWithRetry: the hypervisor does it, ...
PowerWorks(h) ==
    LET r == req[h] IN
    /\ r.pc = "power" /\ vm[r.id].power \in {"on", "off"}
    /\ vm' = [vm EXCEPT ![r.id].power = Effect(r.action)]
    /\ Step(h, "set")
    /\ UNCHANGED <<row, worker, destroy, faults, streak, unread>>

\* Mutant of PowerBusy: the attempts start again.
PowerBusy_Again(h) ==
    LET n == (req[h].attempt + 1) % PowerAttempts IN
    /\ req[h].pc = "power" /\ Exists(req[h].id)
    /\ SetReq(h, [req[h] EXCEPT !.attempt = n])
    /\ UNCHANGED <<row, vm, worker, destroy, faults, streak, unread>>

\* ... or it is busy and asked again, ...
PowerBusy(h) ==
    LET n == req[h].attempt + 1 IN
    /\ req[h].pc = "power" /\ Exists(req[h].id)
    /\ IF n >= PowerAttempts THEN Respond(h) ELSE SetReq(h, [req[h] EXCEPT !.attempt = n])
    /\ UNCHANGED <<row, vm, worker, destroy, faults, streak, unread>>

\* ... or it refuses.
PowerRefused(h) ==
    LET r == req[h] IN
    /\ r.pc = "power"
    /\ vm[r.id].power \in {"none", "err"} \/ (r.action = "reboot" /\ vm[r.id].power = "off")
    /\ Respond(h)
    /\ UNCHANGED <<row, vm, worker, destroy, faults, streak, unread>>

\* EnqueueInstanceDestroy, a transaction of its own.
Enqueue(h) == /\ req[h].pc = "enqueue"
              /\ destroy' = destroy \cup {req[h].id}
              /\ Step(h, "set")
              /\ UNCHANGED <<row, vm, worker, faults, streak, unread>>

TargetState(action) == CASE action = "stop" -> "stopped"
                         [] action = "delete" -> "deleted"
                         [] OTHER -> "running"

\* SetInstanceState.
SetState(h) == /\ req[h].pc = "set"
               /\ SetRow(req[h].id, "state", TargetState(req[h].action))
               /\ Respond(h)
               /\ UNCHANGED <<vm, worker, destroy, faults, streak, unread>>

\* Mutant of RequestFails: an error of EnqueueInstanceDestroy is only logged.
RequestFails_EnqueueLogged(h) ==
    /\ \/ /\ req[h].pc = "enqueue" /\ Fault("dberror")
          /\ Step(h, "set")
       \/ /\ req[h].pc # "idle" /\ Fault("apicrash")
          /\ Respond(h)
    /\ UNCHANGED <<row, vm, worker, destroy, streak, unread>>

\* A store call fails and the request is answered with an error, the client
\* goes away while it is retried, or the server is restarted.
RequestFails(h) ==
    /\ \/ req[h].pc \in {"enqueue", "set"} /\ Fault("dberror")
       \/ req[h].pc = "power" /\ Fault("hverror")
       \/ req[h].pc # "idle" /\ Fault("apicrash")
    /\ Respond(h)
    /\ UNCHANGED <<row, vm, worker, destroy, streak, unread>>

-----------------------------------------------------------------------------
(* The rest of the system, outside this repository.                        *)

Event(kind) == kind \in Events /\ UNCHANGED <<worker, faults, streak, unread>>

\* The provisioning job is done, with or without a provision error.
Provisioned(i) ==
    /\ row[i].state = "creating"
    /\ \E failed \in BOOLEAN, bad \in {b \in BOOLEAN : b => "badid" \in Events} :
          row' = [row EXCEPT ![i].state = "running", ![i].ip = TRUE, ![i].provErr = failed,
                             ![i].badId = bad]
    /\ vm' = [vm EXCEPT ![i] = [power |-> "on", ip |-> TRUE]]
    /\ UNCHANGED <<worker, req, destroy, faults, streak, unread>>

\* What is placed after a request has read the row overtakes it.
Overtake(i) == [h \in Requests |-> IF req[h].id = i THEN [req[h] EXCEPT !.overtaken = TRUE]
                                   ELSE req[h]]

Block(i) == /\ Event("block")
            /\ SetRow(i, "blocked", ~row[i].blocked)
            /\ req' = IF row[i].blocked THEN req ELSE Overtake(i)
            /\ UNCHANGED <<vm, destroy>>

Hold(i) == /\ Event("hold")
           /\ SetRow(i, "hold", ~row[i].hold)
           /\ req' = IF row[i].hold THEN req ELSE Overtake(i)
           /\ UNCHANGED <<vm, destroy>>

\* As in infra/openstack/sql/reinstall-tiql7p.sql; the rebuild keeps the server.
Reinstall(i) == /\ Event("reinstall")
                /\ row[i].state \in {"running", "stopped", "error"}
                /\ SetRow(i, "state", "reinstalling")
                /\ UNCHANGED <<vm, req, destroy>>

Reinstalled(i) == /\ Event("reinstall")
                  /\ row[i].state = "reinstalling" /\ Exists(i)
                  /\ \E failed \in BOOLEAN :
                        row' = [row EXCEPT ![i].state = "running", ![i].provErr = failed]
                  /\ vm' = [vm EXCEPT ![i].power = "on"]
                  /\ UNCHANGED <<req, destroy>>

\* The destroy job, and a server that is lost on the hypervisor.
Lost == [power |-> "none", ip |-> FALSE]

Destroy(i) == /\ i \in destroy
              /\ destroy' = destroy \ {i}
              /\ vm' = [vm EXCEPT ![i] = Lost]
              /\ UNCHANGED <<row, worker, req, faults, streak, unread>>

Vanish(i) == /\ Event("vanish") /\ Exists(i)
             /\ vm' = [vm EXCEPT ![i] = Lost]
             /\ UNCHANGED <<row, req, destroy>>

\* The server changes on its own: it shuts down, fails, loses or gets its address.
Shutdown(i) == /\ Event("shutdown") /\ On(vm[i])
               /\ vm' = [vm EXCEPT ![i].power = "off"]
               /\ UNCHANGED <<row, req, destroy>>

Fails(i) == /\ Event("fail") /\ On(vm[i])
            /\ vm' = [vm EXCEPT ![i].power = "err"]
            /\ UNCHANGED <<row, req, destroy>>

Readdress(i) == /\ Event("address") /\ Exists(i)
                /\ vm' = [vm EXCEPT ![i].ip = ~@]
                /\ UNCHANGED <<row, req, destroy>>

-----------------------------------------------------------------------------
Init == /\ row = [i \in Instances |-> [state |-> "creating", miss |-> 0, ip |-> FALSE,
                                       blocked |-> FALSE, hold |-> FALSE, provErr |-> FALSE,
                                       badId |-> FALSE]]
        /\ vm = [i \in Instances |-> Lost]
        /\ worker = IdleWorker
        /\ req = [h \in Requests |-> IdleRequest]
        /\ destroy = {}
        /\ faults = 0
        /\ streak = [i \in Instances |-> 0]
        /\ unread = {}

Pass == \/ ListRows \/ EndPass \/ NextRow \/ GetFound \/ GetMissing \/ CountMiss
        \/ MarkOrphaned \/ Refund \/ ClearMiss \/ ClearIP \/ PowerOff \/ Verify
        \/ MarkStopped \/ Heal \/ Update \/ StepFails

Handle(h) == \/ Check(h) \/ PowerWorks(h) \/ PowerBusy(h) \/ PowerRefused(h)
             \/ Enqueue(h) \/ SetState(h) \/ RequestFails(h)

Environment(i) == \/ Provisioned(i) \/ Block(i) \/ Hold(i) \/ Reinstall(i) \/ Reinstalled(i)
                  \/ Destroy(i) \/ Vanish(i) \/ Shutdown(i) \/ Fails(i) \/ Readdress(i)

Next == \/ Pass \/ WorkerCrash
        \/ \E h \in Requests : \/ Handle(h)
                               \/ \E i \in Instances, a \in AllActions : Receive(h, i, a)
        \/ \E i \in Instances : Environment(i)

Spec == Init /\ [][Next]_vars

\* The worker runs pass after pass, every request is handled.  A batch is
\* worked off in some order, so that each pass reaches every row it lists; while
\* there are more than BatchLimit, it is the store that has to list each in turn.
FairSpec == Spec /\ WF_vars(Pass) /\ \A h \in Requests : WF_vars(Handle(h))

-----------------------------------------------------------------------------
(* Safety.                                                                 *)

\* Every count of misses that ends has been cleared: ClearInstanceSyncMiss has not
\* failed, and the worker has not been restarted before it.
Remembers == Events \cap {"clearerror", "crash"} = {} \/ faults = 0

\* A row with a valid external ID is orphaned only after GetServer has answered
\* "not found" MissLimit times without finding the server in between, over several
\* passes and whatever else failed meanwhile.  Where a count may have been kept by
\* a failure or a restart fewer will do, but never none: a server that was found
\* when it was last looked for is not given up (sync_instances.go:39-54, 102-119).
OrphanAfterMisses ==
    [][\A i \in Instances :
          ~row[i].badId /\ row[i].state # "orphaned" /\ row'[i].state = "orphaned"
             => streak[i] = MissLimit \/ (~Remembers /\ streak[i] # 0)]_vars

\* A request powers on a server that is blocked or on hold only when the block
\* came after the request had read the row, or when the query for holds failed
\* and billing had not blocked it (handler.go:634-650, 682, 728).
StartsOnlyUnblocked ==
    [][\A h \in Requests, i \in Instances :
          /\ req[h].id = i /\ req'[h] # req[h]
          /\ ~On(vm[i]) /\ On(vm'[i])
          /\ row[i].blocked \/ row[i].hold
          => req[h].overtaken \/ (req[h].unchecked /\ ~req[h].blocked)]_vars

\* The server of a deleted row is gone or has a destroy event: the event is
\* written before the row, so that neither a failed call nor a restart between
\* the two transactions leaves a server that nobody owns and nobody deletes
\* (handler.go:745-767).  The exception is the code's: a deletion that cannot read
\* the external ID marks the row all the same (handler.go:652-658).
DeletedIsDestroyed ==
    \A i \in Instances : row[i].state = "deleted" => ~Exists(i) \/ i \in destroy \/ i \in unread

\* sync_instances.go:88 says of reinstalling rows: "Missing VF servers are
\* orphaned without refund".
ReinstallingNotRefunded ==
    [][worker.pc = "orphan" /\ worker'.pc = "refund" => row[Me].state # "reinstalling"]_vars

-----------------------------------------------------------------------------
(* The inductive invariant.                                                *)

Busy == worker.pc \notin {"idle", "next"}
At(i, pc) == worker.pc = pc /\ Me = i

\* What the worker works with is there.
WorkerInv ==
    /\ Busy => worker.item \in Item
    /\ worker.pc \in {"clear", "clearip", "poweroff", "verify", "stopped", "heal", "update"} =>
          worker.srv \in Vm /\ worker.srv.power # "none"

\* Whoever holds a row has seen it provisioned.
HeldInv == /\ \A item \in worker.todo : row[item.id].state # "creating"
           /\ Busy => row[Me].state # "creating"
           /\ \A h \in Requests : req[h].pc # "idle" =>
                 /\ req[h].id \in Instances /\ req[h].action \in AllActions
                 /\ row[req[h].id].state # "creating"

\* The count in the database is no higher than the number of misses in a row,
\* the one that is being counted included; and a miss is the last thing that was
\* heard of a server that is missed.
Counted(i) == \/ At(i, "clear")
              \/ UpTo(row[i].miss + (IF At(i, "miss") THEN 1 ELSE 0)) <= streak[i]

MissInv ==
    /\ Remembers => /\ \A i \in Instances : Counted(i)
                    /\ worker.pc = "orphan" => row[Me].badId \/ streak[Me] = MissLimit
    /\ worker.pc \in {"miss", "orphan"} => row[Me].badId \/ streak[Me] # 0

\* A deletion marks the row only after the server is taken care of.
Gone(i) == ~Exists(i) \/ i \in destroy \/ i \in unread

GoneInv ==
    /\ \A i \in Instances : row[i].state = "deleted" => Gone(i)
    /\ \A h \in Requests : req[h].pc = "set" /\ req[h].action = "delete" => Gone(req[h].id)

\* What a request still has to find out, and what it has found out.
BlockInv == \A h \in Requests :
    LET r == req[h] IN
    /\ r.pc = "check" /\ row[r.id].blocked => r.blocked \/ r.overtaken
    /\ r.pc = "power" /\ r.action \in {"start", "reboot"} /\ (row[r.id].blocked \/ row[r.id].hold)
          => r.overtaken \/ (r.unchecked /\ ~r.blocked)
    /\ r.pc = "power" => r.action # "delete"

IInv == TypeOK /\ WorkerInv /\ HeldInv /\ MissInv /\ GoneInv /\ BlockInv

-----------------------------------------------------------------------------
(* Liveness.                                                               *)

\* A server whose billing stays blocked ends up powered off for good, whatever
\* start requests were under way when it was blocked, and also when its row is
\* in error or has a provision error (sync_instances.go:58-68).
BillingPowersOff ==
    \A i \in Instances :
        <>[](row[i].blocked /\ row[i].state \in {"running", "stopped", "error"})
            => <>[]~On(vm[i])

\* A row whose server is gone is orphaned or deleted in the end, whatever power
\* requests and reinstalls happen to it meanwhile (sync_instances.go:37-52, 100-117).
MissingSettles ==
    \A i \in Instances :
        row[i].state # "creating" /\ ~Exists(i) ~> row[i].state \in {"orphaned", "deleted"}

\* A server that stays on is shown as running in the end, unless its row is in
\* error, which the pass leaves alone: late writes of requests and of stale batches
\* are corrected (sync_instances.go:57, 69-82).
RunningShown ==
    \A i \in Instances :
        <>[](/\ On(vm[i]) /\ ~row[i].blocked /\ ~row[i].provErr
             /\ row[i].state \in {"running", "stopped"})
            => <>[](row[i].state = "running")

\* A provision error does not outlive the proof that provisioning worked
\* (sync_instances.go:69-76).
ProvisionErrorHeals ==
    \A i \in Instances :
        <>[](On(vm[i]) /\ vm[i].ip /\ ~row[i].blocked /\ row[i].state = "running")
            => <>[]~row[i].provErr

\* The address of a row being reinstalled is given up once the server has none
\* (sync_instances.go:89, 120-126).
StaleIP(i) == row[i].state = "reinstalling" /\ row[i].ip /\ Exists(i) /\ ~vm[i].ip

StaleIPReleased == \A i \in Instances : StaleIP(i) ~> ~StaleIP(i)

\* A server that stays on and has its address is shown with it in the end: a pass
\* may clear the address of a row after the server got it back, or when the
\* reinstall is over, but a later one puts it back (sync_instances.go:79-82, 120-126).
AddressShown ==
    \A i \in Instances :
        <>[](/\ On(vm[i]) /\ vm[i].ip /\ ~row[i].blocked /\ ~row[i].provErr
             /\ row[i].state \in {"running", "stopped"})
            => <>[]row[i].ip

\* Every request is answered: a busy hypervisor is asked PowerAttempts times.
RequestsEnd == \A h \in Requests : req[h].pc # "idle" ~> req[h].pc = "idle"
=============================================================================
