---------------------------- MODULE FloatingIPs ----------------------------
(***************************************************************************)
(* The public IPv4 life cycle of the OpenStack adapter                     *)
(* (internal/openstack/adapter.go, floatingip.go, ip.go).                  *)
(*                                                                         *)
(* Every adapter method that touches floating IPs is a call that runs      *)
(* concurrently with the other calls (API handlers, the sync loop, the     *)
(* provisioning and destroy jobs) and with Nova and Neutron.  Each HTTP    *)
(* request is one step; what a listing returned is remembered by the call  *)
(* and may be stale when it is used.  A request may fail before it is      *)
(* executed, or be executed and lose its answer.                           *)
(*                                                                         *)
(* Neutron identifies a floating IP by a UUID, not by its address: the     *)
(* identity is the pair (address, tag), and a new allocation takes a tag   *)
(* that no running call remembers for that address.  Ports are handled     *)
(* the same way.  Only that much of a UUID's uniqueness can be observed,   *)
(* and it keeps the state space finite for histories of any length.        *)
(***************************************************************************)
EXTENDS Naturals

CONSTANTS
    Servers,          \* Nova servers of the portal
    Ports,            \* Neutron ports
    Addrs,            \* addresses of the floating network
    Tags,             \* allocation tags (natural numbers)
    Calls,            \* adapter calls that may be in progress at once
    OpsOf,            \* OpsOf[c]: the methods that call c is used for
    None,             \* a model value
    FloatingNetwork,  \* OPENSTACK_FLOATING_NETWORK_ID is set
    PortAttempts,     \* attempts of serverPortIDWithRetry (30 in the code)
    MaxExtra,         \* bound: the largest quantity asked of AddExtraIPv4
    MaxFaults,        \* bound: requests that fail or lose their answer
    LateCalls         \* callers holding a stale row may name a deleted server

Ops == {"GetServer", "BuildServer", "ReinstallServer", "AddPrimaryIPv4",
        "AddExtraIPv4", "RemovePrimaryIPv4", "DeleteServer", "HasFreePrimaryIPv4"}

ASSUME NoneAssumption == None \notin Servers \cup Ports \cup Addrs \cup Tags /\ None \notin Ops
\* What AddressPool calls Free and Idle below are not servers.
ASSUME HolderAssumption == {"free", "idle"} \cap Servers = {}
ASSUME TagsAssumption == Tags \subseteq Nat
ASSUME OpsAssumption == OpsOf \in [Calls -> SUBSET Ops]
ASSUME FlagAssumption == FloatingNetwork \in BOOLEAN /\ LateCalls \in BOOLEAN
ASSUME BoundAssumption == /\ PortAttempts \in Nat \ {0}
                          /\ MaxExtra \in Nat
                          /\ MaxFaults \in Nat

VARIABLES
    status,    \* Nova: the status of each server
    owner,     \* Neutron: the server each port belongs to, None if it does not exist
    fip,       \* Neutron: the floating IP at each address, None if it is free
    call,      \* the adapter calls in progress
    deleted,   \* servers whose portal row is deleted: DeleteServer was called
    replaced,  \* addresses AddPrimaryIPv4 swapped out, which its caller is left to remove
    faults     \* requests that failed or lost their answer so far

vars == <<status, owner, fip, call, deleted, replaced, faults>>
nova == <<status, deleted>>

-----------------------------------------------------------------------------
(* Types.                                                                  *)

Statuses == {"NEW", "BUILD", "ACTIVE", "SHUTOFF", "REBUILD", "ERROR", "DELETING", "GONE"}

FloatingIP == [tag : Tags, port : Ports \cup {None}]

\* floatingIPRecord: ID is the pair of addr and tag, Address is addr.
FipRec == [addr : Addrs, tag : Tags, port : Ports \cup {None}]

\* "No floating IP" is not one.
ASSUME RecordAssumption == None \notin FloatingIP \cup FipRec

Steps == {"idle", "get", "boot", "rebuild", "ports", "fips", "wait", "port", "create",
          "attach", "find", "detach", "drop", "probe", "novadel"}

CallRec == [op    : Ops \cup {None},
            pc    : Steps,
            srv   : Servers \cup {None},
            port  : Ports \cup {None},      \* the port the call works on
            want  : Addrs \cup {None},      \* the address RemovePrimaryIPv4 was given
            ports : SUBSET Ports,           \* ports listed for the server
            fips  : SUBSET FipRec,          \* floating IPs listed and still to handle
            cur   : FipRec \cup {None},     \* the floating IP to delete next
            left  : Nat]                    \* retries or interfaces left

TypeOK == /\ status \in [Servers -> Statuses]
          /\ owner \in [Ports -> Servers \cup {None}]
          /\ fip \in [Addrs -> FloatingIP \cup {None}]
          /\ call \in [Calls -> CallRec]
          /\ deleted \subseteq Servers
          /\ replaced \subseteq Addrs
          /\ faults \in 0..MaxFaults

-----------------------------------------------------------------------------
(* What Neutron and the calls know.                                        *)

PortsOf(s) == {p \in Ports : owner[p] = s}

\* The addresses attached to the ports in P.
AddrsOn(P) == {a \in Addrs : fip[a] # None /\ fip[a].port \in P}

HeldBy(s) == AddrsOn(PortsOf(s))

\* Mutant of Live: floating IPs are named by their address.
Live_ByAddress(r) == fip[r.addr] # None

\* The floating IP that record r identifies still exists.
Live(r) == fip[r.addr] # None /\ fip[r.addr].tag = r.tag

\* The floating IPs call k may still name in a request.
Known(k) == k.fips \cup (IF k.cur = None THEN {} ELSE {k.cur})

FreshTags(a) ==
    {t \in Tags : \A c \in Calls : \A r \in Known(call[c]) : r.addr = a => r.tag # t}

\* One representative is enough: the fresh tags are interchangeable.
FreshTag(a) == CHOOSE t \in FreshTags(a) : TRUE

FreshPorts == {p \in Ports : /\ owner[p] = None
                             /\ \A c \in Calls : p # call[c].port /\ p \notin call[c].ports}

Available(a) == fip[a] = None /\ FreshTags(a) # {}

RecordOf(a) == [addr |-> a, tag |-> fip[a].tag, port |-> fip[a].port]

-----------------------------------------------------------------------------
(* How a call goes on, answers and fails.                                  *)

IdleCall == [op |-> None, pc |-> "idle", srv |-> None, port |-> None, want |-> None,
             ports |-> {}, fips |-> {}, cur |-> None, left |-> 0]

NewCall(op, pc, s, want, left) ==
    [op |-> op, pc |-> pc, srv |-> s, port |-> None, want |-> want,
     ports |-> {}, fips |-> {}, cur |-> None, left |-> left]

\* The call continues at step pc.
At(k, pc) == [k EXCEPT !.pc = pc]

\* DeleteServer only logs the error of releaseServerFloatingIPs, which gives up
\* at its first error, and goes on to delete the server.
DeleteNova(k) == [k EXCEPT !.pc = "novadel", !.ports = {}, !.fips = {}, !.cur = None]

\* Mutant of Failed: the attempts of serverPortIDWithRetry are not bounded.
Failed_RetryForever(k) ==
    IF k.op = "DeleteServer" /\ k.pc # "novadel" THEN DeleteNova(k)
    ELSE IF k.pc = "port" THEN k
    ELSE IdleCall

\* What a call does when its request fails.
Failed(k) ==
    IF k.op = "DeleteServer" /\ k.pc # "novadel" THEN DeleteNova(k)
    ELSE IF k.pc = "port" /\ k.left > 1 THEN [k EXCEPT !.left = k.left - 1]
    ELSE IdleCall

SetCall(c, k) == call' = [call EXCEPT ![c] = k]

\* The request of call c was executed; its answer arrives, or is lost.
Answer(c, k) == \/ SetCall(c, k) /\ UNCHANGED faults
                \/ /\ faults < MaxFaults
                   /\ faults' = faults + 1
                   /\ SetCall(c, Failed(call[c]))

\* The request of call c was refused.
Refused(c) == SetCall(c, Failed(call[c])) /\ UNCHANGED faults

-----------------------------------------------------------------------------
(* The entry points.                                                       *)

Start(c, op, pc, s, want, left) ==
    /\ call[c].pc = "idle"
    /\ op \in OpsOf[c]
    /\ SetCall(c, NewCall(op, pc, s, want, left))
    /\ UNCHANGED <<status, owner, fip, replaced, faults>>

\* Callers read the portal row of the server first.
Callable(s) == status[s] # "NEW" /\ (LateCalls \/ s \notin deleted)

GetServer(c, s) == Callable(s) /\ Start(c, "GetServer", "get", s, None, 0) /\ UNCHANGED deleted

BuildServer(c, s) ==
    Callable(s) /\ Start(c, "BuildServer", "boot", s, None, 0) /\ UNCHANGED deleted

ReinstallServer(c, s) ==
    Callable(s) /\ Start(c, "ReinstallServer", "rebuild", s, None, 0) /\ UNCHANGED deleted

AddPrimaryIPv4(c, s) ==
    Callable(s) /\ Start(c, "AddPrimaryIPv4", "ports", s, None, 0) /\ UNCHANGED deleted

AddExtraIPv4(c, s) ==
    /\ Callable(s)
    /\ \E qty \in 1..MaxExtra : Start(c, "AddExtraIPv4", "attach", s, None, qty)
    /\ UNCHANGED deleted

\* The address comes from the caller; the server ID is ignored (_ = serverID).
RemovePrimaryIPv4(c, s) ==
    /\ Callable(s)
    /\ \E a \in Addrs : Start(c, "RemovePrimaryIPv4", "find", s, a, 0)
    /\ UNCHANGED deleted

\* The destroy job may call it again.
DeleteServer(c, s) == /\ status[s] # "NEW"
                      /\ Start(c, "DeleteServer", "ports", s, None, 0)
                      /\ deleted' = deleted \cup {s}

\* Without a floating network it answers true at once.
HasFreePrimaryIPv4(c) == /\ FloatingNetwork
                         /\ Start(c, "HasFreePrimaryIPv4", "probe", None, None, 0)
                         /\ UNCHANGED deleted

-----------------------------------------------------------------------------
(* The requests, one step each.                                            *)

\* Mutant of GetNova: GetServer reads the server without ensuring an address.
GetNova_NoEnsure(c) ==
    /\ call[c].pc = "get"
    /\ SetCall(c, IdleCall)
    /\ UNCHANGED <<nova, owner, fip, replaced, faults>>

\* Mutant of GetNova: GetServer assigns an address without listing first.
GetNova_NoCheck(c) ==
    /\ call[c].pc = "get"
    /\ SetCall(c, IF status[call[c].srv] = "GONE" \/ ~FloatingNetwork
                  THEN IdleCall ELSE At(call[c], "wait"))
    /\ UNCHANGED <<nova, owner, fip, replaced, faults>>

\* GetServer: servers.Get, 404 once the server is gone.  Without a floating
\* network ensureServerFloatingIP returns at once.
GetNova(c) ==
    /\ call[c].pc = "get"
    /\ SetCall(c, IF status[call[c].srv] = "GONE" \/ ~FloatingNetwork
                  THEN IdleCall ELSE At(call[c], "ports"))
    /\ UNCHANGED <<nova, owner, fip, replaced, faults>>

\* Nova shows a server as ACTIVE until the deletion is over.
LooksActive(s) == status[s] \in {"ACTIVE", "DELETING"}

\* BuildServer and ReinstallServer: waitServerActive before the ensure.
WaitBoot(c) ==
    LET s == call[c].srv IN
    /\ call[c].pc = "boot"
    /\ \/ LooksActive(s) /\ SetCall(c, IF FloatingNetwork THEN At(call[c], "ports") ELSE IdleCall)
       \/ status[s] # "ACTIVE" /\ SetCall(c, Failed(call[c]))
    /\ UNCHANGED <<nova, owner, fip, replaced, faults>>

\* ReinstallServer: servers.Rebuild.
Rebuild(c) ==
    LET s == call[c].srv IN
    /\ call[c].pc = "rebuild"
    /\ \/ /\ status[s] \in {"ACTIVE", "SHUTOFF", "ERROR"}
          /\ status' = [status EXCEPT ![s] = "REBUILD"]
          /\ Answer(c, At(call[c], "boot"))
       \/ /\ status[s] \notin {"ACTIVE", "SHUTOFF", "ERROR"}
          /\ Refused(c)
          /\ UNCHANGED status
    /\ UNCHANGED <<owner, fip, deleted, replaced>>

\* What the method does with the floating IPs that listServerFloatingIPs found.
\* AddPrimaryIPv4 lists them twice: the second time it has chosen the primary
\* port and detaches those of that port only.
AfterList(k, found) ==
    LET mine == {r \in found : r.port = k.port} IN
    IF k.op = "DeleteServer"
    THEN IF found = {} THEN DeleteNova(k) ELSE [k EXCEPT !.pc = "detach", !.fips = found]
    ELSE IF k.op = "AddPrimaryIPv4" /\ k.port = None
    THEN [k EXCEPT !.pc = "port", !.fips = found, !.left = 1]
    ELSE IF k.op = "AddPrimaryIPv4"
    THEN [k EXCEPT !.pc = IF mine = {} THEN "create" ELSE "detach", !.fips = mine]
    ELSE IF found = {} THEN At(k, "wait") ELSE IdleCall

\* listServerFloatingIPs, first request: the ports of the server.
ListPorts(c) ==
    LET listed == PortsOf(call[c].srv)
        k == [call[c] EXCEPT !.ports = listed]
    IN /\ call[c].pc = "ports"
       /\ SetCall(c, IF listed = {} THEN AfterList(k, {}) ELSE At(k, "fips"))
       /\ UNCHANGED <<nova, owner, fip, replaced, faults>>

\* Mutant of ListFips: the floating IPs of one port only.
ListFips_OnePort(c) ==
    /\ call[c].pc = "fips"
    /\ \E p \in call[c].ports :
          SetCall(c, AfterList(call[c], {RecordOf(a) : a \in AddrsOn({p})}))
    /\ UNCHANGED <<nova, owner, fip, replaced, faults>>

\* listServerFloatingIPs, second request: all floating IPs, filtered by port.
ListFips(c) ==
    /\ call[c].pc = "fips"
    /\ SetCall(c, AfterList(call[c], {RecordOf(a) : a \in AddrsOn(call[c].ports)}))
    /\ UNCHANGED <<nova, owner, fip, replaced, faults>>

\* assignFloatingIP: waitServerActive, then serverPortIDWithRetry.
WaitActive(c) ==
    LET s == call[c].srv IN
    /\ call[c].pc = "wait"
    /\ \/ LooksActive(s) /\ SetCall(c, [call[c] EXCEPT !.pc = "port", !.left = PortAttempts])
       \/ status[s] # "ACTIVE" /\ SetCall(c, Failed(call[c]))
    /\ UNCHANGED <<nova, owner, fip, replaced, faults>>

\* serverPortID: the first port listed, in an order Neutron does not promise.
\* AddPrimaryIPv4 that found floating IPs lists them again before it swaps.
PickPort(c) ==
    LET listed == PortsOf(call[c].srv)
        pc == IF call[c].fips = {} THEN "create" ELSE "ports"
    IN /\ call[c].pc = "port"
       /\ \/ \E p \in listed :
                SetCall(c, [call[c] EXCEPT !.pc = pc, !.port = p, !.fips = {}])
          \/ listed = {} /\ SetCall(c, Failed(call[c]))
       /\ UNCHANGED <<nova, owner, fip, replaced, faults>>

\* createFloatingIPForPort.  AddExtraIPv4 goes on with its next interface.
AfterCreate(k) ==
    IF k.op = "AddExtraIPv4" /\ k.left > 1
    THEN [k EXCEPT !.pc = "attach", !.port = None, !.left = k.left - 1]
    ELSE IdleCall

\* Neutron refuses a port that is gone or has a floating IP already.
CanCarry(p) == owner[p] # None /\ AddrsOn({p}) = {}

CreateFip(c) ==
    LET p == call[c].port IN
    /\ call[c].pc = "create"
    /\ FloatingNetwork
    /\ CanCarry(p)
    /\ \E a \in Addrs : /\ Available(a)
                        /\ fip' = [fip EXCEPT ![a] = [tag |-> FreshTag(a), port |-> p]]
    /\ Answer(c, AfterCreate(call[c]))
    /\ UNCHANGED <<nova, owner, replaced>>

CreateRefused(c) ==
    /\ call[c].pc = "create"
    /\ \/ ~FloatingNetwork
       \/ ~CanCarry(call[c].port)
       \/ \A a \in Addrs : ~Available(a)
    /\ Refused(c)
    /\ UNCHANGED <<nova, owner, fip, replaced>>

\* attachExtraInterfaceWithFIP: Nova plugs a new port.
Attachable(s) == status[s] \in {"ACTIVE", "SHUTOFF"}

AttachInterface(c) ==
    LET s == call[c].srv IN
    /\ call[c].pc = "attach"
    /\ \/ /\ Attachable(s)
          /\ \E p \in FreshPorts :
                /\ owner' = [owner EXCEPT ![p] = s]
                /\ Answer(c, [call[c] EXCEPT !.pc = "create", !.port = p])
       \/ /\ ~Attachable(s) \/ FreshPorts = {}
          /\ Refused(c)
          /\ UNCHANGED owner
    /\ UNCHANGED <<nova, fip, replaced>>

\* Mutant of FindFip: RemovePrimaryIPv4 deletes without disassociating first.
FindFip_DropAttached(c) ==
    LET a == call[c].want IN
    /\ call[c].pc = "find"
    /\ SetCall(c, IF a = None \/ fip[a] = None THEN Failed(call[c])
                  ELSE [call[c] EXCEPT !.pc = "drop", !.cur = RecordOf(a)])
    /\ UNCHANGED <<nova, owner, fip, replaced, faults>>

\* findFloatingIPByAddress, whatever it is attached to; an empty address is an error.
FindFip(c) ==
    LET a == call[c].want IN
    /\ call[c].pc = "find"
    /\ SetCall(c, IF a = None \/ fip[a] = None THEN Failed(call[c])
                  ELSE [call[c] EXCEPT !.pc = "detach", !.fips = {RecordOf(a)}])
    /\ UNCHANGED <<nova, owner, fip, replaced, faults>>

\* After disassociateFloatingIP: the swap detaches the others and then creates,
\* removal and deletion delete the floating IP first.
AfterDetach(k, r) ==
    LET rest == k.fips \ {r} IN
    IF k.op = "AddPrimaryIPv4"
    THEN [k EXCEPT !.pc = IF rest = {} THEN "create" ELSE "detach", !.fips = rest]
    ELSE [k EXCEPT !.pc = "drop", !.fips = rest, !.cur = r]

DetachFip(c, r) ==
    /\ call[c].pc = "detach" /\ r \in call[c].fips
    /\ Live(r)
    /\ fip' = [fip EXCEPT ![r.addr] = [tag |-> r.tag, port |-> None]]
    /\ replaced' = IF call[c].op = "AddPrimaryIPv4" THEN replaced \cup {r.addr} ELSE replaced
    /\ Answer(c, AfterDetach(call[c], r))
    /\ UNCHANGED <<nova, owner>>

DetachMissing(c, r) ==
    /\ call[c].pc = "detach" /\ r \in call[c].fips
    /\ ~Live(r)
    /\ Refused(c)
    /\ UNCHANGED <<nova, owner, fip, replaced>>

\* Mutant of AfterDrop: only the first floating IP is released.
AfterDrop_FirstOnly(k) == IF k.op # "DeleteServer" THEN IdleCall ELSE DeleteNova(k)

\* After deleteFloatingIP.
AfterDrop(k) ==
    IF k.op # "DeleteServer" THEN IdleCall
    ELSE IF k.fips = {} THEN DeleteNova(k)
    ELSE [k EXCEPT !.pc = "detach", !.cur = None]

DropFip(c) ==
    LET r == call[c].cur IN
    /\ call[c].pc = "drop"
    /\ Live(r)
    /\ fip' = [fip EXCEPT ![r.addr] = None]
    /\ replaced' = replaced \ {r.addr}
    /\ Answer(c, AfterDrop(call[c]))
    /\ UNCHANGED <<nova, owner>>

DropMissing(c) ==
    /\ call[c].pc = "drop"
    /\ ~Live(call[c].cur)
    /\ Refused(c)
    /\ UNCHANGED <<nova, owner, fip, replaced>>

\* hasFreeFloatingIP: allocates an address without a port, to delete it again.
ProbePool(c) ==
    /\ call[c].pc = "probe"
    /\ \E a \in Addrs :
          LET r == [addr |-> a, tag |-> FreshTag(a), port |-> None] IN
          /\ Available(a)
          /\ fip' = [fip EXCEPT ![a] = [tag |-> r.tag, port |-> None]]
          /\ Answer(c, [call[c] EXCEPT !.pc = "drop", !.cur = r])
    /\ UNCHANGED <<nova, owner, replaced>>

ProbeRefused(c) ==
    /\ call[c].pc = "probe"
    /\ \A a \in Addrs : ~Available(a)
    /\ Refused(c)
    /\ UNCHANGED <<nova, owner, fip, replaced>>

\* DeleteServer: servers.Delete.
NovaDelete(c) ==
    LET s == call[c].srv IN
    /\ call[c].pc = "novadel"
    /\ status' = [status EXCEPT ![s] = IF @ = "GONE" THEN @ ELSE "DELETING"]
    /\ Answer(c, IdleCall)
    /\ UNCHANGED <<owner, fip, deleted, replaced>>

\* A request of call c fails and is not executed.
ApiError(c) ==
    /\ call[c].pc # "idle"
    /\ faults < MaxFaults
    /\ faults' = faults + 1
    /\ SetCall(c, Failed(call[c]))
    /\ UNCHANGED <<nova, owner, fip, replaced>>

-----------------------------------------------------------------------------
(* Nova and Neutron on their own.                                          *)

SetStatus(s, from, to) ==
    /\ status[s] \in from
    /\ status' = [status EXCEPT ![s] = to]
    /\ UNCHANGED <<owner, fip, call, deleted, replaced, faults>>

\* The adapter's CreateServer (AllocateServer, createNovaServer): one port on
\* the network is asked for, and Nova plugs it while it builds.
CreateServer(s) == SetStatus(s, {"NEW"}, "BUILD")

PlugPort(s, p) ==
    /\ status[s] = "BUILD" /\ PortsOf(s) = {}
    /\ p \in FreshPorts
    /\ owner' = [owner EXCEPT ![p] = s]
    /\ UNCHANGED <<nova, fip, call, replaced, faults>>

BootDone(s) == PortsOf(s) # {} /\ SetStatus(s, {"BUILD", "REBUILD"}, "ACTIVE")
BootFails(s) == SetStatus(s, {"BUILD", "REBUILD"}, "ERROR")
Stop(s) == SetStatus(s, {"ACTIVE"}, "SHUTOFF")     \* StopServer, PowerOffServer
Resume(s) == SetStatus(s, {"SHUTOFF"}, "ACTIVE")   \* StartServer

\* The server goes: Neutron removes its ports, which detaches their floating IPs.
RemovePort(s, p) ==
    /\ status[s] = "DELETING" /\ owner[p] = s
    /\ owner' = [owner EXCEPT ![p] = None]
    /\ fip' = [a \in Addrs |-> IF a \in AddrsOn({p}) THEN [fip[a] EXCEPT !.port = None] ELSE fip[a]]
    /\ UNCHANGED <<nova, call, replaced, faults>>

ServerGone(s) == PortsOf(s) = {} /\ SetStatus(s, {"DELETING"}, "GONE")

-----------------------------------------------------------------------------
Init == /\ status = [s \in Servers |-> "NEW"]
        /\ owner = [p \in Ports |-> None]
        /\ fip = [a \in Addrs |-> None]
        /\ call = [c \in Calls |-> IdleCall]
        /\ deleted = {}
        /\ replaced = {}
        /\ faults = 0

Begin(c, s) == \/ GetServer(c, s) \/ BuildServer(c, s) \/ ReinstallServer(c, s)
               \/ AddPrimaryIPv4(c, s) \/ AddExtraIPv4(c, s) \/ RemovePrimaryIPv4(c, s)
               \/ DeleteServer(c, s)

\* The next request of a call in progress.
Request(c) == \/ GetNova(c) \/ WaitBoot(c) \/ Rebuild(c) \/ ListPorts(c) \/ ListFips(c)
              \/ WaitActive(c) \/ PickPort(c) \/ CreateFip(c) \/ CreateRefused(c)
              \/ AttachInterface(c) \/ FindFip(c)
              \/ \E r \in call[c].fips : DetachFip(c, r) \/ DetachMissing(c, r)
              \/ DropFip(c) \/ DropMissing(c) \/ ProbePool(c) \/ ProbeRefused(c)
              \/ NovaDelete(c)

Cloud(s) == \/ CreateServer(s) \/ BootDone(s) \/ BootFails(s) \/ Stop(s) \/ Resume(s)
            \/ ServerGone(s)
            \/ \E p \in Ports : PlugPort(s, p) \/ RemovePort(s, p)

Next == \/ \E c \in Calls : \/ HasFreePrimaryIPv4(c) \/ Request(c) \/ ApiError(c)
                            \/ \E s \in Servers : Begin(c, s)
        \/ \E s \in Servers : Cloud(s)

Spec == Init /\ [][Next]_vars

\* Requests are answered and Nova finishes what it started; the sync loop
\* (cmd/worker) calls GetServer for the server again and again.
Fairness ==
    /\ \A c \in Calls : WF_vars(Request(c))
    /\ \A s \in Servers : /\ WF_vars(BootDone(s))
                          /\ WF_vars(\E p \in Ports : PlugPort(s, p))
                          /\ WF_vars(ServerGone(s))
                          /\ WF_vars(\E p \in Ports : RemovePort(s, p))

Syncs == {c \in Calls : OpsOf[c] = {"GetServer"}}

FairSpec == Spec /\ Fairness /\ \A c \in Syncs, s \in Servers : WF_vars(GetServer(c, s))

-----------------------------------------------------------------------------
(* Safety.                                                                 *)

\* The floating IP at a is detached from its port by this step.
Detached(a) == /\ fip[a] # None /\ fip[a].port # None
               /\ fip'[a] = None \/ fip'[a].port = None

\* Call c may detach the floating IP at a, attached to port p.
MayDetach(c, a, p) ==
    /\ call[c].pc = "detach" /\ call'[c] # call[c]
    /\ \/ call[c].op = "DeleteServer" /\ owner[p] = call[c].srv
       \/ call[c].op = "AddPrimaryIPv4" /\ p = call[c].port
       \/ call[c].op = "RemovePrimaryIPv4" /\ a = call[c].want

\* Whatever this step detaches was attached to a server that Nova is removing, or
\* is detached by a call that may do so.
DetachesOwn ==
    \A a \in Addrs : Detached(a) =>
        LET p == fip[a].port IN
        \/ owner[p] # None /\ status[owner[p]] = "DELETING"
        \/ \E c \in Calls : MayDetach(c, a, p)

\* However stale the listing it works from, no call takes a public address away
\* from a server it was not asked about: DeleteServer detaches addresses of the
\* server being deleted only, the swap of AddPrimaryIPv4 those of the port it
\* gives the new address to, RemovePrimaryIPv4 the address it was given; the
\* rest is Nova removing a deleted server (ip.go:105-119, 155-161, adapter.go:276-297).
NoForeignDetach == [][DetachesOwn]_vars

\* What is about to be deleted is attached to nothing: between its
\* disassociation (or its probe) and its deletion nobody attaches it again
\* (ip.go:111-116, 276-288, adapter.go:289-292).
DropsOnlyIdle ==
    \A c \in Calls : call[c].pc = "drop" =>
        LET r == call[c].cur IN r # None /\ (Live(r) => fip[r.addr].port = None)

Unattached(a) == fip[a] # None /\ fip[a].port = None

\* Every allocated address is attached to a server, or in the hands of a call
\* that will delete it, or one that AddPrimaryIPv4 swapped out.  It holds of the
\* calls that Orderly and Reliable describe (ip.go, adapter.go:208-217).
NoLeak ==
    \A a \in Addrs : Unattached(a) =>
        \/ a \in replaced
        \/ \E c \in Calls : \E r \in Known(call[c]) : r.addr = a /\ Live(r)

\* What the addresses of the pool look like to AddressPool.
Holder(a) == IF fip[a] = None THEN "free"
             ELSE IF fip[a].port = None THEN "idle"
             ELSE owner[fip[a].port]

Holders == [a \in Addrs |-> Holder(a)]

Pool == INSTANCE AddressPool WITH Free <- "free", Idle <- "idle", holder <- Holders

\* The calls together move addresses as AddressPool allows: one at a time, never
\* from a server to another, never from a server straight back into the pool.
ImplementsPool == Pool!Spec

\* The methods that end with ensureServerFloatingIP.
Ensures == {"GetServer", "BuildServer", "ReinstallServer"}

\* floatingip.go:30 on ensureServerFloatingIP: "assigns a public IPv4 when the
\* pool is configured and none is attached yet".
EnsureOnlyWhenNone ==
    [][\A c \in Calls :
          /\ call[c].pc = "create" /\ call'[c] # call[c] /\ fip' # fip
          /\ call[c].op \in Ensures
          => HeldBy(call[c].srv) = {}]_vars

-----------------------------------------------------------------------------
(* Why the safety properties hold: an inductive invariant.                 *)

\* A floating IP is attached to a port that exists, and to no port twice.
AttachedInv ==
    /\ \A a \in Addrs : fip[a] # None /\ fip[a].port # None => owner[fip[a].port] # None
    /\ \A a, b \in Addrs : /\ fip[a] # None /\ fip[a].port # None
                           /\ fip[b] # None /\ fip[b].port = fip[a].port
                           => a = b

\* A floating IP that a call knows is attached where the call saw it, or nowhere:
\* attachments end, and never move.
KnownInv(k) == \A r \in Known(k) : Live(r) => fip[r.addr].port \in {None, r.port}

\* The ports a deletion has listed belong to its server, or are gone, and the
\* floating IPs it will release were attached to them.
DeleteInv(k) == k.op = "DeleteServer" =>
    /\ \A p \in k.ports : owner[p] \in {k.srv, None}
    /\ \A r \in k.fips : r.port \in k.ports

\* The swap detaches floating IPs of the port it gives the new one to.
SwapInv(k) == k.op = "AddPrimaryIPv4" /\ k.pc = "detach" =>
    k.port # None /\ \A r \in k.fips : r.port = k.port

\* The removal detaches the address it was given.
RemoveInv(k) == k.op = "RemovePrimaryIPv4" => \A r \in k.fips : r.addr = k.want

\* Which methods detach, what is detached before it is deleted, and that nothing
\* is remembered before the first listing.
StepInv(k) == /\ k.pc = "find" => k.op = "RemovePrimaryIPv4"
              /\ k.pc \in {"get", "rebuild", "boot", "ports"} => k.fips = {}
              /\ k.pc = "detach" => k.op \in {"DeleteServer", "AddPrimaryIPv4", "RemovePrimaryIPv4"}
              /\ k.pc = "create" => k.port # None
              /\ k.pc = "drop" => k.cur # None /\ (Live(k.cur) => fip[k.cur.addr].port = None)

CallInv(k) == KnownInv(k) /\ DeleteInv(k) /\ SwapInv(k) /\ RemoveInv(k) /\ StepInv(k)

IInv == TypeOK /\ AttachedInv /\ \A c \in Calls : CallInv(call[c])

-----------------------------------------------------------------------------
(* Why nothing leaks: what NoLeak needs of the callers, and the inductive  *)
(* invariant of the calls that keep to it.                                 *)

\* A deletion has its server to itself: meanwhile no other call is about that
\* server or removes, by address, one that the deletion has to release.
Orderly == \A c, d \in Calls : c # d /\ call[c].op = "DeleteServer" =>
    /\ call[d].srv # call[c].srv
    /\ call[d].want \notin HeldBy(call[c].srv) \cup {r.addr : r \in Known(call[c])}

\* Everything that happens while the callers keep to that.
OrderlySpec == Init /\ [][Next /\ Orderly']_vars

\* The requests answer, and nobody calls about a server that was deleted.
Reliable == MaxFaults = 0 /\ ~LateCalls

\* Where deletions, removals and probes can be, and what they know.
PlaceInv(k) ==
    /\ k.op = "DeleteServer" => k.pc \in {"ports", "fips", "detach", "drop", "novadel"}
    /\ k.op = "RemovePrimaryIPv4" => \A r \in Known(k) : r.addr = k.want
    /\ k.op = "HasFreePrimaryIPv4" => k.pc \in {"probe", "drop"} /\ k.fips = {}
    /\ k.pc = "probe" => k.op = "HasFreePrimaryIPv4"
    /\ k.pc = "novadel" => k.op = "DeleteServer"
    /\ k.pc = "drop" => k.op \in {"DeleteServer", "RemovePrimaryIPv4", "HasFreePrimaryIPv4"}
    /\ k.cur # None => k.pc = "drop" /\ k.cur \notin k.fips

\* A call puts an address on a port of its own server only.
PortInv(k) == k.port # None => owner[k.port] \in {k.srv, None}

\* Nobody visits a deleted server, and one that is going has no addresses.
GoingInv ==
    /\ \A s \in Servers : status[s] \in {"DELETING", "GONE"} => s \in deleted /\ HeldBy(s) = {}
    /\ \A c \in Calls : call[c].srv \in deleted <=> call[c].op = "DeleteServer"

\* What a deletion has still to release is there, and no other call will delete it.
Spared(r, d) == call[d].op \in {"DeleteServer", "HasFreePrimaryIPv4"} =>
                    \A q \in Known(call[d]) : Live(q) => q.addr # r.addr

ReleaseInv(c) == call[c].op = "DeleteServer" =>
    \A r \in Known(call[c]) :
        /\ Live(r)
        /\ \A q \in Known(call[c]) : q.addr = r.addr => q = r
        /\ \A d \in Calls \ {c} : Spared(r, d)

\* A deletion has listed all that its server holds.
ListedInv(k) == k.op = "DeleteServer" =>
    \A a \in HeldBy(k.srv) :
        /\ k.pc = "fips" => fip[a].port \in k.ports
        /\ k.pc \in {"detach", "drop"} => RecordOf(a) \in k.fips
        /\ k.pc # "novadel"

\* What is attached to nothing is about to be deleted, or was swapped out.
HandsInv == \A a \in Addrs : Unattached(a) =>
    \/ a \in replaced
    \/ \E c \in Calls : call[c].pc = "drop" /\ call[c].cur.addr = a /\ Live(call[c].cur)

LeakInv == /\ Orderly /\ GoingInv /\ HandsInv
           /\ \A c \in Calls : /\ PlaceInv(call[c]) /\ PortInv(call[c])
                              /\ ReleaseInv(c) /\ ListedInv(call[c])

-----------------------------------------------------------------------------
(* Why an ensure finds what it looks for: what EnsureOnlyWhenNone needs of *)
(* the callers, and the inductive invariant of those that keep to it.      *)

\* While an ensure runs, no other call is about its server.
Apart == \A c, d \in Calls : c # d /\ call[c].op \in Ensures => call[d].srv # call[c].srv

\* Everything that happens while the callers keep to that.
ApartSpec == Init /\ [][Next /\ Apart']_vars

\* Everything that happens while the callers keep to that and let deletions be.
CarefulSpec == Init /\ [][Next /\ Orderly' /\ Apart']_vars

\* The ports that an ensure has listed carry all that its server holds, and once
\* it has seen that they carry nothing the server holds nothing.
EnsureInv(k) == k.op \in Ensures =>
    /\ k.pc \in {"get", "boot", "rebuild", "ports", "fips", "wait", "port", "create"}
    /\ k.pc = "fips" => HeldBy(k.srv) \subseteq AddrsOn(k.ports)
    /\ k.pc \in {"wait", "port", "create"} => HeldBy(k.srv) = {}

ApartInv == Apart /\ \A c \in Calls : EnsureInv(call[c]) /\ PortInv(call[c])

-----------------------------------------------------------------------------
(* Liveness.                                                               *)

\* Every call returns: the retries are bounded, the loops end, and a wait for
\* a server that will not be ACTIVE times out.
CallsReturn == \A c \in Calls : call[c].pc # "idle" ~> call[c].pc = "idle"

Unaddressed(s) == /\ status[s] = "ACTIVE" /\ s \notin deleted
                  /\ HeldBy(s) = {}

\* A running server that lost its public address, or whose provisioning failed
\* to give it one, gets one from the sync loop's GetServer, unless it stops
\* running, is deleted, or the pool is empty (adapter.go:165).
SyncHeals == \A s \in Servers :
                Unaddressed(s) ~> ~Unaddressed(s) \/ \A a \in Addrs : ~Available(a)
=============================================================================
