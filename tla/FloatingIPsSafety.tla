-------------------------- MODULE FloatingIPsSafety --------------------------
(***************************************************************************)
(* The safety properties of FloatingIPs, proved for every number of        *)
(* servers, ports, addresses, calls, retries and failures.                 *)
(*                                                                         *)
(* IInv is preserved for two reasons.  A call that takes a step keeps its  *)
(* own part of it by what the step does to its record.  Every other call   *)
(* keeps its part because Nova and Neutron only change what it knows       *)
(* tamely: a floating IP is detached or deleted but never moved, and its   *)
(* identity is never given to another allocation while a call remembers    *)
(* it; a port disappears but never changes its server.                     *)
(***************************************************************************)
EXTENDS FloatingIPsProofs

-----------------------------------------------------------------------------
(* The inductive invariant in terms of the floating IPs f, the port owners *)
(* o and the record k of a call, so that the lemmas about it can be used   *)
(* before and after a step.                                                *)

LiveIn(f, r) == f[r.addr] # None /\ f[r.addr].tag = r.tag

AttachedOK(f, o) ==
    /\ \A a \in Addrs : f[a] # None /\ f[a].port # None => o[f[a].port] # None
    /\ \A a, b \in Addrs : /\ f[a] # None /\ f[a].port # None
                           /\ f[b] # None /\ f[b].port = f[a].port
                           => a = b

KnownOK(f, k) == \A r \in Known(k) : LiveIn(f, r) => f[r.addr].port \in {None, r.port}

DeleteOK(o, k) == k.op = "DeleteServer" =>
    /\ \A p \in k.ports : o[p] \in {k.srv, None}
    /\ \A r \in k.fips : r.port \in k.ports

StepOK(f, k) == /\ k.pc = "find" => k.op = "RemovePrimaryIPv4"
                /\ k.pc \in {"get", "rebuild", "boot", "ports"} => k.fips = {}
                /\ k.pc = "detach" => k.op \in {"DeleteServer", "AddPrimaryIPv4", "RemovePrimaryIPv4"}
                /\ k.pc = "create" => k.port # None
                /\ k.pc = "drop" => k.cur # None /\ (LiveIn(f, k.cur) => f[k.cur.addr].port = None)

CallOK(f, o, k) == KnownOK(f, k) /\ DeleteOK(o, k) /\ SwapInv(k) /\ RemoveInv(k) /\ StepOK(f, k)

\* The floating IPs f become g, the owners o become q: tame for call k.
Tame(f, g, o, q, k) ==
    /\ \A r \in Known(k) : LiveIn(g, r) => /\ LiveIn(f, r)
                                           /\ g[r.addr].port \in {None, f[r.addr].port}
    /\ \A p \in k.ports : q[p] \in {None, o[p]}

LEMMA IInvIs == IInv <=> /\ TypeOK /\ AttachedOK(fip, owner)
                         /\ \A c \in Calls : CallOK(fip, owner, call[c])
<1>1. AttachedInv <=> AttachedOK(fip, owner)
  BY DEF AttachedInv, AttachedOK
<1>2. \A c \in Calls : CallInv(call[c]) <=> CallOK(fip, owner, call[c])
  BY DEF CallInv, CallOK, KnownInv, KnownOK, DeleteInv, DeleteOK, StepInv, StepOK, Live, LiveIn
<1> QED
  BY <1>1, <1>2 DEF IInv

LEMMA IInvIsNext == IInv' <=> /\ TypeOK' /\ AttachedOK(fip', owner')
                              /\ \A c \in Calls : CallOK(fip', owner', call'[c])
<1>1. AttachedInv' <=> AttachedOK(fip', owner')
  BY DEF AttachedInv, AttachedOK
<1>2. \A c \in Calls : CallInv(call[c])' <=> CallOK(fip', owner', call'[c])
  BY DEF CallInv, CallOK, KnownInv, KnownOK, DeleteInv, DeleteOK, StepInv, StepOK, Live, LiveIn,
         SwapInv, RemoveInv, Known
<1> QED
  BY <1>1, <1>2 DEF IInv

-----------------------------------------------------------------------------
(* What keeps the invariant of a call.                                     *)

\* A call that takes no step keeps its part under tame changes.
LEMMA KeepCall == ASSUME NEW f, NEW g, NEW o, NEW q, NEW k,
                         CallOK(f, o, k), Tame(f, g, o, q, k)
                  PROVE  CallOK(g, q, k)
<1>1. KnownOK(g, k)
  BY DEF CallOK, KnownOK, Tame
<1>2. DeleteOK(q, k)
  BY DEF CallOK, DeleteOK, Tame
<1>3. StepOK(g, k)
  <2>1. k.pc = "drop" => k.cur # None /\ k.cur \in Known(k)
    BY DEF CallOK, StepOK, Known
  <2> QED
    BY <2>1 DEF CallOK, StepOK, Tame
<1> QED
  BY <1>1, <1>2, <1>3 DEF CallOK

\* Nothing that a call knows changes.
LEMMA TameSame == ASSUME NEW f, NEW o, NEW k
                  PROVE  Tame(f, f, o, o, k)
  BY DEF Tame

\* The record of a call that ends, gives up or tries again.
LEMMA FailedKeeps == ASSUME NEW f, NEW o, NEW k \in CallRec, CallOK(f, o, k)
                     PROVE  /\ CallOK(f, o, IdleCall) /\ CallOK(f, o, DeleteNova(k))
                            /\ CallOK(f, o, Failed(k))
<1>1. CallOK(f, o, IdleCall)
  BY DEF IdleCall, CallOK, KnownOK, Known, DeleteOK, SwapInv, RemoveInv, StepOK
<1>2. CallOK(f, o, DeleteNova(k))
  BY DEF DeleteNova, CallRec, CallOK, KnownOK, Known, DeleteOK, SwapInv, RemoveInv, StepOK
<1>3. \A n : k.pc = "port" => CallOK(f, o, [k EXCEPT !.left = n])
  BY DEF CallRec, CallOK, KnownOK, Known, DeleteOK, SwapInv, RemoveInv, StepOK
<1> QED
  BY <1>1, <1>2, <1>3 DEF Failed

\* A call that goes on at a step where nothing in particular is required.
LEMMA AtKeeps == ASSUME NEW f, NEW o, NEW k \in CallRec, CallOK(f, o, k),
                        NEW pc \in Steps \ {"find", "detach", "create", "drop"},
                        pc \in {"get", "rebuild", "boot", "ports"} => k.fips = {}
                 PROVE  CallOK(f, o, At(k, pc))
  BY DEF At, CallRec, CallOK, KnownOK, Known, DeleteOK, SwapInv, RemoveInv, StepOK

\* A step of call c keeps the invariant when it is tame for every call and the
\* record that c goes on with, if it does not fail, keeps its part.
LEMMA StepKeeps == ASSUME IInv, TypeOK', NEW c \in Calls, NEW k,
                          \/ call' = [call EXCEPT ![c] = k] /\ CallOK(fip', owner', k)
                          \/ call' = [call EXCEPT ![c] = Failed(call[c])],
                          \A d \in Calls : Tame(fip, fip', owner, owner', call[d]),
                          AttachedOK(fip', owner')
                   PROVE  IInv'
<1>1. \A d \in Calls : CallOK(fip', owner', call[d])
  BY IInvIs, KeepCall
<1>2. call \in [Calls -> CallRec]
  BY DEF IInv, TypeOK
<1>3. CallOK(fip', owner', Failed(call[c]))
  BY <1>1, <1>2, FailedKeeps
<1>4. \A d \in Calls : CallOK(fip', owner', call'[d])
  BY <1>1, <1>2, <1>3
<1> QED
  BY <1>4, IInvIsNext

\* The same for a step that changes neither floating IPs nor ports.
LEMMA LocalKeeps == ASSUME IInv, TypeOK', NEW c \in Calls, NEW k,
                           \/ call' = [call EXCEPT ![c] = k] /\ CallOK(fip, owner, k)
                           \/ call' = [call EXCEPT ![c] = Failed(call[c])],
                           fip' = fip, owner' = owner
                    PROVE  IInv'
<1>1. AttachedOK(fip', owner')
  BY IInvIs
<1>2. \A d \in Calls : Tame(fip, fip', owner, owner', call[d])
  BY TameSame
<1> QED
  BY <1>1, <1>2, StepKeeps

-----------------------------------------------------------------------------
(* Steps that change neither floating IPs nor ports.                       *)

LEMMA SafeInit == Init => IInv
<1> SUFFICES ASSUME Init
             PROVE  IInv
  OBVIOUS
<1>1. AttachedOK(fip, owner)
  BY DEF Init, AttachedOK
<1>2. \A c \in Calls : CallOK(fip, owner, call[c])
  BY DEF Init, IdleCall, CallOK, KnownOK, Known, DeleteOK, SwapInv, RemoveInv, StepOK
<1> QED
  BY <1>1, <1>2, TypeInit, IInvIs

\* An entry point.
LEMMA BeginSafe == ASSUME IInv, NEW c \in Calls,
                          HasFreePrimaryIPv4(c) \/ \E s \in Servers : Begin(c, s)
                   PROVE  IInv'
<1>1. TypeOK'
  BY BeginType DEF IInv
<1>2. PICK op, pc, s, want, left :
         /\ Start(c, op, pc, s, want, left)
         /\ pc \in {"get", "boot", "rebuild", "ports", "attach", "find", "probe"}
         /\ pc = "find" => op = "RemovePrimaryIPv4"
  BY DEF Begin, HasFreePrimaryIPv4, GetServer, BuildServer, ReinstallServer, AddPrimaryIPv4,
         AddExtraIPv4, RemovePrimaryIPv4, DeleteServer
<1>3. CallOK(fip, owner, NewCall(op, pc, s, want, left))
  BY <1>2 DEF NewCall, CallOK, KnownOK, Known, DeleteOK, SwapInv, RemoveInv, StepOK
<1> QED
  BY <1>1, <1>2, <1>3, LocalKeeps DEF Start, SetCall

\* The methods that go on with the listing of a server's floating IPs.
LEMMA AfterListKeeps ==
    ASSUME NEW k \in CallRec, CallOK(fip, owner, k),
           NEW found, \A r \in found : r.port \in k.ports,
           \A r \in found : LiveIn(fip, r) => fip[r.addr].port \in {None, r.port}
    PROVE  CallOK(fip, owner, AfterList(k, found))
<1> DEFINE mine == {r \in found : r.port = k.port}
<1>1. CallOK(fip, owner, IdleCall) /\ CallOK(fip, owner, DeleteNova(k))
  BY FailedKeeps
<1>2. CallOK(fip, owner, At(k, "wait"))
  BY AtKeeps DEF Steps
<1>3. k.op = "DeleteServer" => CallOK(fip, owner, [k EXCEPT !.pc = "detach", !.fips = found])
  BY DEF CallRec, CallOK, KnownOK, Known, DeleteOK, SwapInv, RemoveInv, StepOK
<1>4. k.op = "AddPrimaryIPv4" =>
        CallOK(fip, owner, [k EXCEPT !.pc = "port", !.fips = found, !.left = 1])
  BY DEF CallRec, CallOK, KnownOK, Known, DeleteOK, SwapInv, RemoveInv, StepOK
<1>5. k.op = "AddPrimaryIPv4" /\ k.port # None =>
        /\ CallOK(fip, owner, [k EXCEPT !.pc = "create", !.fips = mine])
        /\ CallOK(fip, owner, [k EXCEPT !.pc = "detach", !.fips = mine])
  BY DEF CallRec, CallOK, KnownOK, Known, DeleteOK, SwapInv, RemoveInv, StepOK
<1>6. CASE k.op = "DeleteServer"
  BY <1>1, <1>3, <1>6 DEF AfterList
<1>7. CASE k.op = "AddPrimaryIPv4" /\ k.port = None
  BY <1>4, <1>7 DEF AfterList
<1>8. CASE k.op = "AddPrimaryIPv4" /\ k.port # None
  <2>1. AfterList(k, found) =
          [k EXCEPT !.pc = IF mine = {} THEN "create" ELSE "detach", !.fips = mine]
    BY <1>8 DEF AfterList
  <2> HIDE DEF mine
  <2>2. CASE mine = {}
    BY <1>5, <1>8, <2>1, <2>2
  <2>3. CASE mine # {}
    BY <1>5, <1>8, <2>1, <2>3
  <2> QED
    BY <2>2, <2>3
<1>9. CASE k.op \notin {"DeleteServer", "AddPrimaryIPv4"}
  BY <1>1, <1>2, <1>9 DEF AfterList
<1> QED
  BY <1>6, <1>7, <1>8, <1>9

LEMMA LocalSafe == ASSUME IInv, NEW c \in Calls,
                          \/ GetNova(c) \/ WaitBoot(c) \/ Rebuild(c) \/ ListPorts(c) \/ ListFips(c)
                          \/ WaitActive(c) \/ PickPort(c) \/ CreateRefused(c) \/ FindFip(c)
                          \/ \E r \in call[c].fips : DetachMissing(c, r)
                          \/ DropMissing(c) \/ ProbeRefused(c) \/ NovaDelete(c) \/ ApiError(c)
                   PROVE  IInv'
<1> DEFINE k == call[c]
           Goes(j) == call' = [call EXCEPT ![c] = j] /\ CallOK(fip, owner, j)
           Fails == call' = [call EXCEPT ![c] = Failed(call[c])]
<1>1. TypeOK'
  <2>1. Request(c) \/ ApiError(c)
    BY DEF Request
  <2> QED
    BY <2>1, RequestType DEF IInv
<1>2. fip' = fip /\ owner' = owner
  BY DEF GetNova, WaitBoot, Rebuild, ListPorts, ListFips, WaitActive, PickPort, CreateRefused,
         FindFip, DetachMissing, DropMissing, ProbeRefused, NovaDelete, ApiError
<1>3. k \in CallRec /\ CallOK(fip, owner, k)
  BY IInvIs DEF TypeOK
<1>4. CallOK(fip, owner, IdleCall)
  BY <1>3, FailedKeeps
<1>5. /\ k.pc \in {"get", "rebuild", "boot"} => /\ CallOK(fip, owner, At(k, "ports"))
                                               /\ CallOK(fip, owner, At(k, "boot"))
      /\ CallOK(fip, owner, At(k, "fips"))
  BY <1>3, AtKeeps DEF CallOK, StepOK, Steps
<1>6. ASSUME NEW j, Goes(j) \/ Fails
      PROVE  IInv'
  BY <1>1, <1>2, <1>6, LocalKeeps
<1> HIDE DEF k, Fails
<1>7. CASE GetNova(c)
  <2>1. Goes(IdleCall) \/ Goes(At(k, "ports"))
    BY <1>4, <1>5, <1>7 DEF GetNova, SetCall, k
  <2> QED
    BY <1>6, <2>1
<1>8. CASE WaitBoot(c)
  <2>1. Goes(IdleCall) \/ Goes(At(k, "ports")) \/ Fails
    BY <1>4, <1>5, <1>8 DEF WaitBoot, SetCall, k, Fails
  <2> QED
    BY <1>6, <2>1
<1>9. CASE Rebuild(c)
  <2>1. Goes(At(k, "boot")) \/ Fails
    BY <1>5, <1>9 DEF Rebuild, Answer, Refused, SetCall, k, Fails
  <2> QED
    BY <1>6, <2>1
<1>10. CASE ListPorts(c)
  <2> DEFINE j == [k EXCEPT !.ports = PortsOf(k.srv)]
  <2>1. j \in CallRec
    BY <1>3 DEF CallRec, PortsOf
  <2>2. CallOK(fip, owner, j)
    BY <1>3, <1>10 DEF ListPorts, k, PortsOf, CallRec, CallOK, KnownOK, Known, DeleteOK, SwapInv, RemoveInv, StepOK
  <2>3. CallOK(fip, owner, AfterList(j, {}))
    BY <2>1, <2>2, AfterListKeeps
  <2>4. CallOK(fip, owner, At(j, "fips"))
    BY <2>1, <2>2, AtKeeps DEF Steps
  <2>5. Goes(AfterList(j, {})) \/ Goes(At(j, "fips"))
    BY <2>3, <2>4, <1>10 DEF ListPorts, SetCall, k
  <2> QED
    BY <1>6, <2>5
<1>11. CASE ListFips(c)
  <2> DEFINE found == {RecordOf(a) : a \in AddrsOn(k.ports)}
  <2>1. \A r \in found : r.port \in k.ports /\ fip[r.addr].port = r.port
    BY DEF RecordOf, AddrsOn
  <2>2. CallOK(fip, owner, AfterList(k, found))
    BY <1>3, <2>1, AfterListKeeps
  <2>3. Goes(AfterList(k, found))
    BY <2>2, <1>11 DEF ListFips, SetCall, k
  <2> QED
    BY <1>6, <2>3
<1>12. CASE WaitActive(c)
  <2>1. CallOK(fip, owner, [k EXCEPT !.pc = "port", !.left = PortAttempts])
    BY <1>3 DEF CallRec, CallOK, KnownOK, Known, DeleteOK, SwapInv, RemoveInv, StepOK
  <2>2. Goes([k EXCEPT !.pc = "port", !.left = PortAttempts]) \/ Fails
    BY <2>1, <1>12 DEF WaitActive, SetCall, k, Fails
  <2> QED
    BY <1>6, <2>2
<1>13. CASE PickPort(c)
  <2>1. \A p \in Ports, pc \in {"create", "ports"} :
           CallOK(fip, owner, [k EXCEPT !.pc = pc, !.port = p, !.fips = {}])
    BY <1>3, NoneAssumption DEF CallRec, CallOK, KnownOK, Known, DeleteOK, SwapInv, RemoveInv, StepOK
  <2>2. \/ \E p \in Ports, pc \in {"create", "ports"} :
              Goes([k EXCEPT !.pc = pc, !.port = p, !.fips = {}])
        \/ Fails
    BY <2>1, <1>13 DEF PickPort, PortsOf, SetCall, k, Fails
  <2> QED
    BY <1>6, <2>2
<1>14. CASE FindFip(c)
  <2> DEFINE j == [k EXCEPT !.pc = "detach", !.fips = {RecordOf(k.want)}]
  <2>1. CallOK(fip, owner, j)
    BY <1>3, <1>14 DEF FindFip, k, RecordOf, CallRec, CallOK, KnownOK, Known, DeleteOK, SwapInv,
                       RemoveInv, StepOK
  <2>2. Goes(j) \/ Fails
    BY <2>1, <1>14 DEF FindFip, SetCall, k, Fails
  <2> QED
    BY <1>6, <2>2
<1>15. CASE NovaDelete(c)
  <2>1. Goes(IdleCall) \/ Fails
    BY <1>4, <1>15 DEF NovaDelete, Answer, SetCall, k, Fails
  <2> QED
    BY <1>6, <2>1
<1>16. CASE \/ CreateRefused(c) \/ DropMissing(c) \/ ProbeRefused(c) \/ ApiError(c)
            \/ \E r \in call[c].fips : DetachMissing(c, r)
  <2>1. Fails
    BY <1>16 DEF CreateRefused, DropMissing, ProbeRefused, ApiError, DetachMissing, Refused, SetCall, Fails
  <2> QED
    BY <1>6, <2>1
<1> QED
  BY <1>7, <1>8, <1>9, <1>10, <1>11, <1>12, <1>13, <1>14, <1>15, <1>16

-----------------------------------------------------------------------------
(* Steps that change ports.                                                *)

\* A new port belongs to a server at last: no call knows it, nothing is attached.
LEMMA PlugKeeps == ASSUME IInv, NEW p \in FreshPorts, NEW s,
                          owner' = [owner EXCEPT ![p] = s], fip' = fip
                   PROVE  /\ AttachedOK(fip', owner')
                          /\ \A d \in Calls : Tame(fip, fip', owner, owner', call[d])
<1>1. p \in Ports /\ owner[p] = None /\ \A c \in Calls : p \notin call[c].ports
  BY DEF FreshPorts
<1>2. owner \in [Ports -> Servers \cup {None}] /\ fip \in [Addrs -> FloatingIP \cup {None}]
      /\ \A c \in Calls : call[c].ports \subseteq Ports
  BY DEF IInv, TypeOK, CallRec
<1>3. AttachedOK(fip', owner')
  BY <1>1, <1>2, IInvIs DEF AttachedOK, FloatingIP
<1>4. \A d \in Calls : Tame(fip, fip', owner, owner', call[d])
  BY <1>1, <1>2 DEF Tame
<1> QED
  BY <1>3, <1>4

LEMMA AttachSafe == ASSUME IInv, NEW c \in Calls, AttachInterface(c)
                    PROVE  IInv'
<1> DEFINE k == call[c]
<1>1. TypeOK'
  BY RequestType DEF Request, IInv
<1>2. k \in CallRec
  BY DEF IInv, TypeOK
<1>3. CASE Refused(c) /\ UNCHANGED owner
  BY <1>1, <1>3, LocalKeeps DEF AttachInterface, Refused, SetCall
<1>4. ASSUME NEW p \in FreshPorts, owner' = [owner EXCEPT ![p] = k.srv],
             Answer(c, [k EXCEPT !.pc = "create", !.port = p])
      PROVE  IInv'
  <2> DEFINE j == [k EXCEPT !.pc = "create", !.port = p]
  <2>1. fip' = fip
    BY DEF AttachInterface
  <2>2. /\ AttachedOK(fip', owner')
        /\ \A d \in Calls : Tame(fip, fip', owner, owner', call[d])
    BY <1>4, <2>1, PlugKeeps
  <2>3. CallOK(fip', owner', k)
    BY <2>2, IInvIs, KeepCall
  <2>4. CallOK(fip', owner', j)
    BY <1>2, <2>3, NoneAssumption DEF FreshPorts, CallRec, CallOK, KnownOK, Known, DeleteOK,
       SwapInv, RemoveInv, StepOK
  <2>5. call' = [call EXCEPT ![c] = j] \/ call' = [call EXCEPT ![c] = Failed(call[c])]
    BY <1>4 DEF Answer, SetCall
  <2> HIDE DEF j
  <2> QED
    BY <1>1, <2>2, <2>4, <2>5, StepKeeps
<1> QED
  BY <1>3, <1>4 DEF AttachInterface

\* Nova and Neutron on their own change no call.
LEMMA CloudKeeps == ASSUME IInv, TypeOK', call' = call, AttachedOK(fip', owner'),
                           \A d \in Calls : Tame(fip, fip', owner, owner', call[d])
                    PROVE  IInv'
  BY IInvIs, IInvIsNext, KeepCall

LEMMA CloudSafe == ASSUME IInv, NEW s \in Servers, Cloud(s)
                   PROVE  IInv'
<1>1. TypeOK'
  BY CloudType DEF IInv
<1>2. CASE \/ CreateServer(s) \/ BootDone(s) \/ BootFails(s) \/ Stop(s) \/ Resume(s)
           \/ ServerGone(s)
  <2>1. fip' = fip /\ owner' = owner /\ call' = call
    BY <1>2 DEF CreateServer, BootDone, BootFails, Stop, Resume, ServerGone, SetStatus
  <2> QED
    BY <1>1, <2>1, IInvIs, CloudKeeps, TameSame
<1>3. ASSUME NEW p \in Ports, PlugPort(s, p)
      PROVE  IInv'
  <2>1. /\ p \in FreshPorts /\ owner' = [owner EXCEPT ![p] = s]
        /\ fip' = fip /\ call' = call
    BY <1>3 DEF PlugPort
  <2> QED
    BY <1>1, <2>1, PlugKeeps, CloudKeeps
<1>4. ASSUME NEW p \in Ports, RemovePort(s, p)
      PROVE  IInv'
  <2>1. /\ owner' = [owner EXCEPT ![p] = None] /\ call' = call
        /\ fip' = [a \in Addrs |-> IF a \in AddrsOn({p}) THEN [fip[a] EXCEPT !.port = None]
                                   ELSE fip[a]]
    BY <1>4 DEF RemovePort
  <2>2. /\ owner \in [Ports -> Servers \cup {None}] /\ fip \in [Addrs -> FloatingIP \cup {None}]
        /\ call \in [Calls -> CallRec]
    BY DEF IInv, TypeOK
  <2>3. \A a \in Addrs :
           /\ fip'[a] = None <=> fip[a] = None
           /\ fip[a] # None => /\ fip'[a].tag = fip[a].tag
                               /\ fip'[a].port = IF fip[a].port = p THEN None ELSE fip[a].port
    <3> SUFFICES ASSUME NEW a \in Addrs
                 PROVE  /\ fip'[a] = None <=> fip[a] = None
                        /\ fip[a] # None => /\ fip'[a].tag = fip[a].tag
                                            /\ fip'[a].port = IF fip[a].port = p THEN None ELSE fip[a].port
      OBVIOUS
    <3>1. CASE a \in AddrsOn({p})
      <4>1. fip[a] \in FloatingIP /\ fip[a] # None /\ fip[a].port = p
        BY <2>2, <3>1 DEF AddrsOn
      <4>2. fip'[a] = [fip[a] EXCEPT !.port = None]
        BY <2>1, <3>1
      <4>3. fip'[a] # None
        BY <4>1, <4>2, RecordAssumption DEF FloatingIP
      <4> QED
        BY <4>1, <4>2, <4>3 DEF FloatingIP
    <3>2. CASE a \notin AddrsOn({p})
      BY <2>1, <3>2 DEF AddrsOn
    <3> QED
      BY <3>1, <3>2
  <2>4. \A q \in Ports : owner'[q] = IF q = p THEN None ELSE owner[q]
    BY <2>1, <2>2
  <2>5. \A a \in Addrs : fip[a] # None => fip[a].port \in Ports \cup {None}
    BY <2>2 DEF FloatingIP
  <2>6. AttachedOK(fip', owner')
    <3>1. AttachedOK(fip, owner)
      BY IInvIs
    <3>2. ASSUME NEW a \in Addrs, fip'[a] # None, fip'[a].port # None
          PROVE  /\ fip[a] # None /\ fip[a].port = fip'[a].port
                 /\ fip[a].port \in Ports \ {p}
      BY <2>3, <2>5, <3>2
    <3> QED
      BY <2>4, <3>1, <3>2 DEF AttachedOK
  <2>7. \A d \in Calls : Tame(fip, fip', owner, owner', call[d])
    <3> SUFFICES ASSUME NEW d \in Calls
                 PROVE  Tame(fip, fip', owner, owner', call[d])
      OBVIOUS
    <3>1. call[d].ports \subseteq Ports /\ \A r \in Known(call[d]) : r.addr \in Addrs
      BY <2>2 DEF Known, CallRec, FipRec
    <3>2. ASSUME NEW r \in Known(call[d]), LiveIn(fip', r)
          PROVE  LiveIn(fip, r) /\ fip'[r.addr].port \in {None, fip[r.addr].port}
      BY <2>3, <3>1, <3>2 DEF LiveIn
    <3> QED
      BY <2>4, <3>1, <3>2 DEF Tame
  <2> QED
    BY <1>1, <2>1, <2>6, <2>7, CloudKeeps
<1> QED
  BY <1>2, <1>3, <1>4 DEF Cloud

-----------------------------------------------------------------------------
(* Steps that change floating IPs.                                         *)

\* A new allocation at a free address: attached to a port that carries none, or
\* to nothing.  Its tag is fresh, so that no call takes it for an older one.
LEMMA AllocateKeeps ==
    ASSUME IInv, NEW a \in Addrs, Available(a), NEW p \in Ports \cup {None},
           p = None \/ CanCarry(p),
           fip' = [fip EXCEPT ![a] = [tag |-> FreshTag(a), port |-> p]], owner' = owner
    PROVE  /\ AttachedOK(fip', owner')
           /\ \A d \in Calls : Tame(fip, fip', owner, owner', call[d])
<1>1. fip \in [Addrs -> FloatingIP \cup {None}] /\ call \in [Calls -> CallRec]
  BY DEF IInv, TypeOK
<1>2. /\ fip[a] = None
      /\ \A c \in Calls : \A r \in Known(call[c]) : r.addr = a => r.tag # FreshTag(a)
  BY FreshTagFacts DEF Available, FreshTags
<1>3. AttachedOK(fip', owner')
  BY <1>1, <1>2, IInvIs DEF AttachedOK, CanCarry, AddrsOn
<1>4. \A d \in Calls : Tame(fip, fip', owner, owner', call[d])
  BY <1>1, <1>2 DEF Tame, LiveIn, Known, CallRec, FipRec
<1> QED
  BY <1>3, <1>4

\* A floating IP is detached or deleted.
LEMMA LoseKeeps ==
    ASSUME IInv, NEW r \in FipRec, Live(r), NEW x \in {None, [tag |-> r.tag, port |-> None]},
           fip' = [fip EXCEPT ![r.addr] = x], owner' = owner
    PROVE  /\ AttachedOK(fip', owner')
           /\ \A d \in Calls : Tame(fip, fip', owner, owner', call[d])
<1>1. fip \in [Addrs -> FloatingIP \cup {None}] /\ call \in [Calls -> CallRec] /\ r.addr \in Addrs
  BY DEF IInv, TypeOK, FipRec
<1>2. AttachedOK(fip', owner')
  BY <1>1, IInvIs DEF AttachedOK
<1>3. \A d \in Calls : Tame(fip, fip', owner, owner', call[d])
  BY <1>1 DEF Tame, LiveIn, Live, Known, CallRec, FipRec
<1> QED
  BY <1>2, <1>3

LEMMA CreateSafe == ASSUME IInv, NEW c \in Calls, CreateFip(c)
                    PROVE  IInv'
<1> DEFINE k == call[c]
<1>1. TypeOK' /\ k \in CallRec
  BY RequestType DEF Request, IInv, TypeOK
<1>2. PICK a \in Addrs : /\ Available(a) /\ CanCarry(k.port) /\ owner' = owner
                         /\ fip' = [fip EXCEPT ![a] = [tag |-> FreshTag(a), port |-> k.port]]
  BY DEF CreateFip
<1>3. /\ AttachedOK(fip', owner')
      /\ \A d \in Calls : Tame(fip, fip', owner, owner', call[d])
  BY <1>1, <1>2, AllocateKeeps DEF CallRec
<1>4. CallOK(fip', owner', k)
  BY <1>3, IInvIs, KeepCall
<1>5. CallOK(fip', owner', AfterCreate(k))
  <2>1. CallOK(fip', owner', IdleCall)
    BY <1>1, <1>4, FailedKeeps
  <2>2. \A n : CallOK(fip', owner', [k EXCEPT !.pc = "attach", !.port = None, !.left = n])
    BY <1>1, <1>4 DEF CallRec, CallOK, KnownOK, Known, DeleteOK, SwapInv, RemoveInv, StepOK
  <2> QED
    BY <2>1, <2>2 DEF AfterCreate
<1>6. call' = [call EXCEPT ![c] = AfterCreate(k)] \/ call' = [call EXCEPT ![c] = Failed(call[c])]
  BY DEF CreateFip, Answer, SetCall
<1> QED
  BY <1>1, <1>3, <1>5, <1>6, StepKeeps

LEMMA ProbeSafe == ASSUME IInv, NEW c \in Calls, ProbePool(c)
                   PROVE  IInv'
<1> DEFINE k == call[c]
<1>1. TypeOK' /\ k \in CallRec
  BY RequestType DEF Request, IInv, TypeOK
<1>2. PICK a \in Addrs :
         /\ Available(a) /\ owner' = owner
         /\ fip' = [fip EXCEPT ![a] = [tag |-> FreshTag(a), port |-> None]]
         /\ Answer(c, [k EXCEPT !.pc = "drop",
                                !.cur = [addr |-> a, tag |-> FreshTag(a), port |-> None]])
  BY DEF ProbePool
<1> DEFINE r == [addr |-> a, tag |-> FreshTag(a), port |-> None]
           j == [k EXCEPT !.pc = "drop", !.cur = r]
<1>3. /\ AttachedOK(fip', owner')
      /\ \A d \in Calls : Tame(fip, fip', owner, owner', call[d])
  BY <1>2, AllocateKeeps
<1>4. CallOK(fip', owner', k)
  BY <1>3, IInvIs, KeepCall
<1>5. r \in FipRec /\ r # None /\ r.addr = a /\ r.port = None /\ fip'[a].port = None
  BY <1>2, FreshTagFacts, RecordAssumption DEF FipRec, IInv, TypeOK
<1> HIDE DEF r
<1>6. CallOK(fip', owner', j)
  BY <1>1, <1>4, <1>5 DEF CallRec, CallOK, KnownOK, Known, DeleteOK, SwapInv, RemoveInv, StepOK
<1>7. call' = [call EXCEPT ![c] = j] \/ call' = [call EXCEPT ![c] = Failed(call[c])]
  BY <1>2 DEF Answer, SetCall, r
<1> HIDE DEF j
<1> QED
  BY <1>1, <1>3, <1>6, <1>7, StepKeeps

LEMMA DetachSafe == ASSUME IInv, NEW c \in Calls, NEW r \in call[c].fips, DetachFip(c, r)
                    PROVE  IInv'
<1> DEFINE k == call[c]
           rest == k.fips \ {r}
<1>1. TypeOK' /\ k \in CallRec
  BY RequestType DEF Request, IInv, TypeOK
<1>2. r \in FipRec /\ r \in Known(k) /\ r.addr \in Addrs
  BY <1>1 DEF CallRec, FipRec, Known
<1>3. /\ Live(r) /\ owner' = owner /\ k.pc = "detach"
      /\ fip' = [fip EXCEPT ![r.addr] = [tag |-> r.tag, port |-> None]]
  BY DEF DetachFip
<1>4. /\ AttachedOK(fip', owner')
      /\ \A d \in Calls : Tame(fip, fip', owner, owner', call[d])
  BY <1>2, <1>3, LoseKeeps
<1>5. CallOK(fip', owner', k)
  BY <1>4, IInvIs, KeepCall
<1>6. fip'[r.addr].port = None /\ r # None
  BY <1>2, <1>3, RecordAssumption DEF IInv, TypeOK
<1>7. CallOK(fip', owner', AfterDetach(k, r))
  <2>1. CASE k.op = "AddPrimaryIPv4"
    <3>1. \A pc \in {"create", "detach"} :
             CallOK(fip', owner', [k EXCEPT !.pc = pc, !.fips = rest])
      BY <1>1, <1>3, <1>5, <2>1 DEF CallRec, CallOK, KnownOK, Known, DeleteOK, SwapInv, RemoveInv,
                                    StepOK
    <3>2. AfterDetach(k, r) = [k EXCEPT !.pc = IF rest = {} THEN "create" ELSE "detach", !.fips = rest]
      BY <2>1 DEF AfterDetach
    <3> HIDE DEF rest
    <3> QED
      BY <3>1, <3>2
  <2>2. CASE k.op # "AddPrimaryIPv4"
    <3>1. CallOK(fip', owner', [k EXCEPT !.pc = "drop", !.fips = rest, !.cur = r])
      BY <1>1, <1>2, <1>5, <1>6, <2>2 DEF CallRec, CallOK, KnownOK, Known, DeleteOK, SwapInv,
                                          RemoveInv, StepOK
    <3> QED
      BY <2>2, <3>1 DEF AfterDetach
  <2> QED
    BY <2>1, <2>2
<1>8. \/ call' = [call EXCEPT ![c] = AfterDetach(k, r)]
      \/ call' = [call EXCEPT ![c] = Failed(call[c])]
  BY DEF DetachFip, Answer, SetCall
<1> QED
  BY <1>1, <1>4, <1>7, <1>8, StepKeeps

LEMMA DropSafe == ASSUME IInv, NEW c \in Calls, DropFip(c)
                  PROVE  IInv'
<1> DEFINE k == call[c]
<1>1. TypeOK' /\ k \in CallRec /\ CallOK(fip, owner, k)
  BY RequestType, IInvIs DEF Request, IInv, TypeOK
<1>2. k.pc = "drop" /\ Live(k.cur) /\ owner' = owner /\ fip' = [fip EXCEPT ![k.cur.addr] = None]
  BY DEF DropFip
<1>3. k.cur \in FipRec
  BY <1>1, <1>2 DEF CallRec, CallOK, StepOK
<1>4. /\ AttachedOK(fip', owner')
      /\ \A d \in Calls : Tame(fip, fip', owner, owner', call[d])
  BY <1>2, <1>3, LoseKeeps
<1>5. CallOK(fip', owner', k)
  BY <1>4, IInvIs, KeepCall
<1>6. CallOK(fip', owner', AfterDrop(k))
  <2>1. CallOK(fip', owner', IdleCall) /\ CallOK(fip', owner', DeleteNova(k))
    BY <1>1, <1>5, FailedKeeps
  <2>2. k.op = "DeleteServer" => CallOK(fip', owner', [k EXCEPT !.pc = "detach", !.cur = None])
    BY <1>1, <1>5 DEF CallRec, CallOK, KnownOK, Known, DeleteOK, SwapInv, RemoveInv, StepOK
  <2> QED
    BY <2>1, <2>2 DEF AfterDrop
<1>7. call' = [call EXCEPT ![c] = AfterDrop(k)] \/ call' = [call EXCEPT ![c] = Failed(call[c])]
  BY DEF DropFip, Answer, SetCall
<1> QED
  BY <1>1, <1>4, <1>6, <1>7, StepKeeps

-----------------------------------------------------------------------------
(* The invariant.                                                          *)

LEMMA SafeNext == IInv /\ [Next]_vars => IInv'
<1> SUFFICES ASSUME IInv, [Next]_vars
             PROVE  IInv'
  OBVIOUS
<1>1. CASE UNCHANGED vars
  <2>1. fip' = fip /\ owner' = owner /\ call' = call
    BY <1>1 DEF vars
  <2>2. TypeOK'
    BY TypeNext DEF IInv
  <2> QED
    BY <2>1, <2>2, IInvIs, CloudKeeps, TameSame
<1>2. ASSUME NEW c \in Calls, HasFreePrimaryIPv4(c) \/ \E s \in Servers : Begin(c, s)
      PROVE  IInv'
  BY <1>2, BeginSafe
<1>3. ASSUME NEW c \in Calls, Request(c) \/ ApiError(c)
      PROVE  IInv'
  BY <1>3, LocalSafe, AttachSafe, CreateSafe, ProbeSafe, DetachSafe, DropSafe DEF Request
<1>4. ASSUME NEW s \in Servers, Cloud(s)
      PROVE  IInv'
  BY <1>4, CloudSafe
<1> QED
  BY <1>1, <1>2, <1>3, <1>4 DEF Next

\* The inductive invariant: what every call has listed is still attached where
\* it was seen or nowhere, deletions and swaps work on their own server's ports
\* only, and no port carries two floating IPs (ip.go:105-167, adapter.go:208-297).
THEOREM Safe == Spec => []IInv
  BY SafeInit, SafeNext, PTL DEF Spec

-----------------------------------------------------------------------------
(* What follows from it.                                                   *)

\* What deleteFloatingIP is about to delete is attached to nothing
\* (ip.go:111-116, 276-288, adapter.go:289-292).
THEOREM DropsIdle == Spec => []DropsOnlyIdle
<1>1. IInv => DropsOnlyIdle
  BY DEF IInv, CallInv, StepInv, DropsOnlyIdle
<1> QED
  BY <1>1, Safe, PTL

\* The steps that change what is attached where, or where a port belongs.
LEMMA StepCases ==
    ASSUME [Next]_vars
    PROVE  \/ fip' = fip /\ owner' = owner
           \/ \E c \in Calls : \/ AttachInterface(c) \/ CreateFip(c) \/ ProbePool(c) \/ DropFip(c)
                               \/ \E r \in call[c].fips : DetachFip(c, r)
           \/ \E s \in Servers, p \in Ports : PlugPort(s, p) \/ RemovePort(s, p)
<1>1. CASE UNCHANGED vars
  BY <1>1 DEF vars
<1>2. ASSUME NEW c \in Calls, HasFreePrimaryIPv4(c) \/ \E s \in Servers : Begin(c, s)
      PROVE  fip' = fip /\ owner' = owner
  BY <1>2 DEF Begin, HasFreePrimaryIPv4, GetServer, BuildServer, ReinstallServer, AddPrimaryIPv4,
              AddExtraIPv4, RemovePrimaryIPv4, DeleteServer, Start
<1>3. ASSUME NEW c \in Calls,
             \/ GetNova(c) \/ WaitBoot(c) \/ Rebuild(c) \/ ListPorts(c) \/ ListFips(c)
             \/ WaitActive(c) \/ PickPort(c) \/ CreateRefused(c) \/ FindFip(c)
             \/ \E r \in call[c].fips : DetachMissing(c, r)
             \/ DropMissing(c) \/ ProbeRefused(c) \/ NovaDelete(c) \/ ApiError(c)
      PROVE  fip' = fip /\ owner' = owner
  BY <1>3 DEF GetNova, WaitBoot, Rebuild, ListPorts, ListFips, WaitActive, PickPort, CreateRefused,
              FindFip, DetachMissing, DropMissing, ProbeRefused, NovaDelete, ApiError
<1>4. ASSUME NEW s \in Servers,
             \/ CreateServer(s) \/ BootDone(s) \/ BootFails(s) \/ Stop(s) \/ Resume(s)
             \/ ServerGone(s)
      PROVE  fip' = fip /\ owner' = owner
  BY <1>4 DEF CreateServer, BootDone, BootFails, Stop, Resume, ServerGone, SetStatus
<1> QED
  BY <1>1, <1>2, <1>3, <1>4 DEF Next, Request, Cloud

\* A step changes the record of a call when the call begins or acts.
LEMMA CallCases ==
    ASSUME TypeOK, [Next]_vars, NEW c \in Calls
    PROVE  \/ call'[c] = call[c]
           \/ HasFreePrimaryIPv4(c) \/ \E s \in Servers : Begin(c, s)
           \/ Request(c) \/ ApiError(c)
<1>1. call \in [Calls -> CallRec]
  BY DEF TypeOK
<1>2. ASSUME NEW d \in Calls \ {c},
             \/ HasFreePrimaryIPv4(d) \/ \E s \in Servers : Begin(d, s)
             \/ Request(d) \/ ApiError(d)
      PROVE  call'[c] = call[c]
  <2>1. /\ \A k : SetCall(d, k) => call'[c] = call[c]
        /\ \A k : Answer(d, k) => call'[c] = call[c]
    BY <1>1 DEF SetCall, Answer
  <2>2. ASSUME HasFreePrimaryIPv4(d) \/ \E s \in Servers : Begin(d, s)
        PROVE  call'[c] = call[c]
    BY <2>1, <2>2 DEF HasFreePrimaryIPv4, Begin, GetServer, BuildServer, ReinstallServer,
       AddPrimaryIPv4, AddExtraIPv4, RemovePrimaryIPv4, DeleteServer, Start
  <2>3. ASSUME \/ GetNova(d) \/ WaitBoot(d) \/ ListPorts(d) \/ ListFips(d) \/ WaitActive(d)
               \/ PickPort(d) \/ FindFip(d) \/ ApiError(d)
        PROVE  call'[c] = call[c]
    BY <2>1, <2>3 DEF GetNova, WaitBoot, ListPorts, ListFips, WaitActive, PickPort, FindFip, ApiError
  <2>4. ASSUME \/ CreateRefused(d) \/ DropMissing(d) \/ ProbeRefused(d)
               \/ \E r \in call[d].fips : DetachMissing(d, r)
        PROVE  call'[c] = call[c]
    BY <2>1, <2>4 DEF CreateRefused, DropMissing, ProbeRefused, DetachMissing, Refused
  <2>5. ASSUME \/ Rebuild(d) \/ CreateFip(d) \/ AttachInterface(d) \/ DropFip(d) \/ ProbePool(d)
               \/ NovaDelete(d) \/ \E r \in call[d].fips : DetachFip(d, r)
        PROVE  call'[c] = call[c]
    BY <2>1, <2>5 DEF Rebuild, CreateFip, AttachInterface, DropFip, ProbePool, NovaDelete,
       DetachFip, Refused
  <2> QED
    BY <1>2, <2>2, <2>3, <2>4, <2>5 DEF Request
<1>3. ASSUME NEW s \in Servers, Cloud(s)
      PROVE  call' = call
  BY <1>3 DEF Cloud, CreateServer, BootDone, BootFails, Stop, Resume, ServerGone, SetStatus,
     PlugPort, RemovePort
<1> QED
  BY <1>2, <1>3 DEF Next, vars

\* What a step does to one address, and who does it.
LEMMA AddrCases ==
    ASSUME IInv, [Next]_vars, NEW a \in Addrs
    PROVE  \/ fip'[a] = fip[a]
           \/ /\ Available(a) /\ fip'[a] # None /\ fip'[a].tag = FreshTag(a)
              /\ \E c \in Calls : \/ CreateFip(c) /\ fip'[a].port = call[c].port
                                  \/ ProbePool(c) /\ fip'[a].port = None
           \/ /\ fip[a] # None /\ fip'[a] # None
              /\ fip'[a].tag = fip[a].tag /\ fip'[a].port = None
              /\ \/ \E c \in Calls : \E r \in call[c].fips : DetachFip(c, r) /\ r.addr = a
                 \/ \E s \in Servers, p \in Ports : RemovePort(s, p) /\ fip[a].port = p
           \/ fip'[a] = None /\ \E c \in Calls : DropFip(c) /\ call[c].cur.addr = a
<1>1. fip \in [Addrs -> FloatingIP \cup {None}] /\ call \in [Calls -> CallRec]
  BY DEF IInv, TypeOK
<1>2. ASSUME NEW p \in Ports \cup {None}, Available(a), fip'[a] = [tag |-> FreshTag(a), port |-> p]
      PROVE  fip'[a] # None /\ fip'[a].tag = FreshTag(a) /\ fip'[a].port = p
  <2>1. fip'[a] \in FloatingIP
    BY <1>2, FreshTagFacts DEF FloatingIP
  <2> QED
    BY <1>2, <2>1, RecordAssumption
<1>3. ASSUME NEW c \in Calls, CreateFip(c) \/ ProbePool(c), fip'[a] # fip[a]
      PROVE  /\ Available(a) /\ fip'[a] # None /\ fip'[a].tag = FreshTag(a)
             /\ \/ CreateFip(c) /\ fip'[a].port = call[c].port
                \/ ProbePool(c) /\ fip'[a].port = None
  <2>1. CASE CreateFip(c)
    <3>1. call[c].port \in Ports \cup {None}
      BY <1>1 DEF CallRec
    <3>2. Available(a) /\ fip'[a] = [tag |-> FreshTag(a), port |-> call[c].port]
      BY <1>1, <1>3, <2>1 DEF CreateFip
    <3> QED
      BY <1>2, <2>1, <3>1, <3>2
  <2>2. CASE ProbePool(c)
    <3>1. PICK b \in Addrs : /\ Available(b)
                             /\ fip' = [fip EXCEPT ![b] = [tag |-> FreshTag(b), port |-> None]]
      BY <2>2 DEF ProbePool
    <3>2. Available(a) /\ fip'[a] = [tag |-> FreshTag(a), port |-> None]
      BY <1>1, <1>3, <3>1
    <3> QED
      BY <1>2, <2>2, <3>2
  <2> QED
    BY <1>3, <2>1, <2>2
<1>4. ASSUME NEW c \in Calls, NEW r \in call[c].fips, DetachFip(c, r), r.addr = a
      PROVE  fip[a] # None /\ fip'[a] # None /\ fip'[a].tag = fip[a].tag /\ fip'[a].port = None
  <2>1. fip[a] # None /\ fip'[a] = [tag |-> r.tag, port |-> None] /\ fip[a].tag = r.tag
    BY <1>1, <1>4 DEF DetachFip, Live
  <2>2. fip'[a] \in FloatingIP
    BY <1>1, <2>1 DEF FloatingIP
  <2> QED
    BY <2>1, <2>2, RecordAssumption
<1>5. ASSUME NEW s \in Servers, NEW p \in Ports, RemovePort(s, p), fip'[a] # fip[a]
      PROVE  /\ fip[a] # None /\ fip'[a] # None /\ fip[a].port = p
             /\ fip'[a].tag = fip[a].tag /\ fip'[a].port = None
  <2>1. fip[a] # None /\ fip[a].port = p /\ fip'[a] = [fip[a] EXCEPT !.port = None]
    BY <1>5 DEF RemovePort, AddrsOn
  <2>2. fip[a] \in FloatingIP
    BY <1>1, <2>1
  <2>3. fip'[a] \in FloatingIP /\ fip'[a].tag = fip[a].tag /\ fip'[a].port = None
    BY <2>1, <2>2 DEF FloatingIP
  <2> QED
    BY <2>1, <2>3, RecordAssumption
<1>6. ASSUME NEW c \in Calls, NEW r \in call[c].fips, DetachFip(c, r), r.addr # a
      PROVE  fip'[a] = fip[a]
  BY <1>1, <1>6 DEF DetachFip
<1>7. ASSUME NEW c \in Calls, DropFip(c)
      PROVE  fip'[a] = IF call[c].cur.addr = a THEN None ELSE fip[a]
  BY <1>1, <1>7 DEF DropFip
<1>8. ASSUME NEW c \in Calls, AttachInterface(c)
      PROVE  fip'[a] = fip[a]
  BY <1>8 DEF AttachInterface
<1>9. ASSUME NEW s \in Servers, NEW p \in Ports, PlugPort(s, p)
      PROVE  fip'[a] = fip[a]
  BY <1>9 DEF PlugPort
<1> QED
  BY <1>3, <1>4, <1>5, <1>6, <1>7, <1>8, <1>9, StepCases

\* A port keeps its server until it goes, and only new ports get one.
LEMMA OwnerCases == ASSUME IInv, [Next]_vars, NEW p \in Ports, p \notin FreshPorts
                    PROVE  owner'[p] \in {owner[p], None}
<1>1. owner \in [Ports -> Servers \cup {None}]
  BY DEF IInv, TypeOK
<1> QED
  BY <1>1, StepCases DEF AttachInterface, CreateFip, ProbePool, DropFip, DetachFip, PlugPort, RemovePort

LEMMA DetachesOwnStep == IInv /\ [Next]_vars => [DetachesOwn]_vars
<1> SUFFICES ASSUME IInv, [Next]_vars, NEW a \in Addrs, Detached(a)
             PROVE  \/ owner[fip[a].port] # None /\ status[owner[fip[a].port]] = "DELETING"
                    \/ \E c \in Calls : MayDetach(c, a, fip[a].port)
  BY DEF DetachesOwn
<1>1. /\ fip \in [Addrs -> FloatingIP \cup {None}] /\ call \in [Calls -> CallRec]
      /\ fip[a] # None /\ fip[a].port # None /\ fip'[a] # fip[a]
      /\ owner[fip[a].port] # None
  BY DEF IInv, TypeOK, Detached, AttachedInv
<1>2. ASSUME NEW c \in Calls, NEW r \in call[c].fips, DetachFip(c, r)
      PROVE  MayDetach(c, a, fip[a].port)
  <2> DEFINE k == call[c]
  <2>1. r.addr = a /\ Live(r) /\ k.pc = "detach"
    BY <1>1, <1>2 DEF DetachFip
  <2>2. fip[a].port = r.port
    BY <1>1, <2>1 DEF IInv, CallInv, KnownInv, Known
  <2>3. \/ k.op = "DeleteServer" /\ owner[r.port] = k.srv
        \/ k.op = "AddPrimaryIPv4" /\ r.port = k.port
        \/ k.op = "RemovePrimaryIPv4" /\ a = k.want
    BY <1>1, <2>1, <2>2 DEF IInv, CallInv, StepInv, DeleteInv, SwapInv, RemoveInv
  <2>4. call'[c] # k
    <3>1. AfterDetach(k, r) # k
      <4>1. k \in CallRec
        BY <1>1
      <4>2. AfterDetach(k, r).fips = k.fips \ {r}
        BY <4>1 DEF AfterDetach, CallRec
      <4> QED
        BY <4>2
    <3>2. Failed(k) # k
      <4>1. k \in CallRec
        BY <1>1
      <4>2. Failed(k).pc \in {"novadel", "idle"}
        BY <2>1, <4>1 DEF Failed, DeleteNova, IdleCall, CallRec
      <4> QED
        BY <2>1, <4>2
    <3>3. call'[c] = AfterDetach(k, r) \/ call'[c] = Failed(k)
      BY <1>1, <1>2 DEF DetachFip, Answer, SetCall
    <3> QED
      BY <3>1, <3>2, <3>3
  <2> QED
    BY <2>1, <2>2, <2>3, <2>4 DEF MayDetach
<1>3. ASSUME NEW c \in Calls, CreateFip(c) \/ ProbePool(c)
      PROVE  FALSE
  BY <1>1, <1>3 DEF CreateFip, ProbePool, Available
<1>4. ASSUME NEW c \in Calls, DropFip(c)
      PROVE  FALSE
  <2>1. Live(call[c].cur) => fip[call[c].cur.addr].port = None
    BY <1>4 DEF DropFip, IInv, CallInv, StepInv
  <2> QED
    BY <1>1, <1>4, <2>1 DEF DropFip
<1>5. ASSUME NEW s \in Servers, NEW p \in Ports, RemovePort(s, p)
      PROVE  owner[fip[a].port] # None /\ status[owner[fip[a].port]] = "DELETING"
  BY <1>1, <1>5 DEF RemovePort, AddrsOn
<1>6. ASSUME fip' = fip
      PROVE  FALSE
  BY <1>1, <1>6
<1>7. ASSUME NEW c \in Calls, AttachInterface(c)
      PROVE  FALSE
  BY <1>6, <1>7 DEF AttachInterface
<1>8. ASSUME NEW s \in Servers, NEW p \in Ports, PlugPort(s, p)
      PROVE  FALSE
  BY <1>6, <1>8 DEF PlugPort
<1> QED
  BY <1>2, <1>3, <1>4, <1>5, <1>6, <1>7, <1>8, StepCases

\* No call takes a public address away from a server it was not asked about,
\* however stale the listing it works from (ip.go:105-119, 155-161).
THEOREM DetachesOnlyOwn == Spec => NoForeignDetach
  BY Safe, DetachesOwnStep, PTL DEF Spec, NoForeignDetach

-----------------------------------------------------------------------------
(* The adapter implements AddressPool.                                     *)

\* The holder of a changes from x to y, the others keep theirs.
Moves(a, x, y) == /\ Holder(a) = x /\ Holder(a)' = y
                  /\ \A b \in Addrs \ {a} : Holder(b)' = Holder(b)

\* An address whose floating IP and port are not touched keeps its holder.
LEMMA SameHolder == ASSUME NEW b \in Addrs, fip'[b] = fip[b],
                           fip[b] # None /\ fip[b].port # None => owner'[fip[b].port] = owner[fip[b].port]
                    PROVE  Holder(b)' = Holder(b)
  BY DEF Holder

LEMMA PoolMove ==
    ASSUME NEW a \in Addrs, NEW x, NEW y, Moves(a, x, y),
           \/ x = "free" /\ y = "idle"
           \/ x = "idle" /\ y = "free"
           \/ x = "free" /\ y \in Servers
           \/ x \in Servers /\ y = "idle"
    PROVE  Pool!Next
<1>1. Holders[a] = x /\ Holders' = [Holders EXCEPT ![a] = y]
  BY DEF Moves, Holders
<1> QED
  BY <1>1 DEF Pool!Next, Pool!Move, Pool!Reserve, Pool!Release, Pool!Assign, Pool!Detach

LEMMA PoolStep == IInv /\ [Next]_vars => [Pool!Next]_Holders
<1> SUFFICES ASSUME IInv, [Next]_vars
             PROVE  Pool!Next \/ Holders' = Holders
  OBVIOUS
<1>1. /\ fip \in [Addrs -> FloatingIP \cup {None}] /\ call \in [Calls -> CallRec]
      /\ owner \in [Ports -> Servers \cup {None}]
      /\ AttachedOK(fip, owner)
  BY IInvIs DEF TypeOK
<1>2. \A a \in Addrs : fip[a] # None => fip[a].port \in Ports \cup {None}
  BY <1>1 DEF FloatingIP
<1>3. ASSUME \A b \in Addrs : Holder(b)' = Holder(b)
      PROVE  Holders' = Holders
  BY <1>3 DEF Holders
<1>4. ASSUME fip' = fip /\ owner' = owner
      PROVE  Holders' = Holders
  BY <1>3, <1>4, SameHolder
\* A new port has no address.
<1>5. ASSUME NEW p \in FreshPorts, NEW s, owner' = [owner EXCEPT ![p] = s], fip' = fip
      PROVE  Holders' = Holders
  <2>1. \A b \in Addrs : fip[b] # None /\ fip[b].port # None => owner'[fip[b].port] = owner[fip[b].port]
    BY <1>1, <1>2, <1>5 DEF AttachedOK, FreshPorts
  <2> QED
    BY <1>3, <1>5, <2>1, SameHolder
\* Floating IPs change at one address, and no port changes.
<1>6. ASSUME NEW a \in Addrs, NEW x, fip' = [fip EXCEPT ![a] = x], owner' = owner
      PROVE  \A b \in Addrs \ {a} : Holder(b)' = Holder(b)
  BY <1>1, <1>6, SameHolder
<1>7. ASSUME NEW c \in Calls, CreateFip(c)
      PROVE  Pool!Next
  <2>1. PICK a \in Addrs : /\ Available(a) /\ CanCarry(call[c].port) /\ owner' = owner
                           /\ fip' = [fip EXCEPT ![a] = [tag |-> FreshTag(a), port |-> call[c].port]]
    BY <1>7 DEF CreateFip
  <2>2. call[c].port \in Ports /\ owner[call[c].port] \in Servers
    <3>1. call[c].port # None /\ call[c].port \in Ports \cup {None}
      BY <1>1, <1>7 DEF CreateFip, IInv, CallInv, StepInv, CallRec
    <3> QED
      BY <1>1, <2>1, <3>1 DEF CanCarry
  <2>3. [tag |-> FreshTag(a), port |-> call[c].port] \in FloatingIP
    BY <2>1, <2>2, FreshTagFacts DEF FloatingIP
  <2>4. Holder(a) = "free" /\ Holder(a)' = owner[call[c].port]
    BY <1>1, <2>1, <2>2, <2>3, RecordAssumption, NoneAssumption DEF Holder, Available
  <2> QED
    BY <1>6, <2>1, <2>2, <2>4, PoolMove DEF Moves
<1>8. ASSUME NEW c \in Calls, ProbePool(c)
      PROVE  Pool!Next
  <2>1. PICK a \in Addrs : /\ Available(a) /\ owner' = owner
                           /\ fip' = [fip EXCEPT ![a] = [tag |-> FreshTag(a), port |-> None]]
    BY <1>8 DEF ProbePool
  <2>2. [tag |-> FreshTag(a), port |-> None] \in FloatingIP
    BY <2>1, FreshTagFacts DEF FloatingIP
  <2>3. Holder(a) = "free" /\ Holder(a)' = "idle"
    BY <1>1, <2>1, <2>2, RecordAssumption DEF Holder, Available
  <2> QED
    BY <1>6, <2>1, <2>3, PoolMove DEF Moves
<1>9. ASSUME NEW c \in Calls, NEW r \in call[c].fips, DetachFip(c, r)
      PROVE  Pool!Next \/ Holders' = Holders
  <2>1. /\ r \in FipRec /\ r.addr \in Addrs /\ Live(r) /\ owner' = owner
        /\ fip' = [fip EXCEPT ![r.addr] = [tag |-> r.tag, port |-> None]]
    BY <1>1, <1>9 DEF DetachFip, CallRec, FipRec
  <2>2. [tag |-> r.tag, port |-> None] \in FloatingIP
    BY <2>1 DEF FloatingIP, FipRec
  <2>3. Holder(r.addr)' = "idle"
    BY <1>1, <2>1, <2>2, RecordAssumption DEF Holder
  <2>4. Holder(r.addr) = "idle" \/ Holder(r.addr) \in Servers
    BY <1>1, <1>2, <2>1 DEF Holder, Live, AttachedOK
  <2>5. \A b \in Addrs \ {r.addr} : Holder(b)' = Holder(b)
    BY <1>6, <2>1
  <2>6. CASE Holder(r.addr) = "idle"
    BY <1>3, <2>3, <2>5, <2>6
  <2>7. CASE Holder(r.addr) \in Servers
    BY <2>1, <2>3, <2>5, <2>7, PoolMove DEF Moves
  <2> QED
    BY <2>4, <2>6, <2>7
<1>10. ASSUME NEW c \in Calls, DropFip(c)
       PROVE  Pool!Next
  <2> DEFINE r == call[c].cur
  <2>1. r \in FipRec /\ Live(r) /\ fip[r.addr].port = None
    BY <1>1, <1>10 DEF DropFip, IInv, CallInv, StepInv, CallRec
  <2>2. PICK a \in Addrs : a = r.addr
    BY <2>1 DEF FipRec
  <2>3. owner' = owner /\ fip' = [fip EXCEPT ![a] = None]
    BY <1>10, <2>2 DEF DropFip
  <2>4. Holder(a) = "idle" /\ Holder(a)' = "free"
    BY <1>1, <2>1, <2>2, <2>3 DEF Holder, Live
  <2> QED
    BY <1>6, <2>3, <2>4, PoolMove DEF Moves
\* At most one address is on the port that goes.
<1>11. ASSUME NEW s \in Servers, NEW p \in Ports, RemovePort(s, p)
       PROVE  Pool!Next \/ Holders' = Holders
  <2>1. /\ owner[p] = s /\ owner' = [owner EXCEPT ![p] = None]
        /\ fip' = [a \in Addrs |-> IF a \in AddrsOn({p}) THEN [fip[a] EXCEPT !.port = None]
                                   ELSE fip[a]]
    BY <1>11 DEF RemovePort
  <2>2. \A b \in Addrs \ AddrsOn({p}) : Holder(b)' = Holder(b)
    <3> SUFFICES ASSUME NEW b \in Addrs \ AddrsOn({p})
                 PROVE  Holder(b)' = Holder(b)
      OBVIOUS
    <3>1. fip'[b] = fip[b]
      BY <2>1
    <3>2. fip[b] # None /\ fip[b].port # None => fip[b].port \in Ports \ {p}
      BY <1>2 DEF AddrsOn
    <3>3. fip[b] # None /\ fip[b].port # None => owner'[fip[b].port] = owner[fip[b].port]
      BY <1>1, <2>1, <3>2
    <3> QED
      BY <3>1, <3>3, SameHolder
  <2>3. CASE AddrsOn({p}) = {}
    BY <1>3, <2>2, <2>3
  <2>4. ASSUME NEW a \in AddrsOn({p})
        PROVE  Pool!Next
    <3>1. a \in Addrs /\ fip[a] # None /\ fip[a].port = p /\ fip[a] \in FloatingIP
      BY <1>1 DEF AddrsOn
    <3>2. AddrsOn({p}) = {a}
      BY <1>1, <3>1, NoneAssumption DEF AddrsOn, AttachedOK
    <3>3. Holder(a) = s
      BY <2>1, <3>1, NoneAssumption DEF Holder
    <3>4. fip'[a] = [fip[a] EXCEPT !.port = None]
      BY <2>1, <3>1, <3>2
    <3>5. fip'[a] \in FloatingIP /\ fip'[a].port = None
      BY <3>1, <3>4 DEF FloatingIP
    <3>6. Holder(a)' = "idle"
      BY <3>5, RecordAssumption DEF Holder
    <3> QED
      BY <2>2, <3>1, <3>2, <3>3, <3>6, PoolMove DEF Moves
  <2> QED
    BY <2>3, <2>4
<1>12. ASSUME NEW s \in Servers, NEW p \in Ports, PlugPort(s, p)
       PROVE  Holders' = Holders
  BY <1>5, <1>12 DEF PlugPort
<1>13. ASSUME NEW c \in Calls, AttachInterface(c)
       PROVE  Holders' = Holders
  BY <1>4, <1>5, <1>13 DEF AttachInterface
<1> QED
  BY <1>4, <1>7, <1>8, <1>9, <1>10, <1>11, <1>12, <1>13, StepCases

LEMMA PoolInit == Init => Pool!Init
  BY DEF Init, Pool!Init, Holders, Holder

\* The adapter's calls together implement AddressPool: addresses move one at a
\* time, never from a server to another and never from a server straight back
\* into the pool (ip.go:105-167, 268-290, adapter.go:208-297).
THEOREM Implements == Spec => ImplementsPool
  BY PoolInit, PoolStep, Safe, PTL DEF Spec, ImplementsPool, Pool!Spec
=============================================================================
