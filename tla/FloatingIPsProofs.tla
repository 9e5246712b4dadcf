------------------------- MODULE FloatingIPsProofs -------------------------
(***************************************************************************)
(* Proofs about FloatingIPs for every number of servers, ports, addresses, *)
(* calls, retries and failures.                                            *)
(***************************************************************************)
EXTENDS FloatingIPs, TLAPS

-----------------------------------------------------------------------------
(* Type correctness.                                                       *)

\* The records that calls go through are call records (IdleCall, DeleteNova,
\* serverPortIDWithRetry's next attempt).
LEMMA FailedType == ASSUME NEW k \in CallRec
                    PROVE  IdleCall \in CallRec /\ DeleteNova(k) \in CallRec /\ Failed(k) \in CallRec
<1>1. IdleCall \in CallRec
  BY DEF IdleCall, CallRec, Steps
<1>2. DeleteNova(k) \in CallRec
  BY DEF DeleteNova, CallRec, Steps
<1>3. [k EXCEPT !.left = k.left - 1] \in CallRec \/ ~(k.left > 1)
  BY DEF CallRec
<1> QED
  BY <1>1, <1>2, <1>3 DEF Failed

\* Whatever happens to the answer of a request, its call stays a call record.
LEMMA AnswerType == ASSUME TypeOK, NEW c \in Calls, NEW k \in CallRec,
                           Answer(c, k) \/ Refused(c) \/ (SetCall(c, k) /\ UNCHANGED faults)
                                        \/ (SetCall(c, Failed(call[c])) /\ UNCHANGED faults)
                    PROVE  call' \in [Calls -> CallRec] /\ faults' \in 0..MaxFaults
<1>1. call[c] \in CallRec /\ call \in [Calls -> CallRec] /\ faults \in 0..MaxFaults
  BY DEF TypeOK
<1>2. Failed(call[c]) \in CallRec
  BY <1>1, FailedType
<1>3. call' \in [Calls -> CallRec]
  BY <1>1, <1>2 DEF Answer, Refused, SetCall
<1>4. faults' \in 0..MaxFaults
  BY <1>1, BoundAssumption DEF Answer, Refused
<1> QED
  BY <1>3, <1>4

\* listServerFloatingIPs gives call records in every method that calls it.
LEMMA AfterListType == ASSUME NEW k \in CallRec, NEW found \in SUBSET FipRec
                       PROVE  AfterList(k, found) \in CallRec
<1> DEFINE mine == {r \in found : r.port = k.port}
<1>1. mine \in SUBSET FipRec
  OBVIOUS
<1>2. DeleteNova(k) \in CallRec /\ IdleCall \in CallRec
  BY FailedType
<1> HIDE DEF mine
<1>3. [k EXCEPT !.pc = "detach", !.fips = found] \in CallRec
  BY DEF CallRec, Steps
<1>4. [k EXCEPT !.pc = "port", !.fips = found, !.left = 1] \in CallRec
  BY DEF CallRec, Steps
<1>5. [k EXCEPT !.pc = IF mine = {} THEN "create" ELSE "detach", !.fips = mine] \in CallRec
  BY <1>1 DEF CallRec, Steps
<1>6. [k EXCEPT !.pc = "wait"] \in CallRec
  BY DEF CallRec, Steps
<1>7. AfterList(k, found) \in
        {DeleteNova(k), IdleCall, [k EXCEPT !.pc = "detach", !.fips = found],
         [k EXCEPT !.pc = "port", !.fips = found, !.left = 1],
         [k EXCEPT !.pc = IF mine = {} THEN "create" ELSE "detach", !.fips = mine],
         [k EXCEPT !.pc = "wait"]}
  <2>1. CASE k.op = "DeleteServer"
    BY <2>1 DEF AfterList
  <2>2. CASE k.op = "AddPrimaryIPv4" /\ k.port = None
    BY <2>2 DEF AfterList
  <2>3. CASE k.op = "AddPrimaryIPv4" /\ k.port # None
    BY <2>3 DEF AfterList, mine
  <2>4. CASE k.op \notin {"DeleteServer", "AddPrimaryIPv4"}
    BY <2>4 DEF AfterList, At
  <2> QED
    BY <2>1, <2>2, <2>3, <2>4
<1> QED
  BY <1>2, <1>3, <1>4, <1>5, <1>6, <1>7

\* What the floating IPs at attached or found addresses look like to a call.
LEMMA RecordType == ASSUME TypeOK, NEW a \in Addrs, fip[a] # None
                    PROVE  RecordOf(a) \in FipRec
  BY DEF TypeOK, RecordOf, FipRec, FloatingIP

\* A fresh tag is a tag that no call remembers.
LEMMA FreshTagFacts == ASSUME NEW a \in Addrs, Available(a)
                       PROVE  FreshTag(a) \in FreshTags(a) /\ FreshTag(a) \in Tags
  BY DEF Available, FreshTag, FreshTags

\* An entry point starts a call, and changes nothing else but "deleted".
LEMMA BeginType == ASSUME TypeOK, NEW c \in Calls,
                          HasFreePrimaryIPv4(c) \/ \E s \in Servers : Begin(c, s)
                   PROVE  TypeOK'
<1> SUFFICES ASSUME NEW op \in Ops, NEW pc \in Steps, NEW s \in Servers \cup {None},
                    NEW want \in Addrs \cup {None}, NEW left \in Nat,
                    Start(c, op, pc, s, want, left), deleted' \subseteq Servers
             PROVE  TypeOK'
  <2>1. CASE HasFreePrimaryIPv4(c)
    <3>1. Start(c, "HasFreePrimaryIPv4", "probe", None, None, 0) /\ deleted' \subseteq Servers
      BY <2>1 DEF HasFreePrimaryIPv4, TypeOK
    <3> QED
      BY <3>1 DEF Ops, Steps
  <2>2. ASSUME NEW s \in Servers, Begin(c, s)
        PROVE  TypeOK'
    <3>1. CASE GetServer(c, s)
      BY <3>1 DEF GetServer, TypeOK, Ops, Steps
    <3>2. CASE BuildServer(c, s)
      BY <3>2 DEF BuildServer, TypeOK, Ops, Steps
    <3>3. CASE ReinstallServer(c, s)
      BY <3>3 DEF ReinstallServer, TypeOK, Ops, Steps
    <3>4. CASE AddPrimaryIPv4(c, s)
      BY <3>4 DEF AddPrimaryIPv4, TypeOK, Ops, Steps
    <3>5. CASE AddExtraIPv4(c, s)
      <4>1. PICK qty \in 1..MaxExtra : Start(c, "AddExtraIPv4", "attach", s, None, qty)
        BY <3>5 DEF AddExtraIPv4
      <4>2. qty \in Nat /\ deleted' \subseteq Servers
        BY <3>5, BoundAssumption DEF AddExtraIPv4, TypeOK
      <4> QED
        BY <4>1, <4>2 DEF Ops, Steps
    <3>6. CASE RemovePrimaryIPv4(c, s)
      <4>1. PICK a \in Addrs : Start(c, "RemovePrimaryIPv4", "find", s, a, 0)
        BY <3>6 DEF RemovePrimaryIPv4
      <4>2. deleted' \subseteq Servers
        BY <3>6 DEF RemovePrimaryIPv4, TypeOK
      <4> QED
        BY <4>1, <4>2 DEF Ops, Steps
    <3>7. CASE DeleteServer(c, s)
      <4>1. Start(c, "DeleteServer", "ports", s, None, 0) /\ deleted' \subseteq Servers
        BY <3>7 DEF DeleteServer, TypeOK
      <4> QED
        BY <4>1 DEF Ops, Steps
    <3> QED
      BY <2>2, <3>1, <3>2, <3>3, <3>4, <3>5, <3>6, <3>7 DEF Begin
  <2> QED
    BY <2>1, <2>2
<1>1. NewCall(op, pc, s, want, left) \in CallRec
  BY DEF NewCall, CallRec
<1>2. call' \in [Calls -> CallRec]
  BY <1>1 DEF Start, SetCall, TypeOK
<1> QED
  BY <1>2 DEF Start, TypeOK

\* Steps that change the call only.
LEMMA CallOnlyType == ASSUME TypeOK, NEW c \in Calls, NEW k \in CallRec, SetCall(c, k),
                             UNCHANGED <<nova, owner, fip, replaced, faults>>
                      PROVE  TypeOK'
  BY DEF TypeOK, SetCall, nova

\* A refused or lost request.
LEMMA FailType == ASSUME TypeOK, NEW c \in Calls, SetCall(c, Failed(call[c])),
                         UNCHANGED <<nova, owner, fip, replaced>>, faults' \in 0..MaxFaults
                  PROVE  TypeOK'
<1>1. Failed(call[c]) \in CallRec
  BY FailedType DEF TypeOK
<1> QED
  BY <1>1 DEF TypeOK, SetCall, nova

\* The next request of a call.
LEMMA RequestType == ASSUME TypeOK, NEW c \in Calls, Request(c) \/ ApiError(c)
                     PROVE  TypeOK'
<1> DEFINE k == call[c]
<1>1. k \in CallRec /\ IdleCall \in CallRec /\ DeleteNova(k) \in CallRec /\ Failed(k) \in CallRec
  BY FailedType DEF TypeOK
<1>2. \A pc \in Steps : At(k, pc) \in CallRec
  BY <1>1 DEF At, CallRec
<1>3. "idle" \in Steps /\ "ports" \in Steps /\ "fips" \in Steps /\ "boot" \in Steps
      /\ "port" \in Steps /\ "create" \in Steps /\ "attach" \in Steps /\ "drop" \in Steps
      /\ "detach" \in Steps
  BY DEF Steps
<1> HIDE DEF k
<1>4. CASE GetNova(c)
  <2>1. PICK j \in CallRec : SetCall(c, j) /\ UNCHANGED <<nova, owner, fip, replaced, faults>>
    BY <1>1, <1>2, <1>3, <1>4 DEF GetNova, k
  <2> QED
    BY <2>1, CallOnlyType
<1>5. CASE WaitBoot(c)
  <2>1. PICK j \in CallRec : SetCall(c, j) /\ UNCHANGED <<nova, owner, fip, replaced, faults>>
    BY <1>1, <1>2, <1>3, <1>5 DEF WaitBoot, k
  <2> QED
    BY <2>1, CallOnlyType
<1>6. CASE Rebuild(c)
  <2>1. At(k, "boot") \in CallRec
    BY <1>2, <1>3
  <2>2. call' \in [Calls -> CallRec] /\ faults' \in 0..MaxFaults
    BY <2>1, <1>6, AnswerType DEF Rebuild, k
  <2>3. status' \in [Servers -> Statuses]
    BY <1>6 DEF Rebuild, TypeOK, Statuses
  <2> QED
    BY <2>2, <2>3, <1>6 DEF Rebuild, TypeOK
<1>7. CASE ListPorts(c)
  <2> DEFINE listed == [k EXCEPT !.ports = PortsOf(k.srv)]
  <2>1. listed \in CallRec
    BY <1>1 DEF CallRec, PortsOf
  <2>2. AfterList(listed, {}) \in CallRec
    BY <2>1, AfterListType
  <2>3. At(listed, "fips") \in CallRec
    BY <2>1, <1>3 DEF At, CallRec
  <2>4. PICK j \in CallRec : SetCall(c, j) /\ UNCHANGED <<nova, owner, fip, replaced, faults>>
    BY <2>2, <2>3, <1>7 DEF ListPorts, k
  <2> QED
    BY <2>4, CallOnlyType
<1>8. CASE ListFips(c)
  <2> DEFINE found == {RecordOf(a) : a \in AddrsOn(k.ports)}
  <2>1. found \in SUBSET FipRec
    BY RecordType DEF AddrsOn
  <2>2. AfterList(k, found) \in CallRec
    BY <2>1, <1>1, AfterListType
  <2> QED
    BY <2>2, <1>8, CallOnlyType DEF ListFips, k
<1>9. CASE WaitActive(c)
  <2>1. [k EXCEPT !.pc = "port", !.left = PortAttempts] \in CallRec
    BY <1>1, <1>3, BoundAssumption DEF CallRec
  <2>2. PICK j \in CallRec : SetCall(c, j) /\ UNCHANGED <<nova, owner, fip, replaced, faults>>
    BY <1>1, <2>1, <1>9 DEF WaitActive, k
  <2> QED
    BY <2>2, CallOnlyType
<1>10. CASE PickPort(c)
  <2>1. \A p \in PortsOf(k.srv), pc \in {"create", "ports"} :
           [k EXCEPT !.pc = pc, !.port = p, !.fips = {}] \in CallRec
    BY <1>1, <1>3 DEF CallRec, PortsOf
  <2>2. PICK j \in CallRec : SetCall(c, j) /\ UNCHANGED <<nova, owner, fip, replaced, faults>>
    BY <1>1, <2>1, <1>10 DEF PickPort, k
  <2> QED
    BY <2>2, CallOnlyType
<1>11. CASE CreateFip(c)
  <2>1. AfterCreate(k) \in CallRec
    <3>1. k.left > 1 => k.left - 1 \in Nat
      BY <1>1 DEF CallRec
    <3>2. \A n \in Nat : [k EXCEPT !.pc = "attach", !.port = None, !.left = n] \in CallRec
      BY <1>1, <1>3 DEF CallRec
    <3> QED
      BY <3>1, <3>2, <1>1 DEF AfterCreate
  <2>2. call' \in [Calls -> CallRec] /\ faults' \in 0..MaxFaults
    BY <2>1, <1>11, AnswerType DEF CreateFip, k
  <2>3. PICK a \in Addrs : /\ Available(a)
                           /\ fip' = [fip EXCEPT ![a] = [tag |-> FreshTag(a), port |-> k.port]]
    BY <1>11 DEF CreateFip, k
  <2>4. [tag |-> FreshTag(a), port |-> k.port] \in FloatingIP
    BY <2>3, <1>1, FreshTagFacts DEF FloatingIP, CallRec
  <2>5. fip' \in [Addrs -> FloatingIP \cup {None}]
    BY <2>3, <2>4 DEF TypeOK
  <2> QED
    BY <2>2, <2>5, <1>11 DEF CreateFip, TypeOK, nova
<1>12. CASE CreateRefused(c)
  BY <1>12, FailType DEF CreateRefused, Refused, TypeOK
<1>13. CASE AttachInterface(c)
  <2>1. CASE Refused(c) /\ UNCHANGED owner
    BY <2>1, <1>13, FailType DEF AttachInterface, Refused, TypeOK
  <2>2. ASSUME NEW p \in FreshPorts, owner' = [owner EXCEPT ![p] = k.srv],
               Answer(c, [k EXCEPT !.pc = "create", !.port = p])
        PROVE  TypeOK'
    <3>1. [k EXCEPT !.pc = "create", !.port = p] \in CallRec
      BY <1>1, <1>3 DEF CallRec, FreshPorts
    <3>2. call' \in [Calls -> CallRec] /\ faults' \in 0..MaxFaults
      BY <3>1, <2>2, AnswerType
    <3>3. owner' \in [Ports -> Servers \cup {None}]
      BY <1>1, <2>2 DEF TypeOK, CallRec
    <3> QED
      BY <3>2, <3>3, <1>13 DEF AttachInterface, TypeOK, nova
  <2> QED
    BY <2>1, <2>2, <1>13 DEF AttachInterface, k
<1>14. CASE FindFip(c)
  <2> DEFINE found == [k EXCEPT !.pc = "detach", !.fips = {RecordOf(k.want)}]
  <2>1. k.want = None \/ fip[k.want] = None \/ found \in CallRec
    BY <1>1, <1>3, RecordType DEF CallRec
  <2>2. PICK j \in CallRec : SetCall(c, j) /\ UNCHANGED <<nova, owner, fip, replaced, faults>>
    BY <1>1, <2>1, <1>14 DEF FindFip, k
  <2> QED
    BY <2>2, CallOnlyType
<1>15. ASSUME NEW r \in k.fips, DetachFip(c, r)
       PROVE  TypeOK'
  <2>1. r \in FipRec
    BY <1>1 DEF CallRec
  <2>2. AfterDetach(k, r) \in CallRec
    <3> DEFINE rest == k.fips \ {r}
    <3>1. rest \in SUBSET FipRec
      BY <1>1 DEF CallRec
    <3> HIDE DEF rest
    <3>2. [k EXCEPT !.pc = IF rest = {} THEN "create" ELSE "detach", !.fips = rest] \in CallRec
      BY <1>1, <1>3, <3>1 DEF CallRec
    <3>3. [k EXCEPT !.pc = "drop", !.fips = rest, !.cur = r] \in CallRec
      BY <1>1, <1>3, <2>1, <3>1 DEF CallRec
    <3> QED
      BY <3>2, <3>3 DEF AfterDetach, rest
  <2>3. call' \in [Calls -> CallRec] /\ faults' \in 0..MaxFaults
    BY <2>2, <1>15, AnswerType DEF DetachFip, k
  <2>4. fip' \in [Addrs -> FloatingIP \cup {None}]
    BY <2>1, <1>15 DEF DetachFip, TypeOK, FloatingIP, FipRec
  <2>5. replaced' \subseteq Addrs
    BY <2>1, <1>15 DEF DetachFip, TypeOK, FipRec
  <2> QED
    BY <2>3, <2>4, <2>5, <1>15 DEF DetachFip, TypeOK, nova
<1>16. ASSUME NEW r \in k.fips, DetachMissing(c, r)
       PROVE  TypeOK'
  BY <1>16, FailType DEF DetachMissing, Refused, TypeOK
<1>17. CASE DropFip(c)
  <2>1. [k EXCEPT !.pc = "detach", !.cur = None] \in CallRec
    BY <1>1, <1>3 DEF CallRec
  <2>2. AfterDrop(k) \in CallRec
    BY <1>1, <2>1 DEF AfterDrop
  <2>3. call' \in [Calls -> CallRec] /\ faults' \in 0..MaxFaults
    BY <2>2, <1>17, AnswerType DEF DropFip, k
  <2> QED
    BY <2>3, <1>17 DEF DropFip, TypeOK, nova
<1>18. CASE DropMissing(c)
  BY <1>18, FailType DEF DropMissing, Refused, TypeOK
<1>19. CASE ProbePool(c)
  <2>1. PICK a \in Addrs :
           /\ Available(a)
           /\ fip' = [fip EXCEPT ![a] = [tag |-> FreshTag(a), port |-> None]]
           /\ Answer(c, [k EXCEPT !.pc = "drop",
                                  !.cur = [addr |-> a, tag |-> FreshTag(a), port |-> None]])
    BY <1>19 DEF ProbePool, k
  <2>2. FreshTag(a) \in Tags
    BY <2>1, FreshTagFacts
  <2>3. [addr |-> a, tag |-> FreshTag(a), port |-> None] \in FipRec
    BY <2>2 DEF FipRec
  <2>4. [k EXCEPT !.pc = "drop",
                  !.cur = [addr |-> a, tag |-> FreshTag(a), port |-> None]] \in CallRec
    BY <2>3, <1>1, <1>3 DEF CallRec
  <2>5. call' \in [Calls -> CallRec] /\ faults' \in 0..MaxFaults
    BY <2>4, <2>1, AnswerType
  <2>6. fip' \in [Addrs -> FloatingIP \cup {None}]
    BY <2>1, <2>2 DEF TypeOK, FloatingIP
  <2> QED
    BY <2>5, <2>6, <1>19 DEF ProbePool, TypeOK, nova
<1>20. CASE ProbeRefused(c)
  BY <1>20, FailType DEF ProbeRefused, Refused, TypeOK
<1>21. CASE NovaDelete(c)
  <2>1. call' \in [Calls -> CallRec] /\ faults' \in 0..MaxFaults
    BY <1>1, <1>21, AnswerType DEF NovaDelete
  <2>2. status' \in [Servers -> Statuses]
    BY <1>21 DEF NovaDelete, TypeOK, Statuses
  <2> QED
    BY <2>1, <2>2, <1>21 DEF NovaDelete, TypeOK
<1>22. CASE ApiError(c)
  <2>1. faults' \in 0..MaxFaults
    BY <1>22, BoundAssumption DEF ApiError, TypeOK
  <2> QED
    BY <2>1, <1>22, FailType DEF ApiError
<1> QED
  BY <1>4, <1>5, <1>6, <1>7, <1>8, <1>9, <1>10, <1>11, <1>12, <1>13, <1>14, <1>15, <1>16,
     <1>17, <1>18, <1>19, <1>20, <1>21, <1>22 DEF Request, k

\* Nova and Neutron on their own.
LEMMA CloudType == ASSUME TypeOK, NEW s \in Servers, Cloud(s)
                   PROVE  TypeOK'
<1>1. \A from, to : to \in Statuses /\ SetStatus(s, from, to) => TypeOK'
  BY DEF SetStatus, TypeOK
<1>2. CASE \/ CreateServer(s) \/ BootDone(s) \/ BootFails(s) \/ Stop(s) \/ Resume(s)
           \/ ServerGone(s)
  BY <1>1, <1>2 DEF CreateServer, BootDone, BootFails, Stop, Resume, ServerGone, Statuses
<1>3. ASSUME NEW p \in Ports, PlugPort(s, p)
      PROVE  TypeOK'
  BY <1>3 DEF PlugPort, TypeOK, nova
<1>4. ASSUME NEW p \in Ports, RemovePort(s, p)
      PROVE  TypeOK'
  <2>1. \A a \in AddrsOn({p}) : [fip[a] EXCEPT !.port = None] \in FloatingIP
    BY DEF AddrsOn, TypeOK, FloatingIP
  <2>2. fip' \in [Addrs -> FloatingIP \cup {None}]
    BY <2>1, <1>4 DEF RemovePort, TypeOK
  <2> QED
    BY <2>2, <1>4 DEF RemovePort, TypeOK, nova
<1> QED
  BY <1>2, <1>3, <1>4 DEF Cloud

LEMMA TypeInit == Init => TypeOK
  BY BoundAssumption DEF Init, TypeOK, IdleCall, CallRec, Steps, Statuses

LEMMA TypeNext == TypeOK /\ [Next]_vars => TypeOK'
<1> SUFFICES ASSUME TypeOK, [Next]_vars
             PROVE  TypeOK'
  OBVIOUS
<1>1. CASE UNCHANGED vars
  BY <1>1 DEF vars, TypeOK
<1>2. ASSUME NEW c \in Calls, HasFreePrimaryIPv4(c) \/ \E s \in Servers : Begin(c, s)
      PROVE  TypeOK'
  BY <1>2, BeginType
<1>3. ASSUME NEW c \in Calls, Request(c) \/ ApiError(c)
      PROVE  TypeOK'
  BY <1>3, RequestType
<1>4. ASSUME NEW s \in Servers, Cloud(s)
      PROVE  TypeOK'
  BY <1>4, CloudType
<1> QED
  BY <1>1, <1>2, <1>3, <1>4 DEF Next

\* Every variable keeps its type; in particular the counter of attempts and of
\* interfaces never falls below zero (ip.go, serverPortIDWithRetry, AddExtraIPv4).
THEOREM TypeCorrect == Spec => []TypeOK
  BY TypeInit, TypeNext, PTL DEF Spec
=============================================================================
