--------------------------- MODULE FloatingIPsLeaks ---------------------------
(***************************************************************************)
(* No address leaks while requests answer and a deletion has its server to *)
(* itself: NoLeak, proved for every number of servers, ports, addresses    *)
(* and calls that run at the same time.                                    *)
(*                                                                         *)
(* An address leaks when it is attached to nothing and no call is about to *)
(* delete it.  Besides the calls, which have it in their hands, only Nova  *)
(* detaches addresses, with the ports of a server that goes.  So the proof *)
(* is about deletions: the server has lost all its addresses when it goes, *)
(* because its deletion has listed them all, finds each of them where it   *)
(* was, and nobody gives the server another one.                           *)
(***************************************************************************)
EXTENDS FloatingIPsSafety

-----------------------------------------------------------------------------
(* Records.                                                                *)

\* With requests that answer, what was asked for is done.
LEMMA NoFaults == ASSUME Reliable, TypeOK, NEW c \in Calls
                  PROVE  /\ ~ApiError(c)
                         /\ \A k : Answer(c, k) => call' = [call EXCEPT ![c] = k]
<1>1. ~(faults < MaxFaults)
  BY BoundAssumption DEF Reliable, TypeOK
<1> QED
  BY <1>1 DEF ApiError, Answer, SetCall

\* The call goes on with its own server, and the port it has chosen, or is over.
Continues(k, j) == \/ j = IdleCall
                   \/ /\ j.op = k.op /\ j.srv = k.srv /\ j.want = k.want
                      /\ j.port \in {k.port, None} \/ k.pc \in {"port", "attach"}

Forgets(k, j) == Known(j) \subseteq Known(k)

\* The requests by which a call gets to know a floating IP.
Learns(c) == ListFips(c) \/ FindFip(c) \/ ProbePool(c)

LEMMA PlaceEnds == ASSUME NEW k \in CallRec, PlaceInv(k)
                   PROVE  /\ PlaceInv(IdleCall) /\ Continues(k, IdleCall) /\ Forgets(k, IdleCall)
                          /\ PlaceInv(Failed(k)) /\ Continues(k, Failed(k)) /\ Forgets(k, Failed(k))
                          /\ k.op = "DeleteServer" =>
                                LET j == DeleteNova(k)
                                IN  PlaceInv(j) /\ Continues(k, j) /\ Known(j) = {}
<1>1. PlaceInv(IdleCall) /\ Forgets(k, IdleCall)
  BY NoneAssumption DEF IdleCall, PlaceInv, Known, Ops, Forgets
<1>2. k.op = "DeleteServer" => LET j == DeleteNova(k)
                               IN  PlaceInv(j) /\ Continues(k, j) /\ Known(j) = {}
  BY DEF DeleteNova, PlaceInv, Known, Continues, CallRec
<1>3. k.pc = "port" => LET j == [k EXCEPT !.left = k.left - 1]
                       IN  PlaceInv(j) /\ Continues(k, j) /\ Forgets(k, j)
  BY DEF PlaceInv, Known, Continues, CallRec, Forgets
<1> QED
  BY <1>1, <1>2, <1>3 DEF Failed, Continues, Forgets

LEMMA PlaceList == ASSUME NEW k \in CallRec, PlaceInv(k), k.pc \in {"ports", "fips"},
                          NEW found \in SUBSET FipRec
                   PROVE  LET j == AfterList(k, found)
                          IN  /\ PlaceInv(j) /\ Continues(k, j)
                              /\ Known(j) \subseteq found \/ (Forgets(k, j) /\ k.op # "DeleteServer")
<1> DEFINE mine == {r \in found : r.port = k.port}
<1>1. k.cur = None /\ k.op # "HasFreePrimaryIPv4"
  BY DEF PlaceInv
<1>2. CASE k.op = "DeleteServer"
  <2>1. LET j == [k EXCEPT !.pc = "detach", !.fips = found]
        IN  PlaceInv(j) /\ Continues(k, j) /\ Known(j) = found
    BY <1>1, <1>2 DEF PlaceInv, Known, Continues, CallRec
  <2> QED
    BY <1>2, <2>1, PlaceEnds DEF AfterList
<1>3. CASE k.op = "AddPrimaryIPv4"
  <2>1. CASE k.port = None
    <3>1. AfterList(k, found) = [k EXCEPT !.pc = "port", !.fips = found, !.left = 1]
      BY <1>3, <2>1 DEF AfterList
    <3> QED
      BY <1>1, <1>3, <3>1 DEF PlaceInv, Known, Continues, CallRec
  <2>2. CASE k.port # None
    <3>1. AfterList(k, found) = [k EXCEPT !.pc = IF mine = {} THEN "create" ELSE "detach", !.fips = mine]
      BY <1>3, <2>2 DEF AfterList
    <3>2. mine \subseteq found
      OBVIOUS
    <3> HIDE DEF mine
    <3> QED
      BY <1>1, <1>3, <3>1, <3>2 DEF PlaceInv, Known, Continues, CallRec
  <2> QED
    BY <2>1, <2>2
<1>4. CASE k.op \notin {"DeleteServer", "AddPrimaryIPv4"}
  <2>1. LET j == At(k, "wait") IN PlaceInv(j) /\ Continues(k, j) /\ Forgets(k, j)
    BY <1>1, <1>4 DEF At, PlaceInv, Known, Continues, CallRec, Forgets
  <2> QED
    BY <1>4, <2>1, PlaceEnds DEF AfterList
<1> QED
  BY <1>2, <1>3, <1>4

\* What each request makes of the record of its call.
LEMMA RequestPlace == ASSUME IInv, Reliable, NEW c \in Calls, PlaceInv(call[c]), Request(c)
                      PROVE  \E j : /\ call' = [call EXCEPT ![c] = j] /\ PlaceInv(j)
                                    /\ Continues(call[c], j) /\ (Forgets(call[c], j) \/ Learns(c))
<1> DEFINE k == call[c]
           Good(j) == PlaceInv(j) /\ Continues(k, j) /\ (Forgets(k, j) \/ Learns(c))
           Goes(j) == call' = [call EXCEPT ![c] = j]
<1>1. /\ k \in CallRec /\ TypeOK
      /\ k.pc = "find" => k.op = "RemovePrimaryIPv4"
      /\ k.op = "RemovePrimaryIPv4" => \A r \in k.fips : r.addr = k.want
      /\ k.pc = "detach" => k.op \in {"DeleteServer", "AddPrimaryIPv4", "RemovePrimaryIPv4"}
  BY DEF IInv, TypeOK, CallInv, RemoveInv, StepInv
<1>2. Good(IdleCall) /\ Good(Failed(k)) /\ (k.op = "DeleteServer" => Good(DeleteNova(k)))
  BY <1>1, PlaceEnds DEF Forgets
<1>3. \A j : Answer(c, j) => Goes(j)
  BY <1>1, NoFaults
<1>4. \A j : Good(j) /\ Goes(j) => \E i : Good(i) /\ Goes(i)
  OBVIOUS
<1> SUFFICES \E j : Good(j) /\ Goes(j)
  OBVIOUS
<1>5. k.pc # "drop" => k.cur = None
  BY DEF PlaceInv
<1> HIDE DEF k, Good, Goes
<1>6. CASE GetNova(c)
  <2>1. k.pc = "get" => Good(At(k, "ports"))
    BY <1>1, <1>5 DEF At, k, Good, PlaceInv, Known, Continues, Forgets, CallRec
  <2> QED
    BY <1>2, <2>1, <1>6 DEF GetNova, SetCall, k, Goes
<1>7. CASE WaitBoot(c)
  <2>1. k.pc = "boot" => Good(At(k, "ports"))
    BY <1>1, <1>5 DEF At, k, Good, PlaceInv, Known, Continues, Forgets, CallRec
  <2> QED
    BY <1>2, <2>1, <1>7 DEF WaitBoot, SetCall, k, Goes
<1>8. CASE Rebuild(c)
  <2>1. k.pc = "rebuild" => Good(At(k, "boot"))
    BY <1>1, <1>5 DEF At, k, Good, PlaceInv, Known, Continues, Forgets, CallRec
  <2> QED
    BY <1>2, <1>3, <2>1, <1>8 DEF Rebuild, Refused, SetCall, k, Goes
<1>9. CASE ListPorts(c)
  <2> DEFINE j == [k EXCEPT !.ports = PortsOf(k.srv)]
  <2>1. j \in CallRec /\ PlaceInv(j) /\ j.pc = "ports" /\ Continues(k, j)
    BY <1>1, <1>9 DEF ListPorts, PortsOf, k, PlaceInv, Known, Continues, Forgets, CallRec
  <2>2. LET i == AfterList(j, {}) IN PlaceInv(i) /\ Continues(j, i) /\ Forgets(j, i)
    BY <2>1, PlaceList DEF Forgets
  <2>3. LET i == At(j, "fips") IN PlaceInv(i) /\ Continues(j, i) /\ Forgets(j, i)
    BY <2>1 DEF At, PlaceInv, Known, Continues, Forgets, CallRec
  <2>4. Goes(AfterList(j, {})) \/ Goes(At(j, "fips"))
    BY <1>9 DEF ListPorts, SetCall, k, Goes
  <2>5. \A i : Continues(j, i) /\ Forgets(j, i) => Continues(k, i) /\ Forgets(k, i)
    BY <2>1, <1>1, <1>9 DEF ListPorts, Continues, Forgets, Known, CallRec, k
  <2> QED
    BY <2>2, <2>3, <2>4, <2>5 DEF Good
<1>10. CASE ListFips(c)
  <2> DEFINE found == {RecordOf(a) : a \in AddrsOn(k.ports)}
  <2>1. found \in SUBSET FipRec
    BY <1>1, RecordType DEF AddrsOn
  <2>2. Good(AfterList(k, found))
    BY <1>1, <1>10, <2>1, PlaceList DEF ListFips, k, Good, Learns
  <2> QED
    BY <2>2, <1>10 DEF ListFips, SetCall, k, Goes
<1>11. CASE WaitActive(c)
  <2>1. k.pc = "wait" => Good([k EXCEPT !.pc = "port", !.left = PortAttempts])
    BY <1>1, <1>5 DEF k, Good, PlaceInv, Known, Continues, Forgets, CallRec
  <2> QED
    BY <1>2, <2>1, <1>11 DEF WaitActive, SetCall, k, Goes
<1>12. CASE PickPort(c)
  <2>1. \A p, pc : k.pc = "port" /\ pc \in {"create", "ports"} =>
           Good([k EXCEPT !.pc = pc, !.port = p, !.fips = {}])
    BY <1>1, <1>5 DEF k, Good, PlaceInv, Known, Continues, Forgets, CallRec
  <2> QED
    BY <1>2, <2>1, <1>12 DEF PickPort, SetCall, k, Goes
<1>13. CASE CreateFip(c)
  <2>1. \A n : k.pc = "create" => Good([k EXCEPT !.pc = "attach", !.port = None, !.left = n])
    BY <1>1, <1>5 DEF k, Good, PlaceInv, Known, Continues, Forgets, CallRec
  <2> QED
    BY <1>2, <1>3, <2>1, <1>13 DEF CreateFip, AfterCreate, k
<1>14. CASE AttachInterface(c)
  <2>1. \A p : k.pc = "attach" => Good([k EXCEPT !.pc = "create", !.port = p])
    BY <1>1, <1>5 DEF k, Good, PlaceInv, Known, Continues, Forgets, CallRec
  <2> QED
    BY <1>2, <1>3, <2>1, <1>14 DEF AttachInterface, Refused, SetCall, k, Goes
<1>15. CASE FindFip(c)
  <2>1. k.pc = "find" => Good([k EXCEPT !.pc = "detach", !.fips = {RecordOf(k.want)}])
    BY <1>1, <1>5, <1>15 DEF k, Good, PlaceInv, Known, Continues, Learns, CallRec, RecordOf
  <2> QED
    BY <1>2, <2>1, <1>15 DEF FindFip, SetCall, k, Goes
<1>16. ASSUME NEW r \in k.fips, DetachFip(c, r)
       PROVE  \E j : Good(j) /\ Goes(j)
  <2> DEFINE rest == k.fips \ {r}
  <2>1. k.pc = "detach" /\ k.op \in {"DeleteServer", "AddPrimaryIPv4", "RemovePrimaryIPv4"}
    BY <1>1, <1>16 DEF DetachFip, k
  <2>2. rest \subseteq k.fips /\ r \notin rest
    OBVIOUS
  <2>3. k.op = "AddPrimaryIPv4" =>
           Good([k EXCEPT !.pc = IF rest = {} THEN "create" ELSE "detach", !.fips = rest])
    <3> HIDE DEF rest
    <3> QED
      BY <1>1, <1>5, <2>1, <2>2 DEF k, Good, PlaceInv, Known, Continues, Forgets, CallRec
  <2>4. k.op # "AddPrimaryIPv4" => Good([k EXCEPT !.pc = "drop", !.fips = rest, !.cur = r])
    <3> HIDE DEF rest
    <3> QED
      BY <1>1, <2>1, <2>2 DEF k, Good, PlaceInv, Known, Continues, Forgets, CallRec
  <2> QED
    BY <1>3, <1>16, <2>3, <2>4 DEF DetachFip, AfterDetach, k
<1>17. CASE DropFip(c)
  <2>1. k.pc = "drop" /\ k.op = "DeleteServer" => Good([k EXCEPT !.pc = "detach", !.cur = None])
    BY <1>1 DEF k, Good, PlaceInv, Known, Continues, Forgets, CallRec
  <2> QED
    BY <1>2, <1>3, <2>1, <1>17 DEF DropFip, AfterDrop, k
<1>18. CASE ProbePool(c)
  <2>1. \A r : k.pc = "probe" => Good([k EXCEPT !.pc = "drop", !.cur = r])
    BY <1>1, <1>18, NoneAssumption DEF k, Good, PlaceInv, Known, Continues, Learns, CallRec
  <2> QED
    BY <1>3, <2>1, <1>18 DEF ProbePool, k
<1>19. CASE NovaDelete(c)
  BY <1>2, <1>3, <1>19 DEF NovaDelete
<1>20. CASE \/ CreateRefused(c) \/ DropMissing(c) \/ ProbeRefused(c)
            \/ \E r \in call[c].fips : DetachMissing(c, r)
  BY <1>2, <1>20 DEF CreateRefused, DropMissing, ProbeRefused, DetachMissing, Refused, SetCall, k, Goes
<1> QED
  BY <1>6, <1>7, <1>8, <1>9, <1>10, <1>11, <1>12, <1>13, <1>14, <1>15, <1>16, <1>17, <1>18,
     <1>19, <1>20 DEF Request, k

-----------------------------------------------------------------------------
(* Steps.                                                                  *)

\* A call in progress takes a step.
Acted(c) == LET j == call'[c] IN
    /\ Request(c) /\ call' = [call EXCEPT ![c] = j] /\ deleted' = deleted
    /\ PlaceInv(j) /\ Continues(call[c], j) /\ (Forgets(call[c], j) \/ Learns(c))

\* A call begins, about a server that is there or in order to delete it.
Began(c) == LET j == call'[c] IN
    /\ call[c].pc = "idle" /\ call' = [call EXCEPT ![c] = j]
    /\ fip' = fip /\ owner' = owner /\ replaced' = replaced /\ status' = status
    /\ PlaceInv(j) /\ Known(j) = {} /\ j.port = None
    /\ \/ j.op # "DeleteServer" /\ j.srv \notin deleted /\ deleted' = deleted
       \/ j.op = "DeleteServer" /\ j.pc = "ports" /\ deleted' = deleted \cup {j.srv}

LEMMA BeganIs == ASSUME IInv, Reliable, NEW c \in Calls,
                        HasFreePrimaryIPv4(c) \/ \E s \in Servers : Begin(c, s)
                 PROVE  Began(c)
<1>1. call \in [Calls -> CallRec] /\ deleted \subseteq Servers
  BY DEF IInv, TypeOK
<1>2. PICK op, pc, s, want, left :
         /\ op \in Ops
         /\ Start(c, op, pc, s, want, left)
         /\ pc \in {"get", "boot", "rebuild", "ports", "attach", "find", "probe"}
         /\ op = "DeleteServer" => pc = "ports"
         /\ op = "HasFreePrimaryIPv4" <=> pc = "probe"
         /\ \/ op # "DeleteServer" /\ s \notin deleted /\ deleted' = deleted
            \/ op = "DeleteServer" /\ deleted' = deleted \cup {s}
  <2> USE DEF Ops, Callable, Reliable
  <2>1. CASE HasFreePrimaryIPv4(c)
    <3>1. None \notin deleted
      BY <1>1, NoneAssumption
    <3> QED
      BY <2>1, <3>1 DEF HasFreePrimaryIPv4
  <2>2. ASSUME NEW s \in Servers, GetServer(c, s) \/ BuildServer(c, s) \/ ReinstallServer(c, s)
                                   \/ AddPrimaryIPv4(c, s)
        PROVE  \E op \in {"GetServer", "BuildServer", "ReinstallServer", "AddPrimaryIPv4"},
                  pc \in {"get", "boot", "rebuild", "ports"} :
                  /\ Start(c, op, pc, s, None, 0)
                  /\ s \notin deleted /\ deleted' = deleted
    BY <2>2 DEF GetServer, BuildServer, ReinstallServer, AddPrimaryIPv4
  <2>3. ASSUME NEW s \in Servers, AddExtraIPv4(c, s) \/ RemovePrimaryIPv4(c, s)
        PROVE  \E op \in {"AddExtraIPv4", "RemovePrimaryIPv4"}, pc \in {"attach", "find"} :
                  /\ \E want, left : Start(c, op, pc, s, want, left)
                  /\ s \notin deleted /\ deleted' = deleted
    BY <2>3 DEF AddExtraIPv4, RemovePrimaryIPv4
  <2>4. ASSUME NEW s \in Servers, DeleteServer(c, s)
        PROVE  Start(c, "DeleteServer", "ports", s, None, 0) /\ deleted' = deleted \cup {s}
    BY <2>4 DEF DeleteServer
  <2> QED
    BY <2>1, <2>2, <2>3, <2>4 DEF Begin
<1> DEFINE j == NewCall(op, pc, s, want, left)
<1>3. j.op = op /\ j.pc = pc /\ j.srv = s /\ j.port = None /\ Known(j) = {} /\ j.fips = {} /\ j.cur = None
  BY DEF NewCall, Known
<1>4. PlaceInv(j)
  BY <1>2, <1>3 DEF PlaceInv
<1>5. call' = [call EXCEPT ![c] = j] /\ call'[c] = j
  BY <1>1, <1>2 DEF Start, SetCall
<1> HIDE DEF j
<1> QED
  BY <1>2, <1>3, <1>4, <1>5 DEF Began, Start

LEMMA ActedIs == ASSUME IInv, Reliable, NEW c \in Calls, PlaceInv(call[c]), Request(c)
                 PROVE  Acted(c)
<1>1. call \in [Calls -> CallRec]
  BY DEF IInv, TypeOK
<1>2. deleted' = deleted
  BY DEF Request, GetNova, WaitBoot, Rebuild, ListPorts, ListFips, WaitActive, PickPort, CreateFip,
         CreateRefused, AttachInterface, FindFip, DetachFip, DetachMissing, DropFip, DropMissing,
         ProbePool, ProbeRefused, NovaDelete, nova
<1> QED
  BY <1>1, <1>2, RequestPlace DEF Acted

LEMMA CloudIs == ASSUME NEW s \in Servers, Cloud(s)
                 PROVE  call' = call /\ deleted' = deleted /\ replaced' = replaced
  BY DEF Cloud, CreateServer, BootDone, BootFails, Stop, Resume, ServerGone, SetStatus, PlugPort,
         RemovePort, nova

\* Every step is one of a call that acts, of a call that begins, or of the cloud.
LEMMA LeakSteps == ASSUME IInv, LeakInv, Reliable, [Next]_vars
                   PROVE  \/ \E c \in Calls : Acted(c) \/ Began(c)
                          \/ \E s \in Servers : Cloud(s)
                          \/ UNCHANGED vars
<1>1. \A c \in Calls : ~ApiError(c)
  BY NoFaults DEF IInv
<1> QED
  BY <1>1, BeganIs, ActedIs DEF Next, LeakInv

\* A step that keeps to what the callers promise.
LeakStep == Reliable /\ IInv /\ LeakInv /\ [Next]_vars /\ Orderly' /\ IInv'

\* A record that changes is that of a call that acts or begins.
LEMMA Moved == ASSUME LeakStep, NEW c \in Calls, call'[c] # call[c]
               PROVE  Acted(c) \/ Began(c)
<1>1. call \in [Calls -> CallRec]
  BY DEF LeakStep, IInv, TypeOK
<1> QED
  BY <1>1, LeakSteps, CloudIs DEF LeakStep, Acted, Began, vars

\* Deletions, removals and probes stay where they can be, and nobody but its
\* deletion is about a deleted server.
LEMMA PlaceNext == ASSUME LeakStep
                   PROVE  /\ \A c \in Calls : PlaceInv(call'[c])
                          /\ \A c \in Calls : call'[c].srv \in deleted' <=> call'[c].op = "DeleteServer"
                          /\ deleted \subseteq deleted'
<1>1. /\ call \in [Calls -> CallRec] /\ deleted \subseteq Servers
      /\ \A c \in Calls : /\ PlaceInv(call[c])
                          /\ call[c].srv \in deleted <=> call[c].op = "DeleteServer"
  BY DEF LeakStep, IInv, TypeOK, LeakInv, GoingInv
<1>2. ASSUME NEW c \in Calls, Acted(c)
      PROVE  /\ deleted' = deleted /\ PlaceInv(call'[c])
             /\ call'[c].srv \in deleted <=> call'[c].op = "DeleteServer"
             /\ \A d \in Calls \ {c} : call'[d] = call[d]
  <2>1. IdleCall.srv \notin deleted /\ IdleCall.op # "DeleteServer"
    BY <1>1, NoneAssumption DEF IdleCall, Ops
  <2> QED
    BY <1>1, <1>2, <2>1 DEF Acted, Continues
<1>3. ASSUME NEW c \in Calls, Began(c)
      PROVE  /\ \A d \in Calls : PlaceInv(call'[d])
             /\ \A d \in Calls : call'[d].srv \in deleted' <=> call'[d].op = "DeleteServer"
             /\ deleted \subseteq deleted'
  <2>1. PlaceInv(call'[c]) /\ \A d \in Calls \ {c} : call'[d] = call[d]
    BY <1>1, <1>3 DEF Began
  <2>2. CASE call'[c].op # "DeleteServer"
    BY <1>1, <1>3, <2>1, <2>2 DEF Began
  <2>3. CASE call'[c].op = "DeleteServer"
    <3>1. \A d \in Calls \ {c} : call'[d].srv # call'[c].srv
      BY <2>3 DEF LeakStep, Orderly
    <3> QED
      BY <1>1, <1>3, <2>1, <2>3, <3>1 DEF Began
  <2> QED
    BY <2>2, <2>3
<1>4. CASE call' = call /\ deleted' = deleted
  BY <1>1, <1>4
<1> QED
  BY <1>1, <1>2, <1>3, <1>4, LeakSteps, CloudIs DEF LeakStep, vars

\* A call that is about to put an address somewhere has a port of its server.
LEMMA PortNext == ASSUME LeakStep, NEW c \in Calls, call'[c].port # None
                  PROVE  owner'[call'[c].port] \in {call'[c].srv, None}
<1>1. /\ call \in [Calls -> CallRec] /\ owner \in [Ports -> Servers \cup {None}]
      /\ PortInv(call[c]) /\ PlaceInv(call[c]) /\ IInv /\ [Next]_vars
  BY DEF LeakStep, IInv, TypeOK, LeakInv
<1>2. ASSUME call'[c].port = call[c].port, call'[c].srv = call[c].srv
      PROVE  owner'[call'[c].port] \in {call'[c].srv, None}
  <2>1. call[c].port \in Ports \ FreshPorts
    BY <1>1, <1>2 DEF CallRec, FreshPorts
  <2> QED
    BY <1>1, <1>2, <2>1, OwnerCases DEF PortInv
<1> DEFINE k == call[c]
<1>3. /\ k \in CallRec
      /\ Failed(k).port \in {k.port, None} /\ (Failed(k).port # None => Failed(k).srv = k.srv)
  <2>1. \A n : LET j == [k EXCEPT !.left = n] IN j.port = k.port /\ j.srv = k.srv
    BY <1>1 DEF CallRec
  <2>2. DeleteNova(k).port = k.port /\ DeleteNova(k).srv = k.srv /\ IdleCall.port = None
    BY <1>1 DEF DeleteNova, IdleCall, CallRec
  <2> QED
    BY <1>1, <2>1, <2>2 DEF Failed
<1> HIDE DEF k
<1>4. CASE PickPort(c)
  <2>1. \A p, pc : LET j == [k EXCEPT !.pc = pc, !.port = p, !.fips = {}]
                   IN  j.port = p /\ j.srv = k.srv
    BY <1>3 DEF CallRec
  <2>2. \A j : SetCall(c, j) => call'[c] = j
    BY <1>1 DEF SetCall
  <2> DEFINE pc == IF k.fips = {} THEN "create" ELSE "ports"
  <2>3. /\ owner' = owner
        /\ \/ \E p \in PortsOf(k.srv) : call'[c] = [k EXCEPT !.pc = pc, !.port = p, !.fips = {}]
           \/ call'[c] = Failed(k)
    BY <1>1, <1>4 DEF PickPort, SetCall, k
  <2> HIDE DEF pc
  <2>4. CASE call'[c] = Failed(k)
    BY <1>1, <1>2, <1>3, <2>4 DEF k
  <2>5. ASSUME NEW p \in PortsOf(k.srv), call'[c] = [k EXCEPT !.pc = pc, !.port = p, !.fips = {}]
        PROVE  owner[p] = k.srv /\ call'[c].port = p /\ call'[c].srv = k.srv
    BY <2>1, <2>5 DEF PortsOf
  <2> QED
    BY <2>3, <2>4, <2>5
<1>5. CASE AttachInterface(c)
  <2>1. \A p : LET j == [k EXCEPT !.pc = "create", !.port = p] IN j.port = p /\ j.srv = k.srv
    BY <1>3 DEF CallRec
  <2>2. ASSUME NEW p \in FreshPorts, Answer(c, [k EXCEPT !.pc = "create", !.port = p])
        PROVE  call'[c] = [k EXCEPT !.pc = "create", !.port = p]
    <3> DEFINE j == [k EXCEPT !.pc = "create", !.port = p]
    <3>1. Answer(c, j)
      BY <2>2
    <3> HIDE DEF j
    <3>2. call'[c] = j
      BY <1>1, <3>1, NoFaults DEF LeakStep, IInv
    <3> QED
      BY <3>2 DEF j
  <2>3. \/ \E p \in FreshPorts : /\ Answer(c, [k EXCEPT !.pc = "create", !.port = p])
                                 /\ owner' = [owner EXCEPT ![p] = k.srv]
        \/ call'[c] = Failed(k)
    BY <1>1, <1>5 DEF AttachInterface, Refused, SetCall, k
  <2>4. CASE call'[c] = Failed(k)
    BY <1>1, <1>2, <1>3, <2>4 DEF k
  <2>5. ASSUME NEW p \in FreshPorts, call'[c] = [k EXCEPT !.pc = "create", !.port = p],
               owner' = [owner EXCEPT ![p] = k.srv]
        PROVE  owner'[p] = k.srv /\ call'[c].port = p /\ call'[c].srv = k.srv
    BY <1>1, <2>1, <2>5 DEF FreshPorts
  <2> QED
    BY <2>2, <2>3, <2>4, <2>5
<1>6. CASE call'[c] # call[c]
  <2>1. Acted(c) \/ Began(c)
    BY <1>6, Moved
  <2>2. CASE Began(c)
    BY <2>2 DEF Began
  <2>3. CASE Acted(c)
    <3>1. CASE call[c].pc \in {"port", "attach"}
      <4>1. PickPort(c) \/ AttachInterface(c)
        BY <2>3, <3>1 DEF Acted, Request, GetNova, WaitBoot, Rebuild, ListPorts, ListFips,
           WaitActive, CreateFip, CreateRefused, FindFip, DetachFip, DetachMissing, DropFip,
           DropMissing, ProbePool, ProbeRefused, NovaDelete
      <4> QED
        BY <1>4, <1>5, <4>1
    <3>2. CASE call[c].pc \notin {"port", "attach"}
      BY <1>2, <2>3, <3>2 DEF Acted, Continues, IdleCall
    <3> QED
      BY <3>1, <3>2
  <2> QED
    BY <2>1, <2>2, <2>3
<1> QED
  BY <1>2, <1>6

\* A deleted server gets no address any more.
LEMMA HeldNext == ASSUME LeakStep, NEW s \in deleted, NEW a \in Addrs, a \in HeldBy(s)'
                  PROVE  a \in HeldBy(s) /\ fip'[a] = fip[a] /\ RecordOf(a)' = RecordOf(a)
<1>1. /\ fip \in [Addrs -> FloatingIP \cup {None}] /\ owner \in [Ports -> Servers \cup {None}]
      /\ call \in [Calls -> CallRec] /\ s \in Servers /\ s # None
      /\ IInv /\ AttachedInv /\ [Next]_vars
  BY NoneAssumption DEF LeakStep, IInv, TypeOK
<1>2. fip'[a] # None /\ fip'[a].port \in Ports /\ owner'[fip'[a].port] = s
  BY DEF HeldBy, AddrsOn, PortsOf
<1>3. ASSUME fip'[a] = fip[a]
      PROVE  a \in HeldBy(s) /\ fip'[a] = fip[a] /\ RecordOf(a)' = RecordOf(a)
  <2>1. fip[a].port \notin FreshPorts
    BY <1>1, <1>2, <1>3, NoneAssumption DEF FreshPorts, AttachedInv
  <2>2. owner[fip[a].port] = s
    BY <1>1, <1>2, <1>3, <2>1, OwnerCases
  <2> QED
    BY <1>2, <1>3, <2>2 DEF HeldBy, AddrsOn, PortsOf, RecordOf
<1>4. ASSUME NEW c \in Calls, CreateFip(c), fip'[a].port = call[c].port
      PROVE  FALSE
  <2>1. /\ call[c].pc = "create" /\ owner' = owner /\ call[c].port # None
        /\ PlaceInv(call[c]) /\ PortInv(call[c])
        /\ call[c].srv \in deleted <=> call[c].op = "DeleteServer"
    BY <1>1, <1>4 DEF CreateFip, LeakStep, LeakInv, GoingInv, IInv, CallInv, StepInv
  <2>2. owner[call[c].port] = s
    BY <1>2, <1>4, <2>1
  <2> QED
    BY <1>1, <2>1, <2>2 DEF PlaceInv, PortInv
<1>5. ASSUME fip'[a].port = None \/ fip'[a] = None
      PROVE  FALSE
  BY <1>2, <1>5, NoneAssumption
<1> QED
  BY <1>1, <1>3, <1>4, <1>5, AddrCases

\* A floating IP that a call knows and that exists after a step existed before.
LEMMA LiveNext == ASSUME IInv, [Next]_vars, NEW c \in Calls, NEW r \in Known(call[c]), Live(r)'
                  PROVE  Live(r)
<1>1. r.addr \in Addrs
  BY DEF IInv, TypeOK, Known, CallRec, FipRec
<1>2. fip'[r.addr] # None /\ fip'[r.addr].tag = r.tag
  BY DEF Live
<1>3. Available(r.addr) => FreshTag(r.addr) # r.tag
  BY <1>1, FreshTagFacts DEF FreshTags
<1> QED
  BY <1>1, <1>2, <1>3, AddrCases DEF Live

\* What a deletion still has to release stays there.
LEMMA KeptNext == ASSUME LeakStep, NEW c \in Calls, call[c].op = "DeleteServer",
                         NEW r \in Known(call[c]), r \in Known(call'[c])
                  PROVE  Live(r)'
<1>1. /\ call \in [Calls -> CallRec] /\ r \in FipRec /\ r.addr \in Addrs /\ IInv /\ [Next]_vars
      /\ Live(r) /\ fip[r.addr] # None /\ Orderly
      /\ \A q \in Known(call[c]) : q.addr = r.addr => q = r
      /\ \A d \in Calls \ {c} : Spared(r, d)
      /\ \A d \in Calls : PlaceInv(call[d]) /\ StepInv(call[d])
  BY DEF LeakStep, IInv, TypeOK, Known, CallRec, FipRec, LeakInv, ReleaseInv, Live, CallInv
<1>2. ASSUME NEW d \in Calls, DropFip(d), call[d].cur.addr = r.addr
      PROVE  FALSE
  <2>1. call[d].pc = "drop" /\ Live(call[d].cur) /\ call[d].cur \in Known(call[d])
    BY <1>1, <1>2 DEF DropFip, StepInv, Known
  <2>2. CASE d = c
    <3>1. call[c].cur = r /\ r \notin call[c].fips
      BY <1>1, <1>2, <2>1, <2>2 DEF PlaceInv, StepInv
    <3>2. call'[c] = AfterDrop(call[c])
      BY <1>1, <1>2, <2>2, NoFaults DEF DropFip, LeakStep, IInv
    <3>3. Known(AfterDrop(call[c])) \subseteq call[c].fips
      BY <1>1 DEF AfterDrop, DeleteNova, IdleCall, Known, CallRec
    <3> QED
      BY <3>1, <3>2, <3>3
  <2>3. CASE d # c
    <3>1. call[d].op = "RemovePrimaryIPv4"
      BY <1>1, <1>2, <2>1, <2>3 DEF PlaceInv, Spared
    <3>2. r.addr = call[d].want
      BY <1>1, <1>2, <2>1, <3>1 DEF PlaceInv
    <3> QED
      BY <1>1, <2>3, <3>2 DEF Orderly
  <2> QED
    BY <2>2, <2>3
<1>3. fip'[r.addr] # None /\ fip'[r.addr].tag = fip[r.addr].tag
  BY <1>1, <1>2, AddrCases DEF Available
<1> QED
  BY <1>1, <1>3 DEF Live

\* The ports that a deletion has listed carry no address that another deletion
\* or a probe would delete.
LEMMA ListedApart == ASSUME IInv, Orderly, NEW c \in Calls, call[c].op = "DeleteServer",
                            NEW a \in AddrsOn(call[c].ports),
                            NEW d \in Calls \ {c}, PlaceInv(call[d]),
                            call[d].op \in {"DeleteServer", "HasFreePrimaryIPv4"},
                            NEW q \in Known(call[d]), Live(q)
                     PROVE  q.addr # a
<1> SUFFICES ASSUME q.addr = a
             PROVE  FALSE
  OBVIOUS
<1> DEFINE p == fip[a].port
<1>1. a \in Addrs /\ fip[a] # None /\ p \in call[c].ports /\ p \in Ports /\ p # None
  BY NoneAssumption DEF IInv, TypeOK, CallRec, AddrsOn
<1>2. p = q.port
  BY <1>1 DEF IInv, CallInv, KnownInv
<1>3. owner[p] = call[c].srv /\ owner[p] # None
  BY <1>1 DEF IInv, CallInv, DeleteInv, AttachedInv
<1>4. q \in call[d].fips
  BY <1>1 DEF IInv, CallInv, StepInv, PlaceInv, Known
<1>5. call[d].op = "DeleteServer" /\ q.port \in call[d].ports
  BY <1>4 DEF IInv, CallInv, DeleteInv, PlaceInv
<1>6. call[c].srv # call[d].srv
  BY DEF Orderly
<1> QED
  BY <1>1, <1>2, <1>3, <1>5, <1>6 DEF IInv, CallInv, DeleteInv

\* What a call knows it knew before, or has just learnt.
LEMMA KnownNext == ASSUME LeakStep, NEW c \in Calls, NEW r \in Known(call'[c])
                   PROVE  /\ call'[c].op = call[c].op
                          /\ r \in Known(call[c]) \/ (Acted(c) /\ Learns(c))
<1>1. Known(IdleCall) = {}
  BY DEF Known, IdleCall
<1>2. ~Began(c)
  BY DEF Began
<1>3. CASE Acted(c)
  BY <1>1, <1>3 DEF Acted, Continues, Forgets
<1> QED
  BY <1>2, <1>3, Moved

\* A deletion that lists floating IPs knows those of the ports that it listed.
LEMMA ListedRecords == ASSUME LeakStep, NEW c \in Calls, ListFips(c), call[c].op = "DeleteServer"
                       PROVE  /\ fip' = fip /\ \A d \in Calls \ {c} : call'[d] = call[d]
                              /\ \A r \in Known(call'[c]) :
                                    \E a \in AddrsOn(call[c].ports) : r = RecordOf(a)
<1> DEFINE found == {RecordOf(a) : a \in AddrsOn(call[c].ports)}
<1>1. call \in [Calls -> CallRec] /\ PlaceInv(call[c]) /\ TypeOK
  BY DEF LeakStep, IInv, TypeOK, LeakInv
<1>2. call' = [call EXCEPT ![c] = AfterList(call[c], found)] /\ fip' = fip /\ call[c].pc = "fips"
  BY DEF ListFips, SetCall
<1>3. found \in SUBSET FipRec
  BY <1>1, RecordType DEF AddrsOn
<1>4. Known(AfterList(call[c], found)) \subseteq found
  BY <1>1, <1>2, <1>3, PlaceList
<1> QED
  BY <1>1, <1>2, <1>4

LEMMA ReleaseNext == ASSUME LeakStep, NEW c \in Calls, call'[c].op = "DeleteServer",
                            NEW r \in Known(call'[c])
                     PROVE  /\ Live(r)'
                            /\ \A q \in Known(call'[c]) : q.addr = r.addr => q = r
                            /\ \A d \in Calls \ {c} : Spared(r, d)'
<1>1. call \in [Calls -> CallRec] /\ IInv /\ [Next]_vars /\ Orderly
  BY DEF LeakStep, IInv, TypeOK, LeakInv
<1>2. \A d \in Calls : PlaceInv(call[d]) /\ StepInv(call[d]) /\ ReleaseInv(d)
  BY DEF LeakStep, LeakInv, IInv, CallInv
<1>3. call[c].op = "DeleteServer"
  BY KnownNext
<1>4. CASE ListFips(c)
  <2>1. /\ fip' = fip /\ \A d \in Calls \ {c} : call'[d] = call[d]
        /\ \A q \in Known(call'[c]) : \E a \in AddrsOn(call[c].ports) : q = RecordOf(a)
    BY <1>3, <1>4, ListedRecords
  <2>2. PICK a \in AddrsOn(call[c].ports) : r = RecordOf(a)
    BY <2>1
  <2>3. Live(r)' /\ r.addr = a
    BY <2>1, <2>2 DEF Live, RecordOf, AddrsOn
  <2>4. \A q \in Known(call'[c]) : q.addr = r.addr => q = r
    BY <2>1, <2>2 DEF RecordOf
  <2>5. ASSUME NEW d \in Calls \ {c}
        PROVE  Spared(r, d)'
    <3>1. ASSUME call[d].op \in {"DeleteServer", "HasFreePrimaryIPv4"},
                 NEW q \in Known(call[d]), Live(q)
          PROVE  q.addr # r.addr
      BY <1>1, <1>2, <1>3, <2>3, <3>1, ListedApart
    <3>2. \A q : Live(q)' <=> Live(q)
      BY <2>1 DEF Live
    <3>3. call'[d] = call[d]
      BY <2>1
    <3> QED
      BY <3>1, <3>2, <3>3 DEF Spared
  <2> QED
    BY <2>3, <2>4, <2>5
<1>5. CASE ~ListFips(c)
  <2>1. \A q \in Known(call'[c]) : q \in Known(call[c])
    BY <1>2, <1>3, <1>5, KnownNext DEF Learns, FindFip, ProbePool, PlaceInv
  <2>2. /\ Live(r)
        /\ \A q \in Known(call[c]) : q.addr = r.addr => q = r
        /\ \A d \in Calls \ {c} : Spared(r, d)
    BY <1>2, <1>3, <2>1 DEF ReleaseInv
  <2>3. Live(r)'
    BY <1>3, <2>1, KeptNext
  <2>4. ASSUME NEW d \in Calls \ {c}, call'[d].op \in {"DeleteServer", "HasFreePrimaryIPv4"},
               NEW q \in Known(call'[d]), Live(q)'
        PROVE  q.addr # r.addr
    <3>1. call[d].op \in {"DeleteServer", "HasFreePrimaryIPv4"}
      BY <2>4, KnownNext
    <3>2. CASE q \in Known(call[d])
      BY <1>1, <2>2, <2>4, <3>1, <3>2, LiveNext DEF Spared
    <3>3. CASE ListFips(d)
      <4>1. call[d].op = "DeleteServer"
        BY <1>2, <3>1, <3>3 DEF PlaceInv, ListFips
      <4>2. PICK a \in AddrsOn(call[d].ports) : q = RecordOf(a)
        BY <2>4, <3>3, <4>1, ListedRecords
      <4> QED
        BY <1>1, <1>2, <1>3, <2>1, <2>2, <2>4, <4>1, <4>2, ListedApart DEF RecordOf
    <3>4. CASE ProbePool(d) /\ q \notin Known(call[d])
      <4>1. PICK a \in Addrs :
               /\ Available(a)
               /\ Answer(d, [call[d] EXCEPT !.pc = "drop",
                                            !.cur = [addr |-> a, tag |-> FreshTag(a), port |-> None]])
        BY <3>4 DEF ProbePool
      <4> DEFINE new == [addr |-> a, tag |-> FreshTag(a), port |-> None]
                 j == [call[d] EXCEPT !.pc = "drop", !.cur = new]
      <4>2. Answer(d, j)
        BY <4>1
      <4>3. Known(j) \subseteq call[d].fips \cup {new}
        <5> HIDE DEF new
        <5> QED
          BY <1>1 DEF Known, CallRec
      <4> HIDE DEF j
      <4>4. call'[d] = j
        BY <1>1, <4>2, NoFaults DEF LeakStep, IInv
      <4>5. q = new
        BY <2>4, <3>4, <4>3, <4>4 DEF Known
      <4> QED
        BY <2>2, <4>1, <4>5 DEF Live, Available
    <3>5. CASE FindFip(d)
      BY <1>2, <3>1, <3>5 DEF FindFip, StepInv
    <3> QED
      BY <2>4, <3>2, <3>3, <3>4, <3>5, KnownNext DEF Learns
  <2>5. \A d \in Calls \ {c} : Spared(r, d)'
    BY <2>4 DEF Spared
  <2> QED
    BY <2>1, <2>2, <2>3, <2>5
<1> QED
  BY <1>4, <1>5

\* A deletion's request is answered with success: what it names is there.
LEMMA DeletionActs == ASSUME LeakStep, NEW c \in Calls, call[c].op = "DeleteServer", Acted(c)
                      PROVE  \/ ListPorts(c) \/ ListFips(c) \/ DropFip(c) \/ NovaDelete(c)
                             \/ \E r \in call[c].fips : DetachFip(c, r)
<1>1. call[c].pc \in {"ports", "fips", "detach", "drop", "novadel"}
  BY DEF LeakStep, LeakInv, PlaceInv
<1>2. \A r \in Known(call[c]) : Live(r)
  BY DEF LeakStep, LeakInv, ReleaseInv
<1>3. call[c].pc = "drop" => call[c].cur \in Known(call[c])
  BY DEF LeakStep, IInv, CallInv, StepInv, Known
<1>4. ~DropMissing(c) /\ \A r \in call[c].fips : ~DetachMissing(c, r)
  BY <1>2, <1>3 DEF DropMissing, DetachMissing, Known
<1> QED
  BY <1>1, <1>4 DEF Acted, Request, GetNova, WaitBoot, Rebuild, WaitActive, PickPort, CreateFip,
     CreateRefused, AttachInterface, FindFip, ProbePool, ProbeRefused

LEMMA ListedNext == ASSUME LeakStep, NEW c \in Calls, call'[c].op = "DeleteServer",
                           NEW s, s = call'[c].srv, NEW a \in HeldBy(s)'
                    PROVE  /\ call'[c].pc = "fips" => fip'[a].port \in call'[c].ports
                           /\ call'[c].pc \in {"detach", "drop"} => RecordOf(a)' \in call'[c].fips
                           /\ call'[c].pc # "novadel"
<1> DEFINE k == call[c]
<1>1. /\ call \in [Calls -> CallRec] /\ k \in CallRec /\ TypeOK /\ IInv
      /\ ListedInv(k) /\ ReleaseInv(c) /\ PlaceInv(k)
      /\ k.op = "DeleteServer" => k.srv \in deleted
      /\ a \in Addrs /\ fip'[a] # None
  BY DEF LeakStep, IInv, TypeOK, LeakInv, GoingInv, HeldBy, AddrsOn
<1>2. CASE Began(c)
  BY <1>2 DEF Began
<1>3. ASSUME k.op = "DeleteServer", s = k.srv
      PROVE  /\ a \in HeldBy(k.srv) /\ fip'[a] = fip[a] /\ RecordOf(a)' = RecordOf(a)
             /\ k.pc = "fips" => fip[a].port \in k.ports
             /\ k.pc \in {"detach", "drop"} => RecordOf(a) \in k.fips
             /\ k.pc # "novadel"
  <2>1. a \in HeldBy(s) /\ fip'[a] = fip[a] /\ RecordOf(a)' = RecordOf(a)
    BY <1>1, <1>3, HeldNext
  <2> QED
    BY <1>1, <1>3, <2>1 DEF ListedInv
<1>4. CASE call'[c] = k
  BY <1>1, <1>3, <1>4
<1>5. CASE Acted(c)
  <2>1. k.op = "DeleteServer" /\ s = k.srv
    BY <1>5, NoneAssumption DEF Acted, Continues, IdleCall, Ops
  <2>2. \A j : Answer(c, j) => call'[c] = j
    BY <1>1, NoFaults DEF LeakStep
  <2>3. \A j : SetCall(c, j) => call'[c] = j
    BY <1>1 DEF SetCall
  <2>4. CASE ListPorts(c)
    <3> DEFINE j == [k EXCEPT !.ports = PortsOf(k.srv)]
    <3>1. fip[a].port \in PortsOf(k.srv)
      BY <1>3, <2>1 DEF HeldBy, AddrsOn
    <3>2. call'[c] = At(j, "fips")
      BY <2>3, <2>4, <3>1 DEF ListPorts
    <3>3. At(j, "fips").pc = "fips" /\ At(j, "fips").ports = PortsOf(k.srv)
      BY <1>1 DEF At, CallRec
    <3> QED
      BY <1>3, <2>1, <3>1, <3>2, <3>3
  <2>5. CASE ListFips(c)
    <3> DEFINE found == {RecordOf(b) : b \in AddrsOn(k.ports)}
    <3>1. RecordOf(a) \in found
      BY <1>1, <1>3, <2>1, <2>5 DEF ListFips, AddrsOn
    <3>2. call'[c] = AfterList(k, found)
      BY <2>3, <2>5 DEF ListFips
    <3> HIDE DEF found
    <3>3. call'[c] = [k EXCEPT !.pc = "detach", !.fips = found]
      BY <2>1, <3>1, <3>2 DEF AfterList
    <3>4. call'[c].pc = "detach" /\ call'[c].fips = found
      BY <1>1, <3>3 DEF CallRec
    <3> QED
      BY <1>3, <2>1, <3>1, <3>4
  <2>6. ASSUME NEW r \in k.fips, DetachFip(c, r)
        PROVE  call'[c].pc = "drop" /\ RecordOf(a)' \in call'[c].fips
    <3>1. call'[c] = [k EXCEPT !.pc = "drop", !.fips = k.fips \ {r}, !.cur = r]
      BY <2>1, <2>2, <2>6 DEF DetachFip, AfterDetach
    <3>2. call'[c].pc = "drop" /\ call'[c].fips = k.fips \ {r}
      BY <1>1, <3>1 DEF CallRec
    <3>3. RecordOf(a) # r
      <4>1. fip'[r.addr].port = None
        BY <1>1, <2>6 DEF DetachFip, TypeOK, CallRec, FipRec
      <4>2. fip'[a].port # None
        BY NoneAssumption DEF HeldBy, AddrsOn, PortsOf
      <4> QED
        BY <4>1, <4>2 DEF RecordOf
    <3> QED
      BY <1>3, <2>1, <2>6, <3>2, <3>3 DEF DetachFip
  <2>7. CASE DropFip(c)
    <3>1. k.pc = "drop" /\ RecordOf(a) \in k.fips
      BY <1>3, <2>1, <2>7 DEF DropFip
    <3>2. call'[c] = [k EXCEPT !.pc = "detach", !.cur = None]
      BY <2>1, <2>2, <2>7, <3>1 DEF DropFip, AfterDrop
    <3>3. call'[c].pc = "detach" /\ call'[c].fips = k.fips
      BY <1>1, <3>2 DEF CallRec
    <3> QED
      BY <1>3, <2>1, <3>1, <3>3
  <2>8. CASE NovaDelete(c)
    BY <1>3, <2>1, <2>8 DEF NovaDelete
  <2> QED
    BY <1>5, <2>1, <2>4, <2>5, <2>6, <2>7, <2>8, DeletionActs
<1> QED
  BY <1>2, <1>4, <1>5, Moved

LEMMA GoingNext == ASSUME LeakStep, NEW s \in Servers, status'[s] \in {"DELETING", "GONE"}
                   PROVE  s \in deleted' /\ HeldBy(s)' = {}
<1>1. /\ status \in [Servers -> Statuses] /\ [Next]_vars
      /\ status[s] \in {"DELETING", "GONE"} => s \in deleted /\ HeldBy(s) = {}
  BY DEF LeakStep, IInv, TypeOK, LeakInv, GoingInv
<1>2. ASSUME s \in deleted, HeldBy(s) = {}
      PROVE  s \in deleted' /\ HeldBy(s)' = {}
  <2>1. \A a \in Addrs : a \notin HeldBy(s)'
    BY <1>2, HeldNext
  <2>2. HeldBy(s)' \subseteq Addrs
    BY DEF HeldBy, AddrsOn
  <2> QED
    BY <1>2, <2>1, <2>2, PlaceNext
<1>3. ASSUME NEW c \in Calls, NovaDelete(c), call[c].srv = s
      PROVE  s \in deleted /\ HeldBy(s) = {}
  BY <1>3 DEF NovaDelete, LeakStep, LeakInv, GoingInv, PlaceInv, ListedInv
<1>4. ASSUME status'[s] # status[s]
      PROVE  \/ status[s] = "DELETING"
             \/ \E c \in Calls : NovaDelete(c) /\ call[c].srv = s
  <2>1. ASSUME NEW c \in Calls, Acted(c)
        PROVE  NovaDelete(c) /\ call[c].srv = s
    <3>1. ~Rebuild(c)
      BY <1>1, <1>4 DEF Rebuild
    <3>2. NovaDelete(c)
      BY <1>4, <2>1, <3>1 DEF Acted, Request, GetNova, WaitBoot, ListPorts, ListFips, WaitActive,
         PickPort, CreateFip, CreateRefused, AttachInterface, FindFip, DetachFip, DetachMissing,
         DropFip, DropMissing, ProbePool, ProbeRefused, nova
    <3> QED
      BY <1>1, <1>4, <3>2 DEF NovaDelete
  <2>2. ASSUME NEW t \in Servers, Cloud(t)
        PROVE  status[s] = "DELETING"
    BY <1>1, <1>4, <2>2 DEF Cloud, CreateServer, BootDone, BootFails, Stop, Resume, ServerGone,
       SetStatus, PlugPort, RemovePort, nova
  <2> QED
    BY <1>4, <2>1, <2>2, LeakSteps DEF LeakStep, Began, vars
<1> QED
  BY <1>1, <1>2, <1>3, <1>4

LEMMA HandsNext == ASSUME LeakStep, NEW a \in Addrs, Unattached(a)'
                   PROVE  \/ a \in replaced'
                          \/ \E c \in Calls : /\ call'[c].pc = "drop" /\ call'[c].cur.addr = a
                                              /\ LiveIn(fip', call'[c].cur)
<1>1. /\ call \in [Calls -> CallRec] /\ owner \in [Ports -> Servers \cup {None}]
      /\ fip \in [Addrs -> FloatingIP \cup {None}] /\ IInv /\ [Next]_vars
      /\ fip'[a] # None /\ fip'[a].port = None
  BY DEF LeakStep, IInv, TypeOK, Unattached
<1>2. \A c \in Calls : PlaceInv(call[c]) /\ StepInv(call[c])
  BY DEF LeakStep, LeakInv, IInv, CallInv
<1>3. \A c \in Calls : \A j : Answer(c, j) => call'[c] = j
  BY <1>1, NoFaults DEF LeakStep, IInv
<1>4. \A c \in Calls : DropFip(c) => call[c].cur.addr # a
  BY <1>1, <1>2 DEF DropFip, StepInv, CallRec, FipRec
\* An address that was attached to nothing before.
<1>5. ASSUME Unattached(a), fip'[a].tag = fip[a].tag
      PROVE  \/ a \in replaced'
             \/ \E c \in Calls : /\ call'[c].pc = "drop" /\ call'[c].cur.addr = a
                                 /\ LiveIn(fip', call'[c].cur)
  <2>1. CASE a \in replaced
    <3>1. replaced' = replaced \/ \E c \in Calls : Acted(c)
      BY LeakSteps, CloudIs DEF LeakStep, Began, vars
    <3>2. ASSUME NEW c \in Calls, Acted(c)
          PROVE  a \in replaced'
      BY <1>4, <2>1, <3>2 DEF Acted, Request, GetNova, WaitBoot, Rebuild, ListPorts, ListFips,
         WaitActive, PickPort, CreateFip, CreateRefused, AttachInterface, FindFip, DetachFip,
         DetachMissing, DropFip, DropMissing, ProbePool, ProbeRefused, NovaDelete
    <3> QED
      BY <2>1, <3>1, <3>2
  <2>2. ASSUME NEW c \in Calls, call[c].pc = "drop", call[c].cur.addr = a, Live(call[c].cur)
        PROVE  call'[c] = call[c] /\ LiveIn(fip', call[c].cur)
    <3>1. ~Request(c)
      BY <1>4, <2>2 DEF Request, GetNova, WaitBoot, Rebuild, ListPorts, ListFips, WaitActive,
         PickPort, CreateFip, CreateRefused, AttachInterface, FindFip, DetachFip, DetachMissing,
         DropFip, DropMissing, ProbePool, ProbeRefused, NovaDelete
    <3>2. call'[c] = call[c]
      BY <2>2, <3>1, Moved DEF Acted, Began
    <3> QED
      BY <1>1, <1>5, <2>2, <3>2 DEF Live, LiveIn
  <2> QED
    BY <1>5, <2>1, <2>2 DEF LeakStep, LeakInv, HandsInv
\* An address that this step detaches or allocates.
<1>6. ASSUME NEW c \in Calls, NEW r \in call[c].fips, DetachFip(c, r), r.addr = a
      PROVE  \/ a \in replaced'
             \/ /\ call'[c].pc = "drop" /\ call'[c].cur.addr = a
                /\ LiveIn(fip', call'[c].cur)
  <2>1. CASE call[c].op = "AddPrimaryIPv4"
    BY <1>6, <2>1 DEF DetachFip
  <2>2. CASE call[c].op # "AddPrimaryIPv4"
    <3>1. call'[c] = [call[c] EXCEPT !.pc = "drop", !.fips = call[c].fips \ {r}, !.cur = r]
      BY <1>3, <1>6, <2>2 DEF DetachFip, AfterDetach
    <3>2. call'[c].pc = "drop" /\ call'[c].cur = r
      BY <1>1, <3>1 DEF CallRec
    <3>3. fip'[a].tag = r.tag
      BY <1>1, <1>6 DEF DetachFip
    <3> QED
      BY <1>1, <1>6, <3>2, <3>3 DEF LiveIn
  <2> QED
    BY <2>1, <2>2
<1>7. ASSUME NEW c \in Calls, ProbePool(c), fip[a] = None
      PROVE  /\ call'[c].pc = "drop" /\ call'[c].cur.addr = a
             /\ LiveIn(fip', call'[c].cur)
  <2> DEFINE new == [addr |-> a, tag |-> FreshTag(a), port |-> None]
  <2>1. /\ fip'[a].tag = FreshTag(a)
        /\ Answer(c, [call[c] EXCEPT !.pc = "drop", !.cur = new])
    <3>1. PICK b \in Addrs :
             /\ fip' = [fip EXCEPT ![b] = [tag |-> FreshTag(b), port |-> None]]
             /\ Answer(c, [call[c] EXCEPT !.pc = "drop",
                                          !.cur = [addr |-> b, tag |-> FreshTag(b), port |-> None]])
      BY <1>7 DEF ProbePool
    <3>2. b = a
      BY <1>1, <1>7, <3>1
    <3> QED
      BY <1>1, <3>1, <3>2
  <2> HIDE DEF new
  <2>2. call'[c] = [call[c] EXCEPT !.pc = "drop", !.cur = new]
    BY <1>3, <2>1
  <2>3. call'[c].pc = "drop" /\ call'[c].cur = new
    BY <1>1, <2>2 DEF CallRec
  <2> QED
    BY <1>1, <2>1, <2>3 DEF LiveIn, new
<1>8. ASSUME NEW c \in Calls, CreateFip(c)
      PROVE  call[c].port # None
  BY <1>2, <1>8 DEF CreateFip, StepInv
<1>9. ASSUME NEW s \in Servers, NEW p \in Ports, RemovePort(s, p), fip[a] # None, fip[a].port = p
      PROVE  FALSE
  <2>1. a \in HeldBy(s)
    BY <1>9 DEF RemovePort, HeldBy, AddrsOn, PortsOf
  <2> QED
    BY <1>9, <2>1 DEF RemovePort, LeakStep, LeakInv, GoingInv
<1>10. CASE fip'[a] = fip[a]
  BY <1>1, <1>5, <1>10 DEF Unattached
<1>11. CASE \E c \in Calls : CreateFip(c) /\ fip'[a].port = call[c].port
  BY <1>1, <1>8, <1>11
<1>12. CASE Available(a) /\ \E c \in Calls : ProbePool(c)
  BY <1>7, <1>12 DEF Available
<1>13. CASE \E c \in Calls : \E r \in call[c].fips : DetachFip(c, r) /\ r.addr = a
  BY <1>6, <1>13
<1> QED
  BY <1>1, <1>4, <1>9, <1>10, <1>11, <1>12, <1>13, AddrCases

-----------------------------------------------------------------------------
(* The theorems.                                                           *)

LEMMA LeakInit == Init => LeakInv
<1> SUFFICES ASSUME Init
             PROVE  LeakInv
  OBVIOUS
<1>1. \A c \in Calls : call[c] = IdleCall
  BY DEF Init
<1>2. IdleCall.op = None /\ IdleCall.srv = None /\ IdleCall.port = None /\ None \notin Ops
  BY NoneAssumption DEF IdleCall
<1>3. PlaceInv(IdleCall)
  BY NoneAssumption DEF IdleCall, PlaceInv, Known, Ops
<1>4. "DeleteServer" # None
  BY <1>2 DEF Ops
<1>5. Orderly /\ \A c \in Calls : PortInv(call[c]) /\ ReleaseInv(c) /\ ListedInv(call[c])
  BY <1>1, <1>2, <1>4 DEF Orderly, PortInv, ReleaseInv, ListedInv
<1>6. GoingInv
  BY <1>1, <1>2, <1>4 DEF GoingInv, Init
<1>7. HandsInv
  BY DEF HandsInv, Unattached, Init
<1> QED
  BY <1>1, <1>3, <1>5, <1>6, <1>7 DEF LeakInv

LEMMA LeakNext == ASSUME Reliable
                  PROVE  IInv /\ LeakInv /\ [Next /\ Orderly']_vars => LeakInv'
<1> SUFFICES ASSUME IInv, LeakInv, [Next /\ Orderly']_vars
             PROVE  LeakInv'
  OBVIOUS
<1>1. LeakStep
  <2>1. Orderly'
    BY DEF LeakInv, vars, Orderly, HeldBy, AddrsOn, PortsOf, Known
  <2> QED
    BY <2>1, SafeNext DEF LeakStep
<1>2. Orderly'
  BY <1>1 DEF LeakStep
<1>3. GoingInv'
  BY <1>1, GoingNext, PlaceNext DEF GoingInv
<1>4. HandsInv'
  BY <1>1, HandsNext DEF HandsInv, Live, LiveIn
<1>5. \A c \in Calls : PlaceInv(call[c])'
  BY <1>1, PlaceNext DEF PlaceInv, Known
<1>6. \A c \in Calls : PortInv(call[c])'
  BY <1>1, PortNext DEF PortInv
<1>7. \A c \in Calls : ReleaseInv(c)'
  BY <1>1, ReleaseNext DEF ReleaseInv, Known
<1>8. \A c \in Calls : ListedInv(call[c])'
  BY <1>1, ListedNext DEF ListedInv
<1> QED
  BY <1>2, <1>3, <1>4, <1>5, <1>6, <1>7, <1>8 DEF LeakInv

LEMMA OrderlyIsSpec == OrderlySpec => Spec
<1>1. [Next /\ Orderly']_vars => [Next]_vars
  OBVIOUS
<1> QED
  BY <1>1, PTL DEF OrderlySpec, Spec

LEMMA LeakGives == IInv /\ LeakInv => NoLeak
  BY DEF IInv, CallInv, StepInv, LeakInv, HandsInv, NoLeak, Known

\* While requests answer and a deletion has its server to itself, the inductive
\* invariant holds: a deletion has listed what its server holds, nobody else
\* deletes it, and a server that goes holds nothing (adapter.go:208-217, ip.go:105-167).
THEOREM LeakSafe == ASSUME Reliable
                    PROVE  OrderlySpec => []LeakInv
<1>1. IInv /\ LeakInv /\ [Next /\ Orderly']_vars => LeakInv'
  BY LeakNext
<1> QED
  BY <1>1, LeakInit, OrderlyIsSpec, Safe, PTL DEF OrderlySpec

\* And no address leaks, whatever else the calls do to each other
\* (ip.go:105-167, adapter.go:208-217, 276-292).
THEOREM OrderlyLeaksNothing == ASSUME Reliable
                               PROVE  OrderlySpec => []NoLeak
  BY LeakSafe, LeakGives, OrderlyIsSpec, Safe, PTL
=============================================================================
