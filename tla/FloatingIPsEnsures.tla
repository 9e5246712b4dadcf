-------------------------- MODULE FloatingIPsEnsures --------------------------
(***************************************************************************)
(* ensureServerFloatingIP gives an address only to a server that has none, *)
(* while no other call is about that server: EnsureOnlyWhenNone, proved    *)
(* for every number of servers, ports, addresses, calls, retries and       *)
(* failures, and whether or not callers work from stale rows.              *)
(*                                                                         *)
(* The check and the allocation are several requests apart.  What the      *)
(* check saw stays true because a server's addresses only get fewer unless *)
(* a call allocates one for a port of the server, and a call works on a    *)
(* port of its own server.                                                 *)
(***************************************************************************)
EXTENDS FloatingIPsSafety

-----------------------------------------------------------------------------
(* The port a call works on.                                               *)

\* The call keeps its server, and its port unless it gives it up, or is over.
Keeps(k, j) == /\ j.op \in {k.op, None}
               /\ j.port = None \/ (j.srv = k.srv /\ j.port = k.port)

LEMMA KeepsEnds == ASSUME NEW k \in CallRec
                   PROVE  Keeps(k, IdleCall) /\ Keeps(k, Failed(k)) /\ Keeps(k, DeleteNova(k))
<1>1. \A n : LET j == [k EXCEPT !.left = n] IN j.op = k.op /\ j.port = k.port /\ j.srv = k.srv
  BY DEF CallRec
<1>2. /\ DeleteNova(k).op = k.op /\ DeleteNova(k).port = k.port /\ DeleteNova(k).srv = k.srv
      /\ IdleCall.op = None /\ IdleCall.port = None
  BY DEF DeleteNova, IdleCall, CallRec
<1> QED
  BY <1>1, <1>2 DEF Failed, Keeps

LEMMA KeepsList == ASSUME NEW k \in CallRec, NEW found
                   PROVE  Keeps(k, AfterList(k, found))
<1>1. \A pc, fs, n :
         /\ LET j == [k EXCEPT !.pc = pc, !.fips = fs] IN j.op = k.op /\ j.port = k.port /\ j.srv = k.srv
         /\ LET j == [k EXCEPT !.pc = pc, !.fips = fs, !.left = n] IN j.op = k.op /\ j.port = k.port /\ j.srv = k.srv
         /\ LET j == [k EXCEPT !.pc = pc] IN j.op = k.op /\ j.port = k.port /\ j.srv = k.srv
  BY DEF CallRec
<1> DEFINE mine == {r \in found : r.port = k.port}
           next == IF mine = {} THEN "create" ELSE "detach"
<1>2. Keeps(k, [k EXCEPT !.pc = next, !.fips = mine])
  <2> HIDE DEF mine, next
  <2> QED
    BY <1>1 DEF Keeps
<1>3. Keeps(k, IdleCall) /\ Keeps(k, DeleteNova(k))
  BY KeepsEnds
<1>4. /\ Keeps(k, [k EXCEPT !.pc = "detach", !.fips = found])
      /\ Keeps(k, [k EXCEPT !.pc = "port", !.fips = found, !.left = 1])
      /\ Keeps(k, At(k, "wait"))
  BY <1>1 DEF Keeps, At
<1> QED
  BY <1>2, <1>3, <1>4 DEF AfterList

\* A call that changes its record keeps its server and its port, gives the port
\* up, or chooses a port of its server.
LEMMA RequestKeeps ==
    ASSUME TypeOK, NEW c \in Calls, Request(c) \/ ApiError(c)
    PROVE  \/ Keeps(call[c], call'[c])
           \/ /\ call'[c].op = call[c].op /\ call'[c].srv = call[c].srv
              /\ owner'[call'[c].port] = call[c].srv
<1> DEFINE k == call[c]
<1>1. /\ k \in CallRec /\ call \in [Calls -> CallRec] /\ owner \in [Ports -> Servers \cup {None}]
  BY DEF TypeOK
<1>2. /\ \A j : SetCall(c, j) => call'[c] = j
      /\ \A j : Answer(c, j) => call'[c] \in {j, Failed(k)}
  BY <1>1 DEF SetCall, Answer
<1>3. Keeps(k, IdleCall) /\ Keeps(k, Failed(k)) /\ Keeps(k, DeleteNova(k))
  BY <1>1, KeepsEnds
<1> SUFFICES \/ Keeps(k, call'[c])
             \/ call'[c].op = k.op /\ call'[c].srv = k.srv /\ owner'[call'[c].port] = k.srv
  OBVIOUS
<1> HIDE DEF k
<1>4. CASE GetNova(c) \/ WaitBoot(c) \/ Rebuild(c)
  <2>1. call'[c] \in {IdleCall, At(k, "ports"), At(k, "boot"), Failed(k)}
    BY <1>2, <1>4 DEF GetNova, WaitBoot, Rebuild, Refused, k
  <2>2. Keeps(k, At(k, "ports")) /\ Keeps(k, At(k, "boot"))
    BY <1>1 DEF At, CallRec, Keeps
  <2> QED
    BY <1>3, <2>1, <2>2
<1>5. CASE ListPorts(c)
  <2> DEFINE l == [k EXCEPT !.ports = PortsOf(k.srv)]
  <2>1. l \in CallRec /\ l.op = k.op /\ l.srv = k.srv /\ l.port = k.port
    BY <1>1 DEF CallRec, PortsOf
  <2>2. call'[c] \in {AfterList(l, {}), At(l, "fips")}
    BY <1>2, <1>5 DEF ListPorts, k
  <2>3. Keeps(l, AfterList(l, {}))
    BY <2>1, KeepsList
  <2>4. Keeps(l, At(l, "fips"))
    BY <2>1 DEF At, CallRec, Keeps
  <2> HIDE DEF l
  <2> QED
    BY <2>1, <2>2, <2>3, <2>4 DEF Keeps
<1>6. CASE ListFips(c)
  <2>1. \E found : call'[c] = AfterList(k, found)
    BY <1>2, <1>6 DEF ListFips, k
  <2> QED
    BY <1>1, <2>1, KeepsList
<1>7. CASE WaitActive(c)
  <2> DEFINE j == [k EXCEPT !.pc = "port", !.left = PortAttempts]
  <2>1. call'[c] \in {j, Failed(k)}
    BY <1>2, <1>7 DEF WaitActive, k
  <2>2. Keeps(k, j)
    BY <1>1 DEF CallRec, Keeps
  <2> HIDE DEF j
  <2> QED
    BY <1>3, <2>1, <2>2
<1>8. CASE PickPort(c)
  <2> DEFINE pc == IF k.fips = {} THEN "create" ELSE "ports"
             j(p) == [k EXCEPT !.pc = pc, !.port = p, !.fips = {}]
  <2>1. owner' = owner /\ (call'[c] = Failed(k) \/ \E p \in PortsOf(k.srv) : call'[c] = j(p))
    BY <1>2, <1>8 DEF PickPort, k
  <2>2. \A p : j(p).op = k.op /\ j(p).port = p /\ j(p).srv = k.srv
    BY <1>1 DEF CallRec
  <2> HIDE DEF j
  <2> QED
    BY <1>3, <2>1, <2>2 DEF PortsOf
<1>9. CASE CreateFip(c)
  <2> DEFINE j == [k EXCEPT !.pc = "attach", !.port = None, !.left = k.left - 1]
  <2>1. call'[c] \in {AfterCreate(k), Failed(k)}
    BY <1>2, <1>9 DEF CreateFip, k
  <2>2. Keeps(k, j) /\ AfterCreate(k) \in {j, IdleCall}
    BY <1>1 DEF AfterCreate, CallRec, Keeps
  <2> HIDE DEF j
  <2> QED
    BY <1>3, <2>1, <2>2
<1>10. CASE AttachInterface(c)
  <2> DEFINE j(p) == [k EXCEPT !.pc = "create", !.port = p]
  <2>1. \/ call'[c] = Failed(k)
        \/ \E p \in FreshPorts : owner' = [owner EXCEPT ![p] = k.srv] /\ call'[c] \in {j(p), Failed(k)}
    BY <1>2, <1>10 DEF AttachInterface, Refused, k
  <2>2. \A p : j(p).op = k.op /\ j(p).port = p /\ j(p).srv = k.srv
    BY <1>1 DEF CallRec
  <2> HIDE DEF j
  <2> QED
    BY <1>1, <1>3, <2>1, <2>2 DEF FreshPorts
<1>11. CASE FindFip(c)
  <2> DEFINE j == [k EXCEPT !.pc = "detach", !.fips = {RecordOf(k.want)}]
  <2>1. call'[c] \in {j, Failed(k)}
    BY <1>2, <1>11 DEF FindFip, k
  <2>2. Keeps(k, j)
    BY <1>1 DEF CallRec, Keeps
  <2> HIDE DEF j
  <2> QED
    BY <1>3, <2>1, <2>2
<1>12. ASSUME NEW r \in call[c].fips, DetachFip(c, r)
       PROVE  Keeps(k, call'[c])
  <2>1. call'[c] \in {AfterDetach(k, r), Failed(k)}
    BY <1>2, <1>12 DEF DetachFip, k
  <2> DEFINE rest == k.fips \ {r}
             next == IF rest = {} THEN "create" ELSE "detach"
             swap == [k EXCEPT !.pc = next, !.fips = rest]
             drop == [k EXCEPT !.pc = "drop", !.fips = rest, !.cur = r]
  <2>2. AfterDetach(k, r) \in {swap, drop}
    BY DEF AfterDetach
  <2> HIDE DEF rest, next
  <2>3. Keeps(k, swap) /\ Keeps(k, drop)
    BY <1>1 DEF CallRec, Keeps
  <2> HIDE DEF swap, drop
  <2> QED
    BY <1>3, <2>1, <2>2, <2>3
<1>13. CASE DropFip(c)
  <2> DEFINE j == [k EXCEPT !.pc = "detach", !.cur = None]
  <2>1. call'[c] \in {AfterDrop(k), Failed(k)}
    BY <1>2, <1>13 DEF DropFip, k
  <2>2. Keeps(k, j) /\ AfterDrop(k) \in {j, IdleCall, DeleteNova(k)}
    BY <1>1 DEF AfterDrop, CallRec, Keeps
  <2> HIDE DEF j
  <2> QED
    BY <1>3, <2>1, <2>2
<1>14. CASE ProbePool(c)
  <2> DEFINE j(r) == [k EXCEPT !.pc = "drop", !.cur = r]
  <2>1. \E r : call'[c] \in {j(r), Failed(k)}
    BY <1>2, <1>14 DEF ProbePool, k
  <2>2. \A r : Keeps(k, j(r))
    BY <1>1 DEF CallRec, Keeps
  <2> HIDE DEF j
  <2> QED
    BY <1>3, <2>1, <2>2
<1>15. CASE NovaDelete(c)
  <2>1. call'[c] \in {IdleCall, Failed(k)}
    BY <1>2, <1>15 DEF NovaDelete, k
  <2> QED
    BY <1>3, <2>1
<1>16. CASE \/ CreateRefused(c) \/ DropMissing(c) \/ ProbeRefused(c) \/ ApiError(c)
            \/ \E r \in call[c].fips : DetachMissing(c, r)
  <2>1. call'[c] = Failed(k)
    BY <1>2, <1>16 DEF CreateRefused, DropMissing, ProbeRefused, ApiError, DetachMissing, Refused, k
  <2> QED
    BY <1>3, <2>1
<1> QED
  BY <1>4, <1>5, <1>6, <1>7, <1>8, <1>9, <1>10, <1>11, <1>12, <1>13, <1>14, <1>15, <1>16 DEF Request

\* A call works on a port of its own server, or one that is gone.
LEMMA PortKept == ASSUME IInv, [Next]_vars, NEW c \in Calls, PortInv(call[c])
                  PROVE  PortInv(call[c])'
<1>1. TypeOK /\ call \in [Calls -> CallRec] /\ owner \in [Ports -> Servers \cup {None}]
  BY DEF IInv, TypeOK
<1>2. ASSUME \/ call'[c].port = None
             \/ call'[c].srv = call[c].srv /\ call'[c].port = call[c].port
      PROVE  PortInv(call[c])'
  <2>1. CASE call'[c].port = None
    BY <2>1 DEF PortInv
  <2>2. CASE call'[c].port # None /\ call'[c].port = call[c].port /\ call'[c].srv = call[c].srv
    <3>1. call[c].port \in Ports \ FreshPorts
      BY <1>1, <2>2 DEF CallRec, FreshPorts
    <3> QED
      BY <2>2, <3>1, OwnerCases DEF PortInv
  <2> QED
    BY <1>2, <2>1, <2>2
<1>3. CASE call'[c] = call[c]
  BY <1>2, <1>3
<1>4. CASE Request(c) \/ ApiError(c)
  BY <1>1, <1>2, <1>4, RequestKeeps DEF PortInv, Keeps
<1>5. CASE HasFreePrimaryIPv4(c) \/ \E s \in Servers : Begin(c, s)
  <2>1. call'[c].port = None
    BY <1>1, <1>5 DEF Begin, HasFreePrimaryIPv4, GetServer, BuildServer, ReinstallServer,
       AddPrimaryIPv4, AddExtraIPv4, RemovePrimaryIPv4, DeleteServer, Start, SetCall, NewCall
  <2> QED
    BY <1>2, <2>1
<1> QED
  BY <1>1, <1>3, <1>4, <1>5, CallCases

-----------------------------------------------------------------------------
(* What an ensure has seen.                                                *)

\* The first steps of an ensure.
Opening == {"get", "boot", "rebuild", "ports"}

LEMMA EnsureBegins == ASSUME TypeOK, NEW c \in Calls,
                             HasFreePrimaryIPv4(c) \/ \E s \in Servers : Begin(c, s),
                             call'[c].op \in Ensures
                      PROVE  call'[c].pc \in Opening
  BY DEF TypeOK, Begin, HasFreePrimaryIPv4, GetServer, BuildServer, ReinstallServer, AddPrimaryIPv4,
         AddExtraIPv4, RemovePrimaryIPv4, DeleteServer, Start, SetCall, NewCall, Ensures, Opening

\* What the requests of an ensure make of its record: from the empty listing on
\* it goes on only while the server holds nothing, and it ends with its allocation.
LEMMA EnsureActs ==
    ASSUME TypeOK, NEW c \in Calls, call[c].op \in Ensures, EnsureInv(call[c]),
           Request(c) \/ ApiError(c)
    PROVE  LET k == call[c]
               j == call'[c]
           IN  \/ j = IdleCall
               \/ /\ j.op = k.op /\ j.srv = k.srv
                  /\ \/ j.pc \in Opening
                     \/ j.pc = "fips" /\ HeldBy(k.srv) \subseteq AddrsOn(j.ports) /\ fip' = fip
                     \/ j.pc \in {"wait", "port", "create"} /\ HeldBy(k.srv) = {} /\ fip' = fip
<1> DEFINE k == call[c]
           s == k.srv
<1>1. /\ k \in CallRec /\ call \in [Calls -> CallRec] /\ k.op \in Ensures
      /\ k.op \notin {"DeleteServer", "AddPrimaryIPv4", "AddExtraIPv4", "RemovePrimaryIPv4"}
  BY DEF TypeOK, Ensures
<1>2. /\ \A j : SetCall(c, j) => call'[c] = j
      /\ \A j : Answer(c, j) => call'[c] \in {j, Failed(k)}
  BY <1>1 DEF SetCall, Answer
<1> DEFINE Good(j) == \/ j = IdleCall
                      \/ /\ j.op = k.op /\ j.srv = s
                         /\ \/ j.pc \in Opening
                            \/ j.pc = "fips" /\ HeldBy(s) \subseteq AddrsOn(j.ports) /\ fip' = fip
                            \/ j.pc \in {"wait", "port", "create"} /\ HeldBy(s) = {} /\ fip' = fip
<1>3. /\ k.pc \in {"get", "boot", "rebuild", "ports", "fips", "wait", "port", "create"}
      /\ k.pc = "fips" => HeldBy(s) \subseteq AddrsOn(k.ports)
      /\ k.pc \in {"wait", "port", "create"} => HeldBy(s) = {}
  BY <1>1 DEF EnsureInv
<1>4. Good(IdleCall)
  OBVIOUS
<1>5. ASSUME fip' = fip \/ k.pc # "port"
      PROVE  Good(Failed(k))
  <2> DEFINE j == [k EXCEPT !.left = k.left - 1]
  <2>1. j.op = k.op /\ j.srv = s /\ j.pc = k.pc
    BY <1>1 DEF CallRec
  <2>2. Failed(k) = IdleCall \/ (k.pc = "port" /\ Failed(k) = j)
    BY <1>1 DEF Failed
  <2> HIDE DEF j
  <2> QED
    BY <1>3, <1>4, <1>5, <2>1, <2>2
<1> SUFFICES Good(call'[c])
  OBVIOUS
<1>6. /\ Good(At(k, "ports")) /\ Good(At(k, "boot"))
  BY <1>1 DEF At, CallRec, Opening
<1> HIDE DEF k, s, Good
<1>7. CASE GetNova(c) \/ WaitBoot(c) \/ Rebuild(c)
  <2>1. call'[c] \in {IdleCall, At(k, "ports"), At(k, "boot"), Failed(k)}
    BY <1>2, <1>7 DEF GetNova, WaitBoot, Rebuild, Refused, k
  <2>2. k.pc # "port"
    BY <1>7 DEF GetNova, WaitBoot, Rebuild, k
  <2> QED
    BY <1>4, <1>5, <1>6, <2>1, <2>2
<1>8. CASE ListPorts(c)
  <2> DEFINE l == [k EXCEPT !.ports = PortsOf(s)]
             i == At(l, "wait")
             j == At(l, "fips")
  <2>1. l \in CallRec /\ l.op = k.op /\ l.srv = s /\ l.ports = PortsOf(s)
    BY <1>1 DEF CallRec, PortsOf, s
  <2>2. /\ i.op = k.op /\ i.srv = s /\ i.pc = "wait"
        /\ j.op = k.op /\ j.srv = s /\ j.pc = "fips" /\ j.ports = PortsOf(s)
    <3> HIDE DEF l
    <3> QED
      BY <2>1 DEF At, CallRec
  <2>3. AfterList(l, {}) = i
    <3> HIDE DEF l
    <3> QED
      BY <1>1, <2>1 DEF AfterList
  <2>4. /\ fip' = fip
        /\ (PortsOf(s) = {} /\ call'[c] = i) \/ call'[c] = j
    BY <1>2, <1>8, <2>3 DEF ListPorts, k, s
  <2>5. PortsOf(s) = {} => HeldBy(s) = {}
    BY DEF HeldBy, AddrsOn
  <2> HIDE DEF i, j
  <2> QED
    BY <2>2, <2>4, <2>5 DEF Good, HeldBy
<1>9. CASE ListFips(c)
  <2> DEFINE found == {RecordOf(a) : a \in AddrsOn(k.ports)}
             i == At(k, "wait")
  <2>1. k.pc = "fips" /\ fip' = fip /\ call'[c] = AfterList(k, found)
    BY <1>2, <1>9 DEF ListFips, k
  <2>2. call'[c] = IF found = {} THEN i ELSE IdleCall
    BY <1>1, <2>1 DEF AfterList
  <2>3. found = {} => HeldBy(s) = {}
    BY <1>3, <2>1
  <2>4. i.op = k.op /\ i.srv = s /\ i.pc = "wait"
    BY <1>1 DEF At, CallRec, s
  <2> HIDE DEF found, i
  <2> QED
    BY <2>1, <2>2, <2>3, <2>4 DEF Good
<1>10. CASE WaitActive(c)
  <2> DEFINE j == [k EXCEPT !.pc = "port", !.left = PortAttempts]
  <2>1. fip' = fip /\ k.pc = "wait" /\ call'[c] \in {j, Failed(k)}
    BY <1>2, <1>10 DEF WaitActive, k
  <2>2. j.op = k.op /\ j.srv = s /\ j.pc = "port"
    BY <1>1 DEF CallRec, s
  <2> HIDE DEF j
  <2> QED
    BY <1>3, <1>5, <2>1, <2>2 DEF Good
<1>11. CASE PickPort(c)
  <2> DEFINE pc == IF k.fips = {} THEN "create" ELSE "ports"
             j(p) == [k EXCEPT !.pc = pc, !.port = p, !.fips = {}]
  <2>1. fip' = fip /\ k.pc = "port" /\ (call'[c] = Failed(k) \/ \E p : call'[c] = j(p))
    BY <1>2, <1>11 DEF PickPort, k
  <2>2. \A p : j(p).op = k.op /\ j(p).srv = s /\ j(p).pc \in {"create", "ports"}
    BY <1>1 DEF CallRec, s
  <2> HIDE DEF j
  <2> QED
    BY <1>3, <1>5, <2>1, <2>2 DEF Good, Opening
<1>12. CASE CreateFip(c)
  <2>1. k.pc = "create" /\ call'[c] \in {AfterCreate(k), Failed(k)}
    BY <1>2, <1>12 DEF CreateFip, k
  <2>2. AfterCreate(k) = IdleCall
    BY <1>1 DEF AfterCreate
  <2> QED
    BY <1>4, <1>5, <2>1, <2>2
<1>13. CASE CreateRefused(c) \/ ApiError(c)
  <2>1. fip' = fip /\ call'[c] = Failed(k)
    BY <1>2, <1>13 DEF CreateRefused, ApiError, Refused, k
  <2> QED
    BY <1>5, <2>1
<1> QED
  BY <1>3, <1>7, <1>8, <1>9, <1>10, <1>11, <1>12, <1>13
     DEF Request, AttachInterface, FindFip, DetachFip, DetachMissing, DropFip, DropMissing,
         ProbePool, ProbeRefused, NovaDelete, k

-----------------------------------------------------------------------------
(* What the others can do to it.                                           *)

\* Server s holds the address a after the step.
HoldsNext(a, s) == fip'[a] # None /\ fip'[a].port \in Ports /\ owner'[fip'[a].port] = s

\* A server gets an address only from a call that allocates one for a port of it.
LEMMA HeldGrows == ASSUME IInv, IInv', [Next]_vars, NEW s, NEW a \in Addrs, HoldsNext(a, s)
                   PROVE  \/ a \in HeldBy(s) /\ fip'[a] = fip[a]
                          \/ \E c \in Calls : /\ CreateFip(c)
                                              /\ call[c].port # None /\ owner[call[c].port] = s
<1>1. /\ fip \in [Addrs -> FloatingIP \cup {None}] /\ owner \in [Ports -> Servers \cup {None}]
      /\ AttachedInv
  BY DEF IInv, TypeOK
<1>2. fip'[a] # None /\ fip'[a].port \in Ports /\ owner'[fip'[a].port] = s
  BY DEF HoldsNext
<1>3. s # None
  BY <1>2, NoneAssumption DEF IInv, AttachedInv
<1>4. CASE fip'[a] = fip[a]
  <2>1. fip[a].port \notin FreshPorts
    BY <1>1, <1>2, <1>4, NoneAssumption DEF FreshPorts, AttachedInv
  <2>2. owner[fip[a].port] = s
    BY <1>1, <1>2, <1>3, <1>4, <2>1, OwnerCases
  <2> QED
    BY <1>2, <1>4, <2>2 DEF HeldBy, AddrsOn, PortsOf
<1>5. ASSUME NEW c \in Calls, CreateFip(c), fip'[a].port = call[c].port
      PROVE  call[c].port # None /\ owner[call[c].port] = s
  BY <1>2, <1>5, NoneAssumption DEF CreateFip
<1>6. fip'[a].port # None /\ fip'[a] # None
  BY <1>2, NoneAssumption
<1> QED
  BY <1>4, <1>5, <1>6, AddrCases

\* While an ensure runs undisturbed its server gets no address.
LEMMA HeldApart == ASSUME IInv, IInv', ApartInv, [Next]_vars,
                          NEW c \in Calls, call[c].op \in Ensures, call'[c].op \in Ensures,
                          NEW a \in Addrs, HoldsNext(a, call[c].srv)
                   PROVE  a \in HeldBy(call[c].srv) /\ fip'[a] = fip[a]
<1> DEFINE s == call[c].srv
<1>1. /\ TypeOK /\ Ensures \subseteq Ops /\ "AddExtraIPv4" \notin Ensures /\ "DeleteServer" \notin Ensures
      /\ call \in [Calls -> CallRec]
  BY DEF IInv, TypeOK, Ensures, Ops
<1>2. ~CreateFip(c)
  <2>1. SUFFICES ASSUME CreateFip(c)
                 PROVE  FALSE
    OBVIOUS
  <2>2. call[c].pc = "create" /\ call'[c] \in {AfterCreate(call[c]), Failed(call[c])}
    BY <1>1, <2>1 DEF CreateFip, Answer, SetCall
  <2>3. call'[c] = IdleCall
    BY <1>1, <2>2 DEF AfterCreate, Failed
  <2> QED
    BY <1>1, <2>3, NoneAssumption DEF IdleCall
<1>3. ASSUME NEW d \in Calls, CreateFip(d), call[d].port # None, owner[call[d].port] = s
      PROVE  FALSE
  <2>1. owner[call[d].port] # None /\ PortInv(call[d])
    BY <1>3 DEF CreateFip, CanCarry, ApartInv
  <2>2. call[d].srv = s
    BY <1>3, <2>1 DEF PortInv
  <2> QED
    BY <1>2, <1>3, <2>2 DEF ApartInv, Apart
<1> QED
  BY <1>3, HeldGrows

LEMMA EnsureIsNext ==
    ASSUME NEW c \in Calls
    PROVE  LET j == call'[c]
           IN  /\ j.op \in Ensures => j.pc \in Opening \cup {"fips", "wait", "port", "create"}
               /\ j.op \in Ensures /\ j.pc = "fips" =>
                     \A a \in Addrs : HoldsNext(a, j.srv) => fip'[a].port \in j.ports
               /\ j.op \in Ensures /\ j.pc \in {"wait", "port", "create"} =>
                     \A a \in Addrs : ~HoldsNext(a, j.srv)
               => EnsureInv(call[c])'
  BY DEF EnsureInv, Opening, HoldsNext, HeldBy, AddrsOn, PortsOf

\* What an ensure has seen is still true after every step.
LEMMA EnsureNext == ASSUME IInv, IInv', ApartInv, [Next]_vars, NEW c \in Calls
                    PROVE  EnsureInv(call[c])'
<1> DEFINE k == call[c]
           j == call'[c]
           s == call[c].srv
<1>1. TypeOK /\ EnsureInv(k)
  BY DEF IInv, ApartInv
<1> SUFFICES ASSUME j.op \in Ensures
             PROVE  /\ j.pc \in Opening \cup {"fips", "wait", "port", "create"}
                    /\ j.pc = "fips" =>
                          \A a \in Addrs : HoldsNext(a, j.srv) => fip'[a].port \in j.ports
                    /\ j.pc \in {"wait", "port", "create"} => \A a \in Addrs : ~HoldsNext(a, j.srv)
  BY EnsureIsNext
<1>2. ASSUME k.op \in Ensures, NEW a \in Addrs, HoldsNext(a, s)
      PROVE  a \in HeldBy(s) /\ fip'[a] = fip[a]
  BY <1>2, HeldApart
<1>3. ASSUME k.op \in Ensures, NEW P, HeldBy(s) \subseteq AddrsOn(P), NEW a \in Addrs, HoldsNext(a, s)
      PROVE  fip'[a].port \in P
  BY <1>2, <1>3 DEF AddrsOn
<1>4. CASE j = k
  <2>1. /\ k.pc \in Opening \cup {"fips", "wait", "port", "create"} /\ k.op \in Ensures
        /\ k.pc = "fips" => HeldBy(s) \subseteq AddrsOn(k.ports)
        /\ k.pc \in {"wait", "port", "create"} => HeldBy(s) = {}
    BY <1>1, <1>4 DEF EnsureInv, Opening
  <2> QED
    BY <1>2, <1>3, <1>4, <2>1
<1>5. CASE HasFreePrimaryIPv4(c) \/ \E t \in Servers : Begin(c, t)
  <2>1. j.pc \in Opening
    BY <1>1, <1>5, EnsureBegins
  <2> QED
    BY <2>1 DEF Opening
<1>6. CASE Request(c) \/ ApiError(c)
  <2>1. CASE k.op \in Ensures
    <3>1. j # IdleCall
      BY NoneAssumption DEF IdleCall, Ensures, Ops
    <3>2. /\ j.srv = s
          /\ \/ j.pc \in Opening
             \/ j.pc = "fips" /\ HeldBy(s) \subseteq AddrsOn(j.ports)
             \/ j.pc \in {"wait", "port", "create"} /\ HeldBy(s) = {}
      BY <1>1, <1>6, <2>1, <3>1, EnsureActs
    <3> QED
      BY <1>2, <1>3, <2>1, <3>2 DEF Opening
  <2>2. CASE k.op \notin Ensures
    <3>1. None \notin Ensures
      BY NoneAssumption DEF Ensures, Ops
    <3> QED
      BY <1>1, <1>6, <2>2, <3>1, RequestKeeps DEF Keeps
  <2> QED
    BY <2>1, <2>2
<1> QED
  BY <1>1, <1>4, <1>5, <1>6, CallCases

-----------------------------------------------------------------------------
(* The theorems.                                                           *)

LEMMA ApartInit == Init => ApartInv
<1> SUFFICES ASSUME Init
             PROVE  ApartInv
  OBVIOUS
<1>1. \A c \in Calls : call[c] = IdleCall
  BY DEF Init
<1>2. IdleCall.op \notin Ensures /\ IdleCall.port = None
  BY NoneAssumption DEF IdleCall, Ensures, Ops
<1> QED
  BY <1>1, <1>2 DEF ApartInv, Apart, EnsureInv, PortInv

LEMMA ApartNext == IInv /\ ApartInv /\ [Next /\ Apart']_vars => ApartInv'
<1> SUFFICES ASSUME IInv, ApartInv, [Next /\ Apart']_vars
             PROVE  ApartInv'
  OBVIOUS
<1>1. Apart'
  BY DEF ApartInv, vars, Apart
<1>2. IInv'
  BY SafeNext
<1>3. \A c \in Calls : EnsureInv(call[c])'
  BY <1>2, EnsureNext
<1>4. \A c \in Calls : PortInv(call[c])'
  BY PortKept DEF ApartInv
<1> QED
  BY <1>1, <1>3, <1>4 DEF ApartInv

LEMMA ApartIsSpec == ApartSpec => Spec
<1>1. [Next /\ Apart']_vars => [Next]_vars
  OBVIOUS
<1> QED
  BY <1>1, PTL DEF ApartSpec, Spec

\* While an ensure runs and no other call is about its server, the inductive
\* invariant holds: what its check saw is still true when it allocates
\* (floatingip.go:30-54, ip.go:20-60).
THEOREM ApartSafe == ApartSpec => []ApartInv
<1> QED
  BY ApartInit, ApartNext, ApartIsSpec, Safe, PTL DEF ApartSpec

\* So it gives an address only to a server that has none, as its comment
\* promises, whatever fails and however stale the rows the callers work from
\* (floatingip.go:30).
THEOREM ApartEnsures == ApartSpec => EnsureOnlyWhenNone
<1>1. ApartInv => \A c \in Calls : call[c].pc = "create" /\ call[c].op \in Ensures
                                   => HeldBy(call[c].srv) = {}
  BY DEF ApartInv, EnsureInv
<1>2. ApartInv /\ [Next /\ Apart']_vars =>
         [\A c \in Calls : /\ call[c].pc = "create" /\ call'[c] # call[c] /\ fip' # fip
                           /\ call[c].op \in Ensures
                           => HeldBy(call[c].srv) = {}]_vars
  BY <1>1
<1> QED
  BY <1>2, ApartSafe, PTL DEF ApartSpec, EnsureOnlyWhenNone
=============================================================================
