------------------------------- MODULE Resize -------------------------------
(***************************************************************************)
(* The change of a server's plan: SyncServerPlan and resizeByPlan in       *)
(* openstack/resize.go, called by jobs that may run at the same time and   *)
(* are repeated when they fail.  Nova resizes in two phases: the server is *)
(* moved (RESIZE), and then waits with its new flavor to be confirmed or   *)
(* reverted (VERIFY_RESIZE).                                               *)
(*                                                                         *)
(* Servers do not share anything here, so there is one.  Every request is  *)
(* a step; a wait is a step that ends it, because the status was seen or   *)
(* because the 600 s are over.  A move that is merely slow to finish counts*)
(* as a fault; a wait for what will not come ends without one.             *)
(***************************************************************************)
EXTENDS Naturals

CONSTANTS
    Calls,        \* calls of SyncServerPlan that may be in progress at once
    Plans,
    Flavors,
    FlavorFor,    \* the flavor a plan's reference resolves to, or None
    Events,       \* what Nova and its operators do, see below
    MaxFaults,    \* bound: failed requests, lost answers and slow moves
    None          \* a model value

AllEvents == {"reject", "revert", "fail", "autoconfirm", "power"}

ASSUME FlavorAssumption == FlavorFor \in [Plans -> Flavors \cup {None}] /\ None \notin Flavors \cup Calls
ASSUME EventAssumption == Events \subseteq AllEvents
ASSUME FaultAssumption == MaxFaults \in Nat

VARIABLES srv, call, faults

vars == <<srv, call, faults>>

-----------------------------------------------------------------------------
\* flavor is what Nova shows, target the flavor a resize is to reach, old the
\* one it returns to, by the call that asked for it.
Server == [phase : {"steady", "RESIZE", "VERIFY_RESIZE", "ERROR"},
           power : {"ACTIVE", "SHUTOFF"},
           flavor : Flavors, old : Flavors,
           target : Flavors \cup {None}, by : Calls \cup {None}]

Waiting == {"verify", "active", "confirm", "final"}
InProgress == {"get", "resize"} \cup Waiting

\* met and own are history: the server has had the flavor at some moment of the
\* call; what became of the resize the call asked for.
Call == [pc : {"idle", "ok", "failed"} \cup InProgress, flavor : Flavors \cup {None},
         met : BOOLEAN, own : {"none", "open", "kept", "undone"}]

TypeOK == /\ srv \in Server
          /\ call \in [Calls -> Call]
          /\ faults \in 0..MaxFaults

-----------------------------------------------------------------------------
Status(s) == IF s.phase = "steady" THEN s.power ELSE s.phase

Pending == srv.phase \in {"RESIZE", "VERIFY_RESIZE"}

Settled(s, f) == [s EXCEPT !.phase = "steady", !.flavor = f, !.old = f, !.target = None, !.by = None]

\* The server becomes s, which the calls live to see.
Become(s, calls) ==
    /\ srv' = s
    /\ call' = [c \in Calls |-> [calls[c] EXCEPT !.met = @ \/ s.flavor = calls[c].flavor]]

\* The resize under way is over.
Ended(fate) == [c \in Calls |-> IF c = srv.by THEN [call[c] EXCEPT !.own = fate] ELSE call[c]]

Goto(c, pc) == call' = [call EXCEPT ![c].pc = pc]

Fault == faults < MaxFaults /\ faults' = faults + 1

-----------------------------------------------------------------------------
(* resizeByPlan.                                                           *)

\* flavorForPlan, resolveFlavorRef; a plan without a flavor ends the call.
SyncServerPlan(c, p) ==
    /\ call[c].pc \notin InProgress
    /\ call' = [call EXCEPT ![c] = [pc |-> IF FlavorFor[p] = None THEN "failed" ELSE "get",
                                    flavor |-> FlavorFor[p],
                                    met |-> srv.flavor = FlavorFor[p], own |-> "none"]]
    /\ UNCHANGED <<srv, faults>>

\* serverByID, currentFlavorID.
Compare(c) == /\ call[c].pc = "get"
              /\ Goto(c, IF srv.flavor = call[c].flavor THEN "ok" ELSE "resize")
              /\ UNCHANGED <<srv, faults>>

Begin(c) == [srv EXCEPT !.phase = "RESIZE", !.target = call[c].flavor, !.by = c]

\* servers.Resize is accepted, and its answer may be lost.
Accepted(c) ==
    /\ call[c].pc = "resize"
    /\ srv.phase = "steady" /\ srv.flavor # call[c].flavor
    /\ \/ /\ Become(Begin(c), [call EXCEPT ![c].pc = "verify", ![c].own = "open"])
          /\ UNCHANGED faults
       \/ /\ Become(Begin(c), [call EXCEPT ![c].pc = "failed", ![c].own = "open"])
          /\ Fault

\* Mutant of Conflict: go on as if the call had begun the resize.
Conflict_Join(c) ==
    /\ call[c].pc = "resize" /\ Pending
    /\ Goto(c, "verify")
    /\ UNCHANGED <<srv, faults>>

\* Nova answers that a resize is pending: isResizePendingError tells by the
\* wording, which differs between clouds.
Conflict(c) == /\ call[c].pc = "resize" /\ Pending
               /\ \E pc \in {"ok", "failed"} : Goto(c, pc)
               /\ UNCHANGED <<srv, faults>>

\* Nova refuses: the server is in error, or has the flavor by now.
Refused(c) == /\ call[c].pc = "resize"
              /\ srv.phase = "ERROR" \/ (srv.phase = "steady" /\ srv.flavor = call[c].flavor)
              /\ Goto(c, "failed")
              /\ UNCHANGED <<srv, faults>>

\* waitServerStatus VERIFY_RESIZE; an error of any kind leads to the next wait.
WaitVerify(c) ==
    /\ call[c].pc = "verify"
    /\ \/ srv.phase = "VERIFY_RESIZE" /\ Goto(c, "confirm") /\ UNCHANGED faults
       \/ ~Pending /\ Goto(c, "active") /\ UNCHANGED faults
       \/ Goto(c, "active") /\ Fault
    /\ UNCHANGED srv

\* Mutant of WaitActive: the result of the second wait is not looked at.
WaitActive_Ignored(c) ==
    /\ call[c].pc = "active"
    /\ Goto(c, "ok")
    /\ UNCHANGED <<srv, faults>>

\* waitServerStatus ACTIVE.
WaitActive(c) ==
    /\ call[c].pc = "active"
    /\ \/ Status(srv) = "ACTIVE" /\ Goto(c, "ok") /\ UNCHANGED faults
       \/ Status(srv) # "ACTIVE" /\ srv.phase # "RESIZE" /\ Goto(c, "failed") /\ UNCHANGED faults
       \/ Goto(c, "failed") /\ Fault
    /\ UNCHANGED srv

\* Mutant of Confirm: success without the request.
Confirm_Assumed(c) == /\ call[c].pc = "confirm"
                      /\ Goto(c, "final")
                      /\ UNCHANGED <<srv, faults>>

\* servers.ConfirmResize.
Confirm(c) ==
    LET kept(pc) == [Ended("kept") EXCEPT ![c].pc = pc] IN
    /\ call[c].pc = "confirm"
    /\ \/ /\ srv.phase = "VERIFY_RESIZE"
          /\ \/ Become(Settled(srv, srv.flavor), kept("final")) /\ UNCHANGED faults
             \/ Become(Settled(srv, srv.flavor), kept("failed")) /\ Fault
       \/ srv.phase # "VERIFY_RESIZE" /\ Goto(c, "failed") /\ UNCHANGED <<srv, faults>>

\* Mutant of WaitFinal: wait until it is there, for ever.
WaitFinal_ForEver(c) == /\ call[c].pc = "final" /\ Status(srv) = "ACTIVE"
                        /\ Goto(c, "ok")
                        /\ UNCHANGED <<srv, faults>>

\* waitServerActive: a server that was switched off never gets there.
WaitFinal(c) == /\ call[c].pc = "final"
                /\ Goto(c, IF Status(srv) = "ACTIVE" THEN "ok" ELSE "failed")
                /\ UNCHANGED <<srv, faults>>

\* A request fails before it is executed, or cannot be sent.
ApiError(c) == /\ call[c].pc \in {"get", "resize", "confirm"}
               /\ Goto(c, "failed")
               /\ Fault
               /\ UNCHANGED srv

Request(c) == \/ Compare(c) \/ Accepted(c) \/ Conflict(c) \/ Refused(c) \/ WaitVerify(c)
              \/ WaitActive(c) \/ Confirm(c) \/ WaitFinal(c) \/ ApiError(c)

-----------------------------------------------------------------------------
(* Nova, its operators and its users.                                      *)

Moved == /\ srv.phase = "RESIZE"
         /\ Become([srv EXCEPT !.phase = "VERIFY_RESIZE", !.flavor = srv.target], call)
         /\ UNCHANGED faults

\* No host has room: the server is as it was.
Rejected == /\ "reject" \in Events /\ srv.phase = "RESIZE"
            /\ Become(Settled(srv, srv.old), Ended("undone"))
            /\ UNCHANGED faults

MoveFails == /\ "fail" \in Events /\ srv.phase = "RESIZE"
             /\ Become([Settled(srv, srv.old) EXCEPT !.phase = "ERROR"], Ended("undone"))
             /\ UNCHANGED faults

Repaired == /\ srv.phase = "ERROR"
            /\ Become([srv EXCEPT !.phase = "steady"], call)
            /\ UNCHANGED faults

AutoConfirmed == /\ "autoconfirm" \in Events /\ srv.phase = "VERIFY_RESIZE"
                 /\ Become(Settled(srv, srv.flavor), Ended("kept"))
                 /\ UNCHANGED faults

Reverted == /\ "revert" \in Events /\ srv.phase = "VERIFY_RESIZE"
            /\ Become(Settled(srv, srv.old), Ended("undone"))
            /\ UNCHANGED faults

Switched == /\ "power" \in Events /\ srv.phase = "steady"
            /\ \E p \in {"ACTIVE", "SHUTOFF"} \ {srv.power} : Become([srv EXCEPT !.power = p], call)
            /\ UNCHANGED faults

Nova == Moved \/ Rejected \/ MoveFails
Others == Repaired \/ AutoConfirmed \/ Reverted \/ Switched

-----------------------------------------------------------------------------
Init == /\ \E f \in Flavors, p \in {"ACTIVE", "SHUTOFF"} :
              srv = [phase |-> "steady", power |-> p, flavor |-> f, old |-> f,
                     target |-> None, by |-> None]
        /\ call = [c \in Calls |-> [pc |-> "idle", flavor |-> None, met |-> FALSE, own |-> "none"]]
        /\ faults = 0

Next == \/ \E c \in Calls : Request(c) \/ \E p \in Plans : SyncServerPlan(c, p)
        \/ Nova \/ Others

Spec == Init /\ [][Next]_vars

Answered(c) == faults' = faults /\ Request(c)

\* Requests are answered, and Nova ends a move some way.  A wait ends after 600 s
\* however often the status has changed meanwhile: strong fairness.  No failure
\* is ever due.
FairSpec == /\ Spec /\ WF_vars(Nova)
            /\ \A c \in Calls : /\ WF_vars(Answered(c))
                                /\ SF_vars(Answered(c) /\ call[c].pc \in {"verify", "active"})

-----------------------------------------------------------------------------
Succeeds(c) == call[c].pc \in InProgress /\ call'[c].pc = "ok"

\* A call that reports success has seen to the plan, whatever other calls,
\* time-outs and operators did between its requests: the server had the flavor at
\* some moment of the call, or its resize was undone behind its back, or Nova had
\* answered that a resize was under way (resize.go:28-50).
SuccessMeansFlavor ==
    [][\A c \in Calls : Succeeds(c) =>
          \/ call'[c].met
          \/ call[c].own = "undone"
          \/ call[c].pc = "resize" /\ Pending]_vars

\* A call confirms the resize of another one only after its own was ended by
\* someone else: a conflict never leads to confirming a move that nobody has
\* looked at (resize.go:31-48).
ConfirmsOwn ==
    [][\A c \in Calls : call[c].pc = "confirm" /\ call'[c].pc = "final" =>
          srv.by = c \/ call[c].own \in {"kept", "undone"}]_vars

\* Each call returns, whatever happens to the server meanwhile (resize.go:39-49).
CallsReturn == \A c \in Calls : call[c].pc \in InProgress ~> call[c].pc \notin InProgress

\* Unless a request failed or a move was slow, no server is left waiting for a
\* confirmation, also when calls meet (resize.go:33, 46): the retry after a
\* failure is the one that leaves it so, for it finds the flavor already there.
ResizesAreEnded ==
    srv.phase = "VERIFY_RESIZE" /\ faults = 0 ~> srv.phase # "VERIFY_RESIZE" \/ faults > 0

-----------------------------------------------------------------------------
(* The inductive invariant.                                                *)

\* Whoever waits has seen the flavor, lost the resize, or waits for the move.
WaitInv == \A c \in Calls : call[c].pc \in Waiting =>
              \/ call[c].met
              \/ call[c].own = "undone"
              \/ /\ srv.phase = "RESIZE" /\ srv.by = c /\ srv.target = call[c].flavor
                 /\ call[c].pc \in {"verify", "active"}

\* The resize of a call that waits is the one under way or was ended.
OpenInv == \A c \in Calls : call[c].pc \in Waiting =>
              IF srv.by = c THEN call[c].own = "open" ELSE call[c].own \in {"kept", "undone"}

\* The flavors of the phases.
PhaseInv == /\ Pending => srv.target # None
            /\ srv.phase = "VERIFY_RESIZE" => srv.flavor = srv.target
            /\ srv.phase \in {"steady", "ERROR"} => srv.by = None

\* What is met is met: a call that begins looks at the server first.
MetInv == \A c \in Calls : call[c].pc \in InProgress /\ srv.flavor = call[c].flavor => call[c].met

\* A plan without a flavor gets no call under way.
FlavorInv == \A c \in Calls : call[c].pc \in InProgress => call[c].flavor # None

IInv == TypeOK /\ PhaseInv /\ FlavorInv /\ WaitInv /\ OpenInv /\ MetInv
=============================================================================
