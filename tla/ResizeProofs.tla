---------------------------- MODULE ResizeProofs ----------------------------
(***************************************************************************)
(* Proofs about Resize: the inductive invariant IInv, and what success and *)
(* confirmation mean, for every number of calls, plans, flavors and        *)
(* failures and whatever Nova and its operators do.                        *)
(***************************************************************************)
EXTENDS Resize, TLAPS

\* The initial states satisfy the inductive invariant.
LEMMA InitHolds == Init => IInv
<1> SUFFICES ASSUME Init PROVE IInv
  OBVIOUS
<1>1. TypeOK
  BY FaultAssumption DEF Init, TypeOK, Server, Call
<1>2. PhaseInv /\ FlavorInv /\ WaitInv /\ OpenInv /\ MetInv
  BY DEF Init, PhaseInv, FlavorInv, WaitInv, OpenInv, MetInv, Pending, Waiting, InProgress
<1> QED
  BY <1>1, <1>2 DEF IInv

\* A step that moves one call on and leaves the server alone.
LEMMA GotoKeeps ==
  ASSUME IInv, NEW c \in Calls, NEW pc \in {"ok", "failed", "resize", "confirm", "active", "final"}, Goto(c, pc), UNCHANGED srv,
         faults' \in 0..MaxFaults,
         pc = "resize" => call[c].pc = "get",
         pc \in Waiting => call[c].pc \in Waiting,
         pc \in {"confirm", "final"} => srv.phase # "RESIZE"
  PROVE  IInv'
<1> USE DEF Goto
<1>1. TypeOK'
  BY DEF IInv, TypeOK, Call, InProgress, Waiting
<1>2. \A d \in Calls : /\ d # c => call'[d] = call[d]
                       /\ call'[c].pc = pc
                       /\ call'[d].flavor = call[d].flavor
                       /\ call'[d].met = call[d].met
                       /\ call'[d].own = call[d].own
  BY DEF IInv, TypeOK, Call
<1>3. PhaseInv' /\ FlavorInv'
  BY <1>2 DEF IInv, PhaseInv, FlavorInv, Pending, InProgress, Waiting
<1>4. WaitInv'
  BY <1>2 DEF IInv, WaitInv, Waiting
<1>5. OpenInv'
  BY <1>2 DEF IInv, OpenInv, Waiting, Pending
<1>6. MetInv'
  BY <1>2 DEF IInv, MetInv, InProgress, Waiting
<1> QED
  BY <1>1, <1>3, <1>4, <1>5, <1>6 DEF IInv

\* What the calls see of a change of the server.
LEMMA BecomeFacts ==
  ASSUME NEW s \in Server, NEW cs \in [Calls -> Call], Become(s, cs)
  PROVE  /\ srv' = s /\ call' \in [Calls -> Call]
         /\ \A d \in Calls : /\ call'[d].pc = cs[d].pc
                             /\ call'[d].flavor = cs[d].flavor
                             /\ call'[d].own = cs[d].own
                             /\ call'[d].met <=> cs[d].met \/ s.flavor = cs[d].flavor
BY DEF Become, Call

\* The end of a resize touches the history of the call that asked for it.
LEMMA EndedFacts ==
  ASSUME TypeOK, NEW fate \in {"kept", "undone"}
  PROVE  /\ Ended(fate) \in [Calls -> Call]
         /\ \A d \in Calls : /\ Ended(fate)[d].pc = call[d].pc
                             /\ Ended(fate)[d].flavor = call[d].flavor
                             /\ Ended(fate)[d].met = call[d].met
                             /\ Ended(fate)[d].own = IF d = srv.by THEN fate ELSE call[d].own
BY DEF TypeOK, Ended, Call

\* A server that is left in peace again.
LEMMA SettledFacts ==
  ASSUME NEW s \in Server, NEW f \in Flavors
  PROVE  /\ Settled(s, f) \in Server
         /\ Settled(s, f).phase = "steady" /\ Settled(s, f).by = None
BY DEF Settled, Server

\* A server whose move has failed.
LEMMA ErrorFacts ==
  ASSUME NEW s \in Server, NEW f \in Flavors
  PROVE  /\ [Settled(s, f) EXCEPT !.phase = "ERROR"] \in Server
         /\ [Settled(s, f) EXCEPT !.phase = "ERROR"].phase = "ERROR"
         /\ [Settled(s, f) EXCEPT !.phase = "ERROR"].by = None
BY DEF Settled, Server

\* The end of a resize keeps the invariant: the calls that waited for it have seen
\* the flavor, or it is undone.  The call that confirms it may go on with the step.
LEMMA EndKeeps ==
  ASSUME IInv, Pending, NEW fate \in {"kept", "undone"}, NEW s \in Server,
         s.phase \in {"steady", "ERROR"}, s.by = None,
         NEW cs \in [Calls -> Call],
         \A d \in Calls : /\ cs[d].flavor = call[d].flavor
                          /\ cs[d].met = call[d].met
                          /\ cs[d].own = IF d = srv.by THEN fate ELSE call[d].own
                          /\ \/ cs[d].pc = call[d].pc
                             \/ call[d].pc = "confirm" /\ cs[d].pc \in {"final", "failed"},
         Become(s, cs), faults' \in 0..MaxFaults,
         fate = "kept" => srv.phase = "VERIFY_RESIZE"
  PROVE  IInv'
<1>3. /\ srv' = s /\ call' \in [Calls -> Call]
      /\ \A d \in Calls : /\ call'[d].flavor = call[d].flavor
                          /\ call'[d].own = IF d = srv.by THEN fate ELSE call[d].own
                          /\ call'[d].met <=> call[d].met \/ s.flavor = call[d].flavor
                          /\ \/ call'[d].pc = call[d].pc
                             \/ call[d].pc = "confirm" /\ call'[d].pc \in {"final", "failed"}
  BY BecomeFacts
<1>4. TypeOK'
  BY <1>3 DEF TypeOK
<1>5. PhaseInv' /\ FlavorInv'
  BY <1>3 DEF IInv, PhaseInv, FlavorInv, Pending, InProgress, Waiting
<1>6. WaitInv'
  <2> SUFFICES ASSUME NEW d \in Calls, call[d].pc \in Waiting
               PROVE  call'[d].met \/ call'[d].own = "undone"
    BY <1>3 DEF WaitInv, Waiting
  <2>1. call[d].own = "undone" => d # srv.by
    BY DEF IInv, OpenInv
  <2>2. srv.phase = "RESIZE" /\ srv.by = d => call'[d].own = "undone"
    BY <1>3
  <2> QED
    BY <1>3, <2>1, <2>2 DEF IInv, WaitInv
<1>7. OpenInv'
  BY <1>3, FlavorAssumption DEF IInv, OpenInv, Waiting
<1>8. MetInv'
  BY <1>3 DEF IInv, MetInv, InProgress, Waiting
<1> QED
  BY <1>4, <1>5, <1>6, <1>7, <1>8 DEF IInv

\* Nobody's request ends it: Nova or an operator does.
LEMMA FateKeeps ==
  ASSUME IInv, Pending, NEW fate \in {"kept", "undone"}, NEW f \in Flavors, NEW s,
         s = Settled(srv, f) \/ s = [Settled(srv, f) EXCEPT !.phase = "ERROR"],
         Become(s, Ended(fate)), UNCHANGED faults,
         fate = "kept" => srv.phase = "VERIFY_RESIZE"
  PROVE  IInv'
<1> DEFINE cs == Ended(fate)
<1>1. TypeOK /\ srv \in Server /\ faults' \in 0..MaxFaults
  BY DEF IInv, TypeOK
<1>2. s \in Server /\ s.phase \in {"steady", "ERROR"} /\ s.by = None
  <2>1. CASE s = Settled(srv, f)
    BY <1>1, <2>1, SettledFacts
  <2>2. CASE s = [Settled(srv, f) EXCEPT !.phase = "ERROR"]
    BY <1>1, <2>2, ErrorFacts
  <2> QED
    BY <2>1, <2>2
<1>3. cs \in [Calls -> Call]
  BY <1>1, EndedFacts
<1>4. \A d \in Calls : /\ cs[d].flavor = call[d].flavor
                       /\ cs[d].met = call[d].met
                       /\ cs[d].own = IF d = srv.by THEN fate ELSE call[d].own
                       /\ \/ cs[d].pc = call[d].pc
                          \/ call[d].pc = "confirm" /\ cs[d].pc \in {"final", "failed"}
  BY <1>1, EndedFacts
<1>5. Become(s, cs)
  OBVIOUS
<1> HIDE DEF cs
<1> QED
  BY <1>1, <1>2, <1>3, <1>4, <1>5, EndKeeps

\* A call begins: it looks at the server first.
LEMMA BeginKeeps ==
  ASSUME IInv, NEW c \in Calls, NEW p \in Plans, SyncServerPlan(c, p)
  PROVE  IInv'
<1> DEFINE r == [pc |-> IF FlavorFor[p] = None THEN "failed" ELSE "get", flavor |-> FlavorFor[p],
                 met |-> srv.flavor = FlavorFor[p], own |-> "none"]
<1>1. r \in Call
  BY FlavorAssumption DEF Call, InProgress
<1>2. call' = [call EXCEPT ![c] = r] /\ UNCHANGED <<srv, faults>>
  BY DEF SyncServerPlan
<1>3. r.pc \in {"failed", "get"} /\ r.pc \notin Waiting /\ r.flavor = FlavorFor[p]
      /\ (r.pc = "get" => r.flavor # None)
      /\ (r.met <=> srv.flavor = FlavorFor[p])
  BY DEF Waiting
<1> HIDE DEF r
<1>4. TypeOK'
  BY <1>1, <1>2 DEF IInv, TypeOK
<1>5. \A d \in Calls : IF d = c THEN call'[d] = r ELSE call'[d] = call[d]
  BY <1>2 DEF IInv, TypeOK
<1>6. PhaseInv' /\ FlavorInv'
  BY <1>2, <1>3, <1>5 DEF IInv, PhaseInv, FlavorInv, Pending, InProgress
<1>7. WaitInv' /\ OpenInv'
  BY <1>2, <1>3, <1>5 DEF IInv, WaitInv, OpenInv
<1>8. MetInv'
  BY <1>2, <1>3, <1>5 DEF IInv, MetInv
<1> QED
  BY <1>4, <1>6, <1>7, <1>8 DEF IInv

\* Nova accepts a resize: no other one is under way.
LEMMA AcceptedKeeps ==
  ASSUME IInv, NEW c \in Calls, Accepted(c)
  PROVE  IInv'
<1> DEFINE cs(pc) == [call EXCEPT ![c].pc = pc, ![c].own = "open"]
<1>0. TypeOK /\ srv \in Server /\ call[c].flavor \in Flavors \cup {None}
  BY DEF IInv, TypeOK, Call
<1>1. PICK pc \in {"verify", "failed"} : Become(Begin(c), cs(pc)) /\ faults' \in 0..MaxFaults
  BY <1>0, FaultAssumption DEF Accepted, Fault, TypeOK
<1>2. Begin(c) \in Server /\ Begin(c).phase = "RESIZE" /\ Begin(c).target = call[c].flavor
      /\ Begin(c).by = c /\ Begin(c).flavor = srv.flavor
  BY <1>0 DEF Begin, Server
<1>3. /\ cs(pc) \in [Calls -> Call]
      /\ \A d \in Calls : /\ cs(pc)[d].flavor = call[d].flavor
                          /\ cs(pc)[d].met = call[d].met
                          /\ cs(pc)[d].own = IF d = c THEN "open" ELSE call[d].own
                          /\ cs(pc)[d].pc = IF d = c THEN pc ELSE call[d].pc
  BY <1>0 DEF TypeOK, Call, InProgress, Waiting
<1> HIDE DEF cs
<1>4. /\ srv' = Begin(c) /\ call' \in [Calls -> Call]
      /\ \A d \in Calls : /\ call'[d].flavor = call[d].flavor
                          /\ call'[d].met <=> call[d].met \/ srv.flavor = call[d].flavor
                          /\ call'[d].own = IF d = c THEN "open" ELSE call[d].own
                          /\ call'[d].pc = IF d = c THEN pc ELSE call[d].pc
  BY <1>1, <1>2, <1>3, BecomeFacts
<1>5. call[c].pc = "resize" /\ srv.phase = "steady"
  BY DEF Accepted
<1>6. srv.by = None
  BY <1>5 DEF IInv, PhaseInv
<1>7. TypeOK'
  BY <1>1, <1>2, <1>4 DEF TypeOK
<1>8. call[c].flavor # None
  BY <1>5 DEF IInv, FlavorInv, InProgress
<1>9. PhaseInv' /\ FlavorInv'
  BY <1>2, <1>4, <1>5, <1>8 DEF IInv, PhaseInv, Pending, FlavorInv, InProgress, Waiting
<1>10. WaitInv' /\ OpenInv' /\ MetInv'
  BY <1>2, <1>4, <1>5, <1>6, FlavorAssumption DEF IInv, WaitInv, OpenInv, MetInv, Waiting, InProgress
<1> QED
  BY <1>7, <1>9, <1>10 DEF IInv


\* The requests that only look at the server, or fail.
LEMMA LookKeeps ==
  ASSUME IInv, NEW c \in Calls,
         \/ Compare(c) \/ Conflict(c) \/ Refused(c) \/ WaitVerify(c)
         \/ WaitActive(c) \/ WaitFinal(c) \/ ApiError(c)
  PROVE  IInv'
<1> USE DEF Waiting
<1>0. faults \in 0..MaxFaults
  BY DEF IInv, TypeOK
<1>1. faults' \in 0..MaxFaults /\ UNCHANGED srv
  BY <1>0, FaultAssumption DEF Compare, Conflict, Refused, WaitVerify, WaitActive, WaitFinal,
                               ApiError, Fault
<1>2. CASE Compare(c)
  BY <1>1, <1>2, GotoKeeps DEF Compare
<1>3. CASE Conflict(c) \/ Refused(c) \/ WaitActive(c) \/ WaitFinal(c) \/ ApiError(c)
  <2>1. Goto(c, "ok") \/ Goto(c, "failed")
    BY <1>3 DEF Conflict, Refused, WaitActive, WaitFinal, ApiError
  <2> QED
    BY <1>1, <2>1, GotoKeeps
<1>4. CASE WaitVerify(c)
  BY <1>1, <1>4, GotoKeeps DEF WaitVerify
<1> QED
  BY <1>2, <1>3, <1>4

\* The confirmation.
LEMMA ConfirmKeeps ==
  ASSUME IInv, NEW c \in Calls, Confirm(c)
  PROVE  IInv'
<1>0. TypeOK /\ srv \in Server /\ call[c].pc = "confirm" /\ faults \in 0..MaxFaults
  BY DEF IInv, TypeOK, Confirm
<1>1. CASE srv.phase # "VERIFY_RESIZE"
  BY <1>0, <1>1, GotoKeeps DEF Confirm, Waiting
<1>2. CASE srv.phase = "VERIFY_RESIZE"
  <2> DEFINE cs(pc) == [Ended("kept") EXCEPT ![c].pc = pc]
  <2>1. PICK pc \in {"final", "failed"} :
           Become(Settled(srv, srv.flavor), cs(pc)) /\ faults' \in 0..MaxFaults
    BY <1>0, <1>2, FaultAssumption DEF Confirm, Fault
  <2>2. srv.flavor \in Flavors
    BY <1>0 DEF Server
  <2>3. /\ cs(pc) \in [Calls -> Call]
        /\ \A d \in Calls : /\ cs(pc)[d].flavor = call[d].flavor
                            /\ cs(pc)[d].met = call[d].met
                            /\ cs(pc)[d].own = IF d = srv.by THEN "kept" ELSE call[d].own
                            /\ \/ cs(pc)[d].pc = call[d].pc
                               \/ call[d].pc = "confirm" /\ cs(pc)[d].pc \in {"final", "failed"}
    <3>1. /\ Ended("kept") \in [Calls -> Call]
          /\ \A d \in Calls : /\ Ended("kept")[d].pc = call[d].pc
                              /\ Ended("kept")[d].flavor = call[d].flavor
                              /\ Ended("kept")[d].met = call[d].met
                              /\ Ended("kept")[d].own = IF d = srv.by THEN "kept" ELSE call[d].own
      BY <1>0, EndedFacts
    <3> HIDE DEF Call
    <3>2. \A r \in Call : /\ [r EXCEPT !.pc = pc] \in Call
                          /\ [r EXCEPT !.pc = pc].pc = pc
                          /\ [r EXCEPT !.pc = pc].flavor = r.flavor
                          /\ [r EXCEPT !.pc = pc].met = r.met
                          /\ [r EXCEPT !.pc = pc].own = r.own
      BY DEF Call, InProgress, Waiting
    <3>3. \A d \in Calls : cs(pc)[d] = IF d = c THEN [Ended("kept")[c] EXCEPT !.pc = pc]
                                                ELSE Ended("kept")[d]
      BY <3>1
    <3>4. cs(pc) \in [Calls -> Call]
      BY <3>1, <3>2
    <3> QED
      BY <1>0, <3>1, <3>2, <3>3, <3>4
  <2> HIDE DEF cs
  <2> DEFINE s == Settled(srv, srv.flavor)
  <2>4. s \in Server /\ s.phase \in {"steady", "ERROR"} /\ s.by = None
    <3>1. \A f \in Flavors : /\ Settled(srv, f) \in Server
                             /\ Settled(srv, f).phase = "steady" /\ Settled(srv, f).by = None
      BY <1>0, SettledFacts
    <3> QED
      BY <2>2, <3>1
  <2>5. Become(s, cs(pc)) /\ faults' \in 0..MaxFaults /\ Pending
    BY <1>2, <2>1 DEF Pending
  <2> HIDE DEF s
  <2> QED
    BY <1>2, <2>3, <2>4, <2>5, EndKeeps
<1> QED
  BY <1>1, <1>2

\* The move is done: the call that asked for it sees its flavor.
LEMMA MovedKeeps == ASSUME IInv, Moved PROVE IInv'
<1> DEFINE s == [srv EXCEPT !.phase = "VERIFY_RESIZE", !.flavor = srv.target]
<1>0. TypeOK /\ srv \in Server /\ call \in [Calls -> Call]
  BY DEF IInv, TypeOK
<1>1. srv.phase = "RESIZE" /\ srv.target \in Flavors
  BY <1>0 DEF Moved, IInv, PhaseInv, Pending, Server
<1>2. /\ s \in Server /\ s.phase = "VERIFY_RESIZE" /\ s.flavor = srv.target
      /\ s.target = srv.target /\ s.by = srv.by
  BY <1>0, <1>1 DEF Server
<1>3. Become(s, call) /\ UNCHANGED faults
  BY DEF Moved
<1> HIDE DEF s
<1>4. /\ srv' = s /\ call' \in [Calls -> Call]
      /\ \A d \in Calls : /\ call'[d].pc = call[d].pc
                          /\ call'[d].flavor = call[d].flavor
                          /\ call'[d].own = call[d].own
                          /\ call'[d].met <=> call[d].met \/ srv.target = call[d].flavor
  BY <1>0, <1>2, <1>3, BecomeFacts
<1>5. TypeOK'
  BY <1>0, <1>2, <1>3, <1>4 DEF TypeOK
<1>6. PhaseInv' /\ FlavorInv'
  BY <1>1, <1>2, <1>4, FlavorAssumption DEF IInv, PhaseInv, FlavorInv, Pending
<1>7. WaitInv' /\ OpenInv' /\ MetInv'
  BY <1>2, <1>4 DEF IInv, WaitInv, OpenInv, MetInv
<1> QED
  BY <1>5, <1>6, <1>7 DEF IInv

\* Nova and its operators.
LEMMA CloudKeeps == ASSUME IInv, Nova \/ Others PROVE IInv'
<1>0. TypeOK /\ srv \in Server /\ srv.flavor \in Flavors /\ srv.old \in Flavors
      /\ call \in [Calls -> Call] /\ faults \in 0..MaxFaults
  BY DEF IInv, TypeOK, Server
<1>1. CASE Moved
  BY <1>1, MovedKeeps
<1>2. CASE Rejected
  BY <1>0, <1>2, FateKeeps DEF Rejected, Pending
<1>3. CASE MoveFails
  BY <1>0, <1>3, FateKeeps DEF MoveFails, Pending
<1>4. CASE AutoConfirmed
  BY <1>0, <1>4, FateKeeps DEF AutoConfirmed, Pending
<1>5. CASE Reverted
  BY <1>0, <1>5, FateKeeps DEF Reverted, Pending
<1>6. CASE Repaired \/ Switched
  <2>1. PICK s \in Server : /\ Become(s, call) /\ UNCHANGED faults
                            /\ s.phase = "steady" /\ s.flavor = srv.flavor /\ s.by = srv.by
                            /\ srv.phase \in {"steady", "ERROR"}
    <3>1. CASE Repaired
      BY <1>0, <3>1 DEF Repaired, Server
    <3>2. CASE Switched
      BY <1>0, <3>2 DEF Switched, Server
    <3> QED
      BY <1>6, <3>1, <3>2
  <2>2. /\ srv' = s /\ call' \in [Calls -> Call]
        /\ \A d \in Calls : /\ call'[d].pc = call[d].pc
                            /\ call'[d].flavor = call[d].flavor
                            /\ call'[d].own = call[d].own
                            /\ call'[d].met <=> call[d].met \/ srv.flavor = call[d].flavor
    BY <1>0, <2>1, BecomeFacts
  <2>3. TypeOK'
    BY <1>0, <2>1, <2>2 DEF TypeOK
  <2>4. PhaseInv' /\ FlavorInv'
    BY <2>1, <2>2 DEF IInv, PhaseInv, FlavorInv, Pending
  <2>5. WaitInv' /\ OpenInv' /\ MetInv'
    BY <2>1, <2>2 DEF IInv, WaitInv, OpenInv, MetInv
  <2> QED
    BY <2>3, <2>4, <2>5 DEF IInv
<1> QED
  BY <1>1, <1>2, <1>3, <1>4, <1>5, <1>6 DEF Nova, Others

\* Every step keeps the inductive invariant.
LEMMA StepKeeps == IInv /\ [Next]_vars => IInv'
<1> SUFFICES ASSUME IInv, [Next]_vars PROVE IInv'
  OBVIOUS
<1>1. ASSUME NEW c \in Calls, Request(c) PROVE IInv'
  BY <1>1, LookKeeps, AcceptedKeeps, ConfirmKeeps DEF Request
<1>2. ASSUME NEW c \in Calls, NEW p \in Plans, SyncServerPlan(c, p) PROVE IInv'
  BY <1>2, BeginKeeps
<1>3. CASE Nova \/ Others
  BY <1>3, CloudKeeps
<1>4. CASE UNCHANGED vars
  BY <1>4 DEF vars, IInv, TypeOK, PhaseInv, Pending, FlavorInv, WaitInv, OpenInv, MetInv
<1> QED
  BY <1>1, <1>2, <1>3, <1>4 DEF Next

\* The inductive invariant holds: whoever waits has seen the flavor, lost its
\* resize, or waits for the move it asked for.
THEOREM ResizeSafe == Spec => []IInv
<1> QED
  BY InitHolds, StepKeeps, PTL DEF Spec

\* Only its own steps move a call on.
LEMMA OwnSteps ==
  ASSUME IInv, [Next]_vars, NEW c \in Calls, call'[c].pc # call[c].pc
  PROVE  Request(c) \/ \E p \in Plans : SyncServerPlan(c, p)
<1>0. TypeOK /\ call \in [Calls -> Call] /\ srv \in Server
  BY DEF IInv, TypeOK
<1>1. ASSUME NEW d \in Calls, d # c, Request(d) PROVE FALSE
  <2>1. ASSUME NEW pc, Goto(d, pc) PROVE FALSE
    BY <1>0, <1>1, <2>1 DEF Goto
  <2>2. CASE Accepted(d)
    BY <1>0, <1>1, <2>2 DEF Accepted, Become, Call
  <2>3. ASSUME NEW s, NEW pc, Become(s, [Ended("kept") EXCEPT ![d].pc = pc]) PROVE FALSE
    BY <1>0, <1>1, <2>3 DEF Become, Ended, Call
  <2>4. CASE Confirm(d)
    BY <2>1, <2>3, <2>4 DEF Confirm
  <2> QED
    BY <1>1, <2>1, <2>2, <2>4 DEF Request, Compare, Conflict, Refused, WaitVerify, WaitActive,
                                  WaitFinal, ApiError
<1>2. ASSUME NEW d \in Calls, d # c, NEW p \in Plans, SyncServerPlan(d, p) PROVE FALSE
  BY <1>0, <1>2 DEF SyncServerPlan
<1>3. CASE Nova \/ Others
  <2>1. ASSUME NEW s, Become(s, call) PROVE FALSE
    BY <1>0, <2>1 DEF Become, Call
  <2>2. ASSUME NEW s, NEW fate, Become(s, Ended(fate)) PROVE FALSE
    BY <1>0, <2>2 DEF Become, Ended, Call
  <2> QED
    BY <1>3, <2>1, <2>2 DEF Nova, Others, Moved, Rejected, MoveFails, Repaired, AutoConfirmed,
                            Reverted, Switched
<1>4. CASE UNCHANGED vars
  BY <1>4 DEF vars
<1> QED
  BY <1>1, <1>2, <1>3, <1>4 DEF Next

\* A call that reports success has seen to the plan (resize.go:28-50).
THEOREM SuccessFlavor == Spec => SuccessMeansFlavor
<1>1. ASSUME IInv, [Next]_vars, NEW c \in Calls, Succeeds(c)
      PROVE  call'[c].met \/ call[c].own = "undone" \/ (call[c].pc = "resize" /\ Pending)
  <2>0. /\ call[c].pc \in InProgress /\ call'[c].pc = "ok" /\ call'[c].pc # call[c].pc
        /\ call \in [Calls -> Call] /\ srv \in Server
    BY <1>1 DEF Succeeds, IInv, TypeOK, InProgress, Waiting
  <2>1. Request(c)
    BY <1>1, <2>0, OwnSteps DEF SyncServerPlan
  <2>2. ASSUME NEW pc, Goto(c, pc) PROVE call'[c].met = call[c].met /\ pc = "ok"
    BY <2>0, <2>2 DEF Goto, Call
  <2>3. ~Accepted(c)
    <3> DEFINE cs(pc) == [call EXCEPT ![c].pc = pc, ![c].own = "open"]
    <3>1. ASSUME NEW s, NEW pc \in {"verify", "failed"}, Become(s, cs(pc)) PROVE FALSE
      <4>1. cs(pc)[c] = [call[c] EXCEPT !.pc = pc, !.own = "open"]
        BY <2>0
      <4>2. cs(pc)[c].pc = pc /\ cs(pc)[c] \in Call
        BY <2>0, <4>1 DEF Call, InProgress, Waiting
      <4>3. call'[c] = [cs(pc)[c] EXCEPT !.met = @ \/ s.flavor = cs(pc)[c].flavor]
        BY <3>1 DEF Become
      <4> HIDE DEF cs
      <4>4. call'[c].pc = pc
        BY <4>2, <4>3 DEF Call
      <4> QED
        BY <2>0, <4>4
    <3> QED
      BY <3>1 DEF Accepted
  <2>4. ~Confirm(c)
    <3>1. ASSUME NEW s, NEW pc \in {"final", "failed"}, Become(s, [Ended("kept") EXCEPT ![c].pc = pc])
          PROVE  FALSE
      <4> DEFINE cs == [Ended("kept") EXCEPT ![c].pc = pc]
      <4>1. Ended("kept")[c] \in Call
        BY <1>1, EndedFacts DEF IInv
      <4>2. cs[c] = [Ended("kept")[c] EXCEPT !.pc = pc]
        BY DEF Ended
      <4>3. cs[c].pc = pc
        BY <4>1, <4>2 DEF Call
      <4>4. call'[c] = [cs[c] EXCEPT !.met = @ \/ s.flavor = cs[c].flavor]
        BY <3>1 DEF Become
      <4>5. cs[c] \in Call
        BY <4>1, <4>2 DEF Call, InProgress, Waiting
      <4> HIDE DEF cs
      <4>6. call'[c].pc = pc
        BY <4>3, <4>4, <4>5 DEF Call
      <4> QED
        BY <2>0, <4>6
    <3> QED
      BY <2>2, <3>1 DEF Confirm
  <2>5. CASE Compare(c)
    BY <1>1, <2>0, <2>2, <2>5 DEF Compare, IInv, MetInv
  <2>6. CASE Conflict(c)
    BY <2>6 DEF Conflict
  <2>7. CASE WaitActive(c)
    BY <1>1, <2>0, <2>2, <2>7 DEF WaitActive, IInv, WaitInv, Waiting, Status, Server
  <2>8. CASE WaitFinal(c)
    BY <1>1, <2>2, <2>8 DEF WaitFinal, IInv, WaitInv, Waiting
  <2>9. CASE Refused(c) \/ WaitVerify(c) \/ ApiError(c)
    BY <2>2, <2>9 DEF Refused, WaitVerify, ApiError
  <2> QED
    BY <2>1, <2>3, <2>4, <2>5, <2>6, <2>7, <2>8, <2>9 DEF Request
<1>2. IInv /\ [Next]_vars =>
        [\A c \in Calls : Succeeds(c) => \/ call'[c].met
                                         \/ call[c].own = "undone"
                                         \/ call[c].pc = "resize" /\ Pending]_vars
  BY <1>1
<1> QED
  BY <1>2, ResizeSafe, PTL DEF Spec, SuccessMeansFlavor

\* A call confirms the resize of another one only after its own was ended by
\* someone else (resize.go:31-48).
THEOREM ConfirmOwn == Spec => ConfirmsOwn
<1>1. ASSUME IInv, NEW c \in Calls, call[c].pc = "confirm"
      PROVE  srv.by = c \/ call[c].own \in {"kept", "undone"}
  BY <1>1 DEF IInv, OpenInv, Waiting
<1>2. IInv /\ [Next]_vars =>
        [\A c \in Calls : call[c].pc = "confirm" /\ call'[c].pc = "final" =>
            srv.by = c \/ call[c].own \in {"kept", "undone"}]_vars
  BY <1>1
<1> QED
  BY <1>2, ResizeSafe, PTL DEF Spec, ConfirmsOwn
=============================================================================
