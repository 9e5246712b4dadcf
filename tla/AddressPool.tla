---------------------------- MODULE AddressPool ----------------------------
(***************************************************************************)
(* What the floating-IP half of the OpenStack adapter promises about the   *)
(* public addresses of the pool, without saying how: an address is free,   *)
(* idle (allocated to the project but attached to nothing) or held by one  *)
(* server.  It never passes from a server to another server, and never     *)
(* from a server straight back into the pool: it is detached first and     *)
(* released afterwards, so that nobody can be given an address that still  *)
(* routes to a customer.                                                   *)
(***************************************************************************)
CONSTANTS Addrs, Servers, Free, Idle

VARIABLE holder       \* who has each address

Init == holder = [a \in Addrs |-> Free]

Move(a, from, to) == /\ holder[a] = from
                     /\ holder' = [holder EXCEPT ![a] = to]

\* Neutron gives a free address to the port of a server.
Assign(a, s) == Move(a, Free, s)

\* Neutron allocates an address that is attached to nothing (a pool probe).
Reserve(a) == Move(a, Free, Idle)

\* The address stops routing to its server, and is still allocated.
Detach(a, s) == Move(a, s, Idle)

\* The allocation is deleted: the address is back in the pool.
Release(a) == Move(a, Idle, Free)

Next == \E a \in Addrs : \/ Reserve(a)
                         \/ Release(a)
                         \/ \E s \in Servers : Assign(a, s) \/ Detach(a, s)

Spec == Init /\ [][Next]_holder
=============================================================================
