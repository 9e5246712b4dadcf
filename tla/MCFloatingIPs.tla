--------------------------- MODULE MCFloatingIPs ---------------------------
(* Instances of FloatingIPs for TLC: who calls what, and the symmetries.   *)
EXTENDS FloatingIPs, TLC

CONSTANTS s1, s2, p1, p2, p3, a1, a2, a3, c1, c2

\* The destroy job, or a first or second installation, next to what else frees and
\* gives out addresses: what a call has listed may be released and given to
\* another server before it gets there.
DeleteAndRecycle == c1 :> {"BuildServer", "ReinstallServer", "DeleteServer"}
                 @@ c2 :> {"RemovePrimaryIPv4", "AddPrimaryIPv4", "GetServer"}

\* The sync loop alone on c1, what changes a server's addresses or the pool on c2.
SyncAndChange == c1 :> {"GetServer"}
              @@ c2 :> {"AddPrimaryIPv4", "AddExtraIPv4", "RemovePrimaryIPv4",
                        "HasFreePrimaryIPv4", "DeleteServer"}

\* Two callers, between them of every method.
EveryMethod == c1 :> {"BuildServer", "ReinstallServer", "AddPrimaryIPv4", "DeleteServer"}
            @@ c2 :> {"GetServer", "AddExtraIPv4", "RemovePrimaryIPv4", "DeleteServer",
                      "HasFreePrimaryIPv4"}

\* The sync loop and the order of extra addresses.
SyncAndExtra == c1 :> {"GetServer"} @@ c2 :> {"AddExtraIPv4"}

Symmetry == Permutations(Servers) \cup Permutations(Ports) \cup Permutations(Addrs)
=============================================================================
