---------------------------- MODULE MCRelayEdge ----------------------------
(* Two tenants, a client granted the first and one granted both, and two
   requests over two or three connections. *)
EXTENDS RelayEdge, TLC

CONSTANTS a1, a2, t1, t2, s1, s2, x, c1, c2, d1

MCSites == {s1, s2, x}
MCCatalog == {s1, s2}
MCBinds == {{s1}, {s2}}

Rec(token, sites) == [token |-> token, revoked |-> FALSE, sites |-> sites]

MCFiles == {a1 :> Rec(t1, {s1}) @@ a2 :> Rec(t2, {s2})}

\* A record that also names a site the edge's catalog does not have.
MCPartialBinds == {{s1, x}, {s2}}
MCPartialFiles == {a1 :> Rec(t1, {s1, x}) @@ a2 :> Rec(t2, {s2})}

MCTenantGrants == [c \in Clients |-> IF c = c1 THEN {a1} ELSE {a1, a2}]
MCSiteGrants == [c \in Clients |-> IF c = c1 THEN {s1} ELSE {s1, s2}]
MCPolicyOf == [c \in Clients |-> IF d1 \in Digests THEN d1 ELSE None]

Symmetry == Permutations(Sockets) \cup Permutations(Requests)

============================================================================
