-------------------------- MODULE MCAgentChannel --------------------------
(* Two tenants over three connections: agents bound to a site each, to both
   sites, to none, or to a site the edge's catalog does not have. *)
EXTENDS AgentChannel, TLC

CONSTANTS a1, a2, t1, t2, s1, s2, x

Symmetry == Permutations(Sockets)

MCSites == {s1, s2, x}
MCCatalog == {s1, s2}
MCBinds == {{s1}, {s2}, {s1, s2}, {}, {x}}

Rec(token, sites) == [token |-> token, revoked |-> FALSE, sites |-> sites]

MCFiles ==
  { a1 :> Rec(t1, {s1}) @@ a2 :> Rec(t2, {s2}),
    a1 :> Rec(t1, {s1, s2}) @@ a2 :> Rec(t2, {}) }

============================================================================
