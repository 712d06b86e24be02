--------------------------- MODULE RelayContract ---------------------------
(***************************************************************************)
(* What the relay edge promises a northbound caller about one tools call,  *)
(* whatever happens to channels, credentials and approvals meanwhile: it   *)
(* is refused and never executes, or it is sent to one tenant, executes    *)
(* there at most once, and is answered once, with the tenant's response or *)
(* with "unknown".  Only an unknown call may still execute afterwards.     *)
(***************************************************************************)
CONSTANTS Requests, Agents, None

VARIABLES phase, tenant, ran

contractVars == <<phase, tenant, ran>>

Phases == {"received", "refused", "sent", "answered", "unknown"}

ContractInit ==
  /\ phase = [r \in Requests |-> "received"]
  /\ tenant = [r \in Requests |-> None]
  /\ ran = [r \in Requests |-> FALSE]

Refuse(r) ==
  /\ phase[r] = "received"
  /\ phase' = [phase EXCEPT ![r] = "refused"]
  /\ UNCHANGED <<tenant, ran>>

Send(r, a) ==
  /\ phase[r] = "received"
  /\ phase' = [phase EXCEPT ![r] = "sent"]
  /\ tenant' = [tenant EXCEPT ![r] = a]
  /\ UNCHANGED ran

Execute(r) ==
  /\ phase[r] \in {"sent", "unknown"}
  /\ ~ran[r]
  /\ ran' = [ran EXCEPT ![r] = TRUE]
  /\ UNCHANGED <<phase, tenant>>

Answer(r) ==
  /\ phase[r] = "sent" /\ ran[r]
  /\ phase' = [phase EXCEPT ![r] = "answered"]
  /\ UNCHANGED <<tenant, ran>>

\* A timeout gives up one call, a lost channel all of a tenant's.
GiveUp(R) ==
  /\ \A r \in R : phase[r] = "sent"
  /\ phase' = [r \in Requests |-> IF r \in R THEN "unknown" ELSE phase[r]]
  /\ UNCHANGED <<tenant, ran>>

ContractNext ==
  \/ \E r \in Requests : Refuse(r) \/ Execute(r) \/ Answer(r)
  \/ \E r \in Requests, a \in Agents : Send(r, a)
  \/ \E R \in SUBSET Requests : GiveUp(R)

ContractSpec == ContractInit /\ [][ContractNext]_contractVars

============================================================================
