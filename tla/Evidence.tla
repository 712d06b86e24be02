------------------------------ MODULE Evidence ------------------------------
(***************************************************************************)
(* The evidence ledger of the relay edge, the notary that signs digests of *)
(* its rows, and the assessor's export.                                    *)
(*                                                                         *)
(* A digest is the chain it is made of.  An inclusion is the one digest it *)
(* is about, if any, and whether the pinned key signed it.                 *)
(***************************************************************************)
EXTENDS UsageLedger

CONSTANT MaxEvidence  \* maxRecords of the evidence ledger

ASSUME EvidenceAssumption == MaxEvidence \in Nat \ {0}

VARIABLES
  evidence,   \* the rows
  submitted,  \* chains at the notary
  included    \* history: the digests the notary signed

evidenceVars == <<evidence, submitted, included>>

EvidenceInit == evidence = <<>> /\ submitted = {} /\ included = {}

\* createExecutionChain, of what a call or an offboarding (by) came to.
ExecutionChain(by, what, tenant, identity, policy, approval, exec, outcome) ==
  [by |-> by, what |-> what, tenant |-> tenant, identity |-> identity, policy |-> policy,
   approval |-> approval, exec |-> exec, outcome |-> outcome]

\* reconcileExecution, on the chains the edge builds: their receipt always names
\* their own decision and tenant.
Reconciled(c) ==
  IF c.tenant = "" \/ c.identity = "" THEN "incomplete"
  ELSE IF c.policy = "malformed" THEN "mismatched" ELSE "settled"

---------------------------------------------------------------------------
(* The notary *)

NoInclusion == [about |-> {}, signed |-> FALSE]

VerifiedM1(inclusion, digest) == inclusion.signed

\* verifyInclusion under the pinned key, and the digest is the one submitted.
Verified(inclusion, digest) == inclusion.signed /\ inclusion.about = {digest}

\* What submit may come back with: an inclusion of this digest, of another one
\* the notary signed before, one that another key signed, or nothing in time.
Replies(digest) ==
  {NoInclusion, [about |-> {digest}, signed |-> FALSE], [about |-> {digest}, signed |-> TRUE]}
  \cup {[about |-> {d}, signed |-> TRUE] : d \in included}

\* rememberNow: the row is written when the notary answers, anchored or not.
Remember(chain, inclusion) ==
  LET row == [chain |-> chain, state |-> Reconciled(chain), anchored |-> Verified(inclusion, chain)]
      old == IF Len(evidence) = MaxEvidence THEN Tail(evidence) ELSE evidence
  IN  /\ evidence' = Append(old, row)
      /\ submitted' = submitted \ {chain}
      /\ included' = IF inclusion = [about |-> {chain}, signed |-> TRUE]
                     THEN included \cup {chain} ELSE included

---------------------------------------------------------------------------
(* exportAssessor *)

Executions(tenant) == {evidence[i] : i \in {j \in DOMAIN evidence : evidence[j].chain.tenant = tenant}}

LiveAnchored(row, live) ==
  row.anchored /\ row.state = "settled" /\ live \notin {"", "malformed"} /\ row.chain.policy = live

Allowed(row) == row.chain.outcome = "ok" /\ row.chain.approval = ""
Denied(row) == row.chain.outcome = "denied"
ApprovalGated(row) ==
  row.chain.outcome = "require_approval" \/ (row.chain.outcome = "ok" /\ row.chain.approval # "")
Revoked(row) == row.chain.outcome = "revoked"
Destroyed(row) == row.chain.outcome = "destroyed"

\* The controls a pack evidences: any anchored execution, a whole onboarding, a
\* whole offboarding.  The others stay residual.
Controls(tenant, live) ==
  LET settled == {row \in Executions(tenant) : LiveAnchored(row, live)}
      has(Kind(_)) == \E row \in settled : Kind(row)
  IN  (IF settled # {} THEN {"anchored"} ELSE {})
      \cup (IF has(Allowed) /\ has(Denied) /\ has(ApprovalGated) THEN {"onboarded"} ELSE {})
      \cup (IF has(Revoked) /\ has(Destroyed) THEN {"offboarded"} ELSE {})
=============================================================================
