------------------------ MODULE EdgeAccountingProofs ------------------------
(***************************************************************************)
(* What an assessor's pack says is so, what a tenant's reconciliation says *)
(* is so, and whoever is locked has earned it, for any number of tenants,  *)
(* calls and offboardings.                                                 *)
(*                                                                         *)
(* A chain is submitted in the same step as the call or the offboarding    *)
(* comes to what it tells, and neither changes after that; so a row that   *)
(* the notary lets the edge write much later still tells the truth.        *)
(*                                                                         *)
(* A usage row is recorded in the step that it tells of, and once.  Rows   *)
(* are dropped from the front, where a decision is before the answers to   *)
(* its call: so a chain cannot lose a stray answer and look settled.       *)
(*                                                                         *)
(* The bounded table of denials is in the order of their first denials, so *)
(* whoever is pushed out for room saw as many others denied since.  Until  *)
(* then table and book hold, from now on, the same denials of everyone.    *)
(***************************************************************************)
EXTENDS EdgeAccounting, SequenceTheorems, FiniteSetTheorems, TLAPS

CallFields == {"ask", "pc", "tenant", "policy", "gen", "status", "out", "why"}
OffFields == {"ask", "pc", "tenant", "result"}

\* A call that is over stays as it is.
Over(q) == q.pc \in {"refused", "done"}

\* What a chain tells of a call or an offboarding is what came of it.
ChainHolds(ch) ==
  /\ ch.outcome = "ok" =>
       \E r \in Requests : /\ req[r].tenant = ch.tenant /\ req[r].policy = ch.policy
                           /\ req[r].pc = "done" /\ req[r].out = "ok"
                           /\ req[r].ask.ticket = ch.approval
  /\ ch.outcome = "denied" =>
       \E r \in Requests : /\ req[r].tenant = ch.tenant /\ req[r].policy = ch.policy
                           /\ req[r].pc = "refused" /\ req[r].why # "require_approval"
  /\ ch.outcome = "require_approval" =>
       \E r \in Requests : /\ req[r].tenant = ch.tenant /\ req[r].policy = ch.policy
                           /\ req[r].pc = "refused" /\ req[r].why = "require_approval"
  /\ ch.outcome \in {"revoked", "destroyed"} => ch.tenant \in torn

\* A sequence, of whatever it holds.
IsSeq(t) == t \in Seq({t[i] : i \in 1..Len(t)})

RowHolds(row) == ChainHolds(row.chain) /\ (row.anchored => row.chain \in included)
LedgerHolds ==
  /\ IsSeq(evidence)
  /\ \A i \in 1..Len(evidence) : RowHolds(evidence[i])

\* A client has the grants it was given until it is entombed, and then none.
GrantHolds(c) == grants[c] = IF c \in tombs THEN {} ELSE Grants[c]

\* An offboarding that is past its teardown is of a client whose tenant it tore
\* down; one that is past its end has entombed the client, or found it entombed.
OffHolds(q) ==
  /\ DOMAIN q = OffFields /\ q.ask \in Clients \cup {""}
  /\ q.pc = "new" => q.tenant = ""
  /\ q.pc \in {"revoking", "destroying"} => q.tenant # ""
  /\ q.tenant # "" => q.ask \in Clients /\ q.tenant \in Grants[q.ask] /\ q.tenant \in torn
  /\ q.pc = "done" /\ q.tenant # "" => q.ask \in tombs

ExportInv ==
  /\ DOMAIN req = Requests /\ \A r \in Requests : DOMAIN req[r] = CallFields
  /\ DOMAIN off = Offboards /\ \A o \in Offboards : OffHolds(off[o])
  /\ DOMAIN grants = Clients /\ \A c \in Clients : GrantHolds(c)
  /\ LedgerHolds /\ \A ch \in submitted : ChainHolds(ch)

---------------------------------------------------------------------------
(* Steps that change calls *)

\* Calls change, and those that are over do not.
CallsGoOn ==
  /\ DOMAIN req' = Requests
  /\ \A r \in Requests : DOMAIN req'[r] = CallFields /\ (Over(req[r]) => req'[r] = req[r])

\* What a chain tells stays true while calls go on and tenants stay torn down.
LEMMA TruthStays ==
  ASSUME CallsGoOn, torn \subseteq torn', NEW ch, ChainHolds(ch)
  PROVE  ChainHolds(ch)'
<1>1. \A r \in Requests : req[r].pc \in {"refused", "done"} => req'[r] = req[r]
  BY DEF CallsGoOn, Over
<1>2. ASSUME NEW r \in Requests, req[r].pc \in {"refused", "done"} PROVE req'[r] = req[r]
  BY <1>1, <1>2
<1>3. ch.outcome = "ok" =>
        \E r \in Requests : /\ req'[r].tenant = ch.tenant /\ req'[r].policy = ch.policy
                            /\ req'[r].pc = "done" /\ req'[r].out = "ok"
                            /\ req'[r].ask.ticket = ch.approval
  BY <1>1 DEF ChainHolds
<1>4. ch.outcome = "denied" =>
        \E r \in Requests : /\ req'[r].tenant = ch.tenant /\ req'[r].policy = ch.policy
                            /\ req'[r].pc = "refused" /\ req'[r].why # "require_approval"
  BY <1>1 DEF ChainHolds
<1>5. ch.outcome = "require_approval" =>
        \E r \in Requests : /\ req'[r].tenant = ch.tenant /\ req'[r].policy = ch.policy
                            /\ req'[r].pc = "refused" /\ req'[r].why = "require_approval"
  BY <1>1 DEF ChainHolds
<1>6. ch.outcome \in {"revoked", "destroyed"} => ch.tenant \in torn'
  BY DEF ChainHolds
<1> QED BY <1>3, <1>4, <1>5, <1>6 DEF ChainHolds

\* One call goes on.
LEMMA OneGoesOn ==
  ASSUME ExportInv, NEW r \in Requests, ~Over(req[r]), NEW q, DOMAIN q = CallFields,
         req' = [req EXCEPT ![r] = q]
  PROVE  CallsGoOn /\ req'[r] = q
BY DEF ExportInv, CallsGoOn

\* Calls that are rejected go on.
LEMMA RejectedGoOn ==
  ASSUME ExportInv, NEW R, \A r \in R : req[r].pc = "sent", Reject(R)
  PROVE  CallsGoOn
BY DEF ExportInv, CallsGoOn, Reject, Over, CallFields

\* Rows that are not written, under calls that go on.
LEMMA LedgerStays ==
  ASSUME LedgerHolds, CallsGoOn, torn \subseteq torn', UNCHANGED <<evidence, included>>
  PROVE  LedgerHolds'
<1>1. \A i \in 1..Len(evidence) : RowHolds(evidence[i])
  BY DEF LedgerHolds
<1>2. ASSUME NEW i \in 1..Len(evidence) PROVE RowHolds(evidence[i])'
  <2>1. ChainHolds(evidence[i].chain) /\ (evidence[i].anchored => evidence[i].chain \in included)
    BY <1>1 DEF RowHolds
  <2>2. ASSUME NEW ch, ChainHolds(ch) PROVE ChainHolds(ch)'
    BY <2>2, TruthStays
  <2>3. ChainHolds(evidence[i].chain)'
    <3> DEFINE ch == evidence[i].chain
    <3>1. ch' = ch
      OBVIOUS
    <3> QED BY <2>1, <2>2, <3>1 DEF ChainHolds
  <2> QED BY <2>1, <2>3 DEF RowHolds
<1> QED BY <1>2 DEF LedgerHolds

\* Calls go on, and at most true chains are submitted.
LEMMA CallsKeep ==
  ASSUME ExportInv, CallsGoOn, UNCHANGED <<off, grants, tombs, torn, evidence, included>>,
         \A ch \in submitted' : ch \in submitted \/ ChainHolds(ch)'
  PROVE  ExportInv'
<1>1. LedgerHolds /\ \A ch \in submitted : ChainHolds(ch)
  BY DEF ExportInv
<1>2. LedgerHolds'
  BY <1>1, LedgerStays
<1>3. \A ch \in submitted : ChainHolds(ch)'
  <2>1. ASSUME NEW ch \in submitted PROVE ChainHolds(ch)'
    BY <1>1, <2>1, TruthStays
  <2> QED BY <2>1
<1>4. \A ch \in submitted' : ChainHolds(ch)'
  BY <1>3
<1>5. /\ DOMAIN off' = Offboards /\ (\A o \in Offboards : OffHolds(off[o])')
      /\ DOMAIN grants' = Clients /\ (\A c \in Clients : GrantHolds(c)')
  BY DEF ExportInv, OffHolds, GrantHolds
<1>6. DOMAIN req' = Requests /\ \A r \in Requests : DOMAIN req'[r] = CallFields
  BY DEF CallsGoOn
<1> QED BY <1>2, <1>4, <1>5, <1>6 DEF ExportInv

---------------------------------------------------------------------------
(* Calls *)

\* One call goes on, and a true chain of it is submitted, if any.
LEMMA SubmitKeeps ==
  ASSUME ExportInv, CallsGoOn, UNCHANGED <<off, grants, tombs, torn>>,
         NEW chain, Submit(chain), ChainHolds(chain)'
  PROVE  ExportInv'
<1>1. UNCHANGED <<evidence, included>> /\ \A ch \in submitted' : ch \in submitted \/ ch = chain
  BY DEF Submit
<1>2. ASSUME NEW ch \in submitted' PROVE ch \in submitted \/ ChainHolds(ch)'
  BY <1>1
<1> QED BY <1>1, <1>2, CallsKeep

\* A chain of a call that was refused is true, whatever else it says.
LEMMA RefusedChain ==
  ASSUME NEW r \in Requests, NEW ch, ch.outcome = "denied",
         req'[r].tenant = ch.tenant, req'[r].policy = ch.policy,
         req'[r].pc = "refused", req'[r].why # "require_approval"
  PROVE  ChainHolds(ch)'
BY DEF ChainHolds

\* refuse: the call is over when its chain is submitted.
LEMMA RefuseKeeps ==
  ASSUME ExportInv, NEW r \in Requests, ~Over(req[r]), NEW error, error # "require_approval",
         NEW scope, NEW tenant, NEW policy, NEW ds, Refuse(r, error, scope, tenant, policy, ds),
         UNCHANGED <<off, grants, tombs, torn>>
  PROVE  ExportInv'
<1> DEFINE q == [req[r] EXCEPT !.pc = "refused", !.tenant = tenant, !.policy = policy, !.why = error]
           ch == [CallChain(r, "refused", tenant, policy, "denied") EXCEPT !.approval = ""]
<1>1. DOMAIN req = Requests /\ DOMAIN req[r] = CallFields
  BY DEF ExportInv
<1>2. req' = [req EXCEPT ![r] = q] /\ Submit(ch)
  BY <1>1 DEF Refuse
<1>3. /\ DOMAIN q = CallFields /\ q.pc = "refused" /\ q.tenant = tenant /\ q.policy = policy
      /\ q.why = error
  BY <1>1 DEF CallFields
<1>4. ch.outcome = "denied" /\ ch.tenant = tenant /\ ch.policy = policy
  BY DEF CallChain, ExecutionChain
<1> HIDE DEF q
<1>5. CallsGoOn /\ req'[r] = q
  BY <1>2, <1>3, OneGoesOn
<1>6. ASSUME NEW c, c = ch PROVE ChainHolds(c)'
  BY <1>3, <1>4, <1>5, <1>6, RefusedChain
<1>7. PICK c : c = ch
  OBVIOUS
<1>8. Submit(c) /\ ChainHolds(c)'
  BY <1>2, <1>6, <1>7
<1> QED BY <1>5, <1>8, SubmitKeeps

\* A challenge is a refusal of its own kind.
LEMMA ChallengeKeeps ==
  ASSUME ExportInv, NEW r \in Requests, ~Over(req[r]), NEW q, DOMAIN q = CallFields, NEW ds,
         Challenge(r, q, ds), UNCHANGED <<off, grants, tombs, torn>>
  PROVE  ExportInv'
<1> DEFINE p == [q EXCEPT !.pc = "refused", !.why = "require_approval"]
           ch == [CallChain(r, "challenged", q.tenant, q.policy, "require_approval") EXCEPT !.approval = r]
<1>1. req' = [req EXCEPT ![r] = p] /\ Submit(ch)
  BY DEF Challenge
<1>2. /\ DOMAIN p = CallFields /\ p.pc = "refused" /\ p.tenant = q.tenant /\ p.policy = q.policy
      /\ p.why = "require_approval"
  BY DEF CallFields
<1>3. ch.outcome = "require_approval" /\ ch.tenant = q.tenant /\ ch.policy = q.policy
  BY DEF CallChain, ExecutionChain
<1> HIDE DEF p
<1>4. CallsGoOn /\ req'[r] = p
  BY <1>1, <1>2, OneGoesOn
<1>5. ASSUME NEW c, c = ch PROVE ChainHolds(c)'
  BY <1>2, <1>3, <1>4, <1>5 DEF ChainHolds
<1>6. PICK c : c = ch
  OBVIOUS
<1>7. Submit(c) /\ ChainHolds(c)'
  BY <1>1, <1>5, <1>6
<1> QED BY <1>4, <1>7, SubmitKeeps

\* A frame that crosses ends nothing.
LEMMA CrossesKeeps ==
  ASSUME ExportInv, NEW r \in Requests, ~Over(req[r]), NEW q, DOMAIN q = CallFields, NEW ds,
         Crosses(r, q, ds), UNCHANGED <<off, grants, tombs, torn>>
  PROVE  ExportInv'
<1> DEFINE p == [q EXCEPT !.pc = "sent"]
<1>1. req' = [req EXCEPT ![r] = p] /\ UNCHANGED <<evidence, submitted, included>>
  BY DEF Crosses, evidenceVars
<1>2. DOMAIN p = CallFields
  BY DEF CallFields
<1> HIDE DEF p
<1>3. CallsGoOn
  BY <1>1, <1>2, OneGoesOn
<1> QED BY <1>1, <1>3, CallsKeep

\* Approval, tracking and the frame.
LEMMA DispatchKeeps ==
  ASSUME ExportInv, NEW r \in Requests, ~Over(req[r]), NEW q, DOMAIN q = CallFields, NEW ds,
         Dispatch(r, q, ds), UNCHANGED <<off, grants, tombs, torn>>
  PROVE  ExportInv'
<1>1. \/ Challenge(r, q, ds) \/ Crosses(r, q, ds)
      \/ Refuse(r, "not_entitled", "", q.tenant, q.policy, ds)
      \/ Refuse(r, "no_agent", "", q.tenant, q.policy, ds)
  BY DEF Dispatch
<1> QED BY <1>1, ChallengeKeeps, CrossesKeeps, RefuseKeeps

\* The gate never asks for an approval.
LEMMA GateReasons ==
  ASSUME NEW t, NEW k
  PROVE  Verdict(t, k).reason # "require_approval"
BY DEF Verdict

\* The call of a tenant that is resolved.
LEMMA AdmittedKeeps ==
  ASSUME ExportInv, NEW r \in Requests, ~Over(req[r]), NEW t, Admitted(r, t),
         UNCHANGED <<off, grants, tombs, torn>>
  PROVE  ExportInv'
<1> DEFINE v == Verdict(t, Key(r))
           ds == AfterCheck(Key(r))
           q == [req[r] EXCEPT !.tenant = t, !.policy = PolicyOf[Client(r)], !.gen = agents[t].gen]
<1>1. DOMAIN req[r] = CallFields
  BY DEF ExportInv
<1>2. DOMAIN q = CallFields
  BY <1>1
<1>3. v.reason # "require_approval"
  BY GateReasons
<1>4. \/ Refuse(r, v.reason, v.scope, t, q.policy, ds)
      \/ Refuse(r, "no_agent", "", t, q.policy, ds)
      \/ /\ req' = [req EXCEPT ![r] = [q EXCEPT !.pc = "checking"]]
         /\ UNCHANGED evidenceVars
      \/ Dispatch(r, q, ds)
  BY DEF Admitted
<1> HIDE DEF q, v, ds
<1>5. CASE /\ req' = [req EXCEPT ![r] = [q EXCEPT !.pc = "checking"]]
           /\ UNCHANGED evidenceVars
  <2> DEFINE p == [q EXCEPT !.pc = "checking"]
  <2>1. DOMAIN p = CallFields /\ req' = [req EXCEPT ![r] = p]
    BY <1>2, <1>5 DEF CallFields
  <2> HIDE DEF p
  <2>2. CallsGoOn
    BY <2>1, OneGoesOn
  <2> QED BY <1>5, <2>2, CallsKeep DEF evidenceVars
<1>6. CASE Refuse(r, v.reason, v.scope, t, q.policy, ds)
  BY <1>3, <1>6, RefuseKeeps
<1>7. CASE Refuse(r, "no_agent", "", t, q.policy, ds)
  BY <1>7, RefuseKeeps
<1>8. CASE Dispatch(r, q, ds)
  BY <1>2, <1>8, DispatchKeeps
<1> QED BY <1>4, <1>5, <1>6, <1>7, <1>8

\* A call arrives.
LEMMA ArriveKeeps ==
  ASSUME ExportInv, NEW r \in Requests, Arrive(r)
  PROVE  ExportInv'
<1> DEFINE c == Client(r)
           t == RouteTenant(c, req[r].ask.hint)
<1>1. ~Over(req[r]) /\ UNCHANGED <<off, grants, tombs, torn>>
  BY DEF Arrive, Over, edgeVars
<1>2. \/ /\ req' = [req EXCEPT ![r].pc = "refused", ![r].why = "invalid_token"]
         /\ UNCHANGED evidenceVars
      \/ Refuse(r, "offboarded", "", Attributed(c), "", denials)
      \/ Refuse(r, "not_entitled", "", Attributed(c), "", denials)
      \/ Refuse(r, "not_entitled", "", Attributed(c), PolicyOf[c], denials)
      \/ Admitted(r, t)
  BY DEF Arrive
<1> HIDE DEF c, t
<1>3. CASE /\ req' = [req EXCEPT ![r].pc = "refused", ![r].why = "invalid_token"]
           /\ UNCHANGED evidenceVars
  <2> DEFINE p == [req[r] EXCEPT !.pc = "refused", !.why = "invalid_token"]
  <2>1. DOMAIN p = CallFields /\ req' = [req EXCEPT ![r] = p]
    BY <1>3 DEF CallFields, ExportInv
  <2> HIDE DEF p
  <2>2. CallsGoOn
    BY <1>1, <2>1, OneGoesOn
  <2> QED BY <1>1, <1>3, <2>2, CallsKeep DEF evidenceVars
<1>4. ASSUME NEW error, error # "require_approval", NEW policy,
             Refuse(r, error, "", Attributed(c), policy, denials)
      PROVE  ExportInv'
  BY <1>1, <1>4, RefuseKeeps
<1>5. CASE Admitted(r, t)
  BY <1>1, <1>5, AdmittedKeeps
<1> QED BY <1>2, <1>3, <1>4, <1>5

\* The live check of a call ends.
LEMMA CheckedKeeps ==
  ASSUME ExportInv, NEW r \in Requests, Checked(r)
  PROVE  ExportInv'
<1>1. ~Over(req[r]) /\ UNCHANGED <<off, grants, tombs, torn>>
  BY DEF Checked, Over, edgeVars
<1>2. DOMAIN req = Requests /\ DOMAIN req[r] = CallFields
  BY DEF ExportInv
<1>3. CASE Dispatch(r, req[r], denials)
  BY <1>1, <1>2, <1>3, DispatchKeeps
<1>4. CASE ~Dispatch(r, req[r], denials)
  <2> DEFINE q == [req[r] EXCEPT !.pc = "refused", !.why = "token"]
             ch == [CallChain(r, "refused", req[r].tenant, req[r].policy, "denied") EXCEPT !.approval = ""]
  <2>1. req' = [req EXCEPT ![r] = q] /\ Submit(ch)
    BY <1>2, <1>4 DEF Checked
  <2>2. /\ DOMAIN q = CallFields /\ q.pc = "refused" /\ q.why = "token"
        /\ q.tenant = req[r].tenant /\ q.policy = req[r].policy
    BY <1>2 DEF CallFields
  <2>3. ch.outcome = "denied" /\ ch.tenant = req[r].tenant /\ ch.policy = req[r].policy
    BY DEF CallChain, ExecutionChain
  <2> HIDE DEF q
  <2>4. CallsGoOn /\ req'[r] = q
    BY <1>1, <2>1, <2>2, OneGoesOn
  <2>5. ASSUME NEW c, c = ch PROVE ChainHolds(c)'
    BY <2>2, <2>3, <2>4, <2>5, RefusedChain
  <2>6. PICK c : c = ch
    OBVIOUS
  <2>7. Submit(c) /\ ChainHolds(c)'
    BY <2>1, <2>5, <2>6
  <2> QED BY <1>1, <2>4, <2>7, SubmitKeeps
<1> QED BY <1>3, <1>4

\* The wait of a call is over: its receipt tells the outcome the call ends with.
LEMMA SettleKeeps ==
  ASSUME ExportInv, NEW r \in Requests, Settle(r)
  PROVE  ExportInv'
<1>1. ~Over(req[r]) /\ UNCHANGED <<off, grants, tombs, torn>>
  BY DEF Settle, Over, edgeVars
<1>2. DOMAIN req = Requests /\ DOMAIN req[r] = CallFields
  BY DEF ExportInv
<1>3. PICK out \in Outcomes(r) :
        /\ Submit(CallChain(r, "receipt", req[r].tenant, req[r].policy, out))
        /\ req' = [req EXCEPT ![r].pc = "done", ![r].out = out]
  BY DEF Settle
<1> DEFINE q == [req[r] EXCEPT !.pc = "done", !.out = out]
           ch == CallChain(r, "receipt", req[r].tenant, req[r].policy, out)
<1>4. req' = [req EXCEPT ![r] = q] /\ Submit(ch)
  BY <1>2, <1>3
<1>5. /\ DOMAIN q = CallFields /\ q.pc = "done" /\ q.out = out /\ q.ask = req[r].ask
      /\ q.tenant = req[r].tenant /\ q.policy = req[r].policy
  BY <1>2 DEF CallFields
<1>6. /\ ch.outcome = out /\ ch.tenant = req[r].tenant /\ ch.policy = req[r].policy
      /\ ch.approval = req[r].ask.ticket
  BY DEF CallChain, ExecutionChain
<1>7. out \in {"ok", "failed", "unknown"}
  BY DEF Outcomes, Settle
<1> HIDE DEF q
<1>8. CallsGoOn /\ req'[r] = q
  BY <1>1, <1>4, <1>5, OneGoesOn
<1>9. ASSUME NEW c, c = ch PROVE ChainHolds(c)'
  BY <1>5, <1>6, <1>7, <1>8, <1>9 DEF ChainHolds
<1>10. PICK c : c = ch
  OBVIOUS
<1>11. Submit(c) /\ ChainHolds(c)'
  BY <1>4, <1>9, <1>10
<1> QED BY <1>1, <1>8, <1>11, SubmitKeeps

\* Nothing that the invariant speaks of changes, but for calls that go on.
LEMMA OnlyCallsGoOn ==
  ASSUME ExportInv, CallsGoOn, UNCHANGED <<off, grants, tombs, torn, evidenceVars>>
  PROVE  ExportInv'
BY CallsKeep DEF evidenceVars

\* A frame of an agent settles a call that waits, or is nobody's.
LEMMA ResponseKeeps ==
  ASSUME ExportInv, NEW t, NEW id, NEW status, Response(t, id, status)
  PROVE  ExportInv'
<1>1. UNCHANGED <<off, grants, tombs, torn, evidenceVars>>
  BY DEF Response, edgeVars
<1>2. CASE id \in PendingOf(t)
  <2> DEFINE q == [req[id] EXCEPT !.pc = "settled", !.status = status]
  <2>1. id \in Requests /\ ~Over(req[id])
    BY <1>2 DEF PendingOf, Over
  <2>2. req' = [req EXCEPT ![id] = q] /\ DOMAIN q = CallFields
    BY <1>2, <2>1 DEF Response, ExportInv, CallFields
  <2> HIDE DEF q
  <2>3. CallsGoOn
    BY <2>1, <2>2, OneGoesOn
  <2> QED BY <1>1, <2>3, OnlyCallsGoOn
<1>3. CASE id \notin PendingOf(t)
  <2>1. req' = req
    BY <1>3 DEF Response
  <2>2. CallsGoOn
    BY <2>1 DEF CallsGoOn, ExportInv
  <2> QED BY <1>1, <2>2, OnlyCallsGoOn
<1> QED BY <1>2, <1>3

\* Calls that wait are rejected: a timeout, an agent that leaves, the close.
LEMMA RejectKeeps ==
  ASSUME ExportInv,
         (\E r \in Requests : Timeout(r)) \/ (\E t : AgentLeaves(t)) \/ CloseEdge
  PROVE  ExportInv'
<1>1. UNCHANGED <<off, grants, tombs, torn, evidenceVars>>
  BY DEF Timeout, AgentLeaves, CloseEdge, edgeVars
<1>2. PICK R : (\A r \in R : req[r].pc = "sent") /\ Reject(R)
  <2>1. CASE \E r \in Requests : Timeout(r)
    <3>1. PICK r \in Requests : Timeout(r)
      BY <2>1
    <3>2. (\A x \in {r} : req[x].pc = "sent") /\ Reject({r})
      BY <3>1 DEF Timeout
    <3> QED BY <3>2
  <2>2. CASE \E t : AgentLeaves(t)
    <3>1. PICK t : AgentLeaves(t)
      BY <2>2
    <3>2. (\A x \in PendingOf(t) : req[x].pc = "sent") /\ Reject(PendingOf(t))
      BY <3>1 DEF AgentLeaves, PendingOf
    <3> QED BY <3>2
  <2>3. CASE CloseEdge
    BY <2>3 DEF CloseEdge
  <2> QED BY <2>1, <2>2, <2>3
<1>3. CallsGoOn
  BY <1>2, RejectedGoOn
<1> QED BY <1>1, <1>3, OnlyCallsGoOn

---------------------------------------------------------------------------
(* The notary *)

\* A sequence over some set is one over its own elements.
LEMMA SeqIsSeq ==
  ASSUME NEW S, NEW t \in Seq(S)
  PROVE  IsSeq(t)
<1> DEFINE R == {t[i] : i \in 1..Len(t)}
<1>1. Len(t) \in Nat /\ t \in [1..Len(t) -> S]
  BY LenProperties
<1>2. t \in [1..Len(t) -> R]
  BY <1>1
<1> QED BY <1>1, <1>2, SeqDef DEF IsSeq

\* A row is appended, and the oldest makes room.
LEMMA RemembersOne ==
  ASSUME LedgerHolds, NEW chain, NEW inclusion, Remember(chain, inclusion)
  PROVE  LET row == [chain |-> chain, state |-> Reconciled(chain), anchored |-> Verified(inclusion, chain)]
         IN  /\ IsSeq(evidence')
             /\ \A i \in 1..Len(evidence') :
                  evidence'[i] = row \/ \E j \in 1..Len(evidence) : evidence'[i] = evidence[j]
<1> DEFINE row == [chain |-> chain, state |-> Reconciled(chain), anchored |-> Verified(inclusion, chain)]
           t == evidence
           S == {t[i] : i \in 1..Len(t)} \cup {row}
           old == IF Len(t) = MaxEvidence THEN Tail(t) ELSE t
           u == Append(old, row)
<1>1. evidence' = u
  BY DEF Remember
<1> HIDE DEF row
<1>2. t \in Seq(S) /\ row \in S /\ Len(t) \in Nat
  <2>1. t \in Seq({t[i] : i \in 1..Len(t)})
    BY DEF IsSeq, LedgerHolds
  <2> QED BY <2>1, LenProperties
<1>3. \A s \in S : s = row \/ \E j \in 1..Len(t) : s = t[j]
  OBVIOUS
<1> HIDE DEF S
<1>4. old \in Seq(S)
  <2>1. CASE Len(t) = MaxEvidence
    <3>1. t # <<>>
      BY <1>2, <2>1, EvidenceAssumption, EmptySeq
    <3> QED BY <1>2, <2>1, <3>1, HeadTailProperties
  <2> QED BY <1>2, <2>1
<1>5. u \in Seq(S)
  BY <1>2, <1>4, AppendProperties
<1> HIDE DEF old, u
<1>6. Len(u) \in Nat /\ \A i \in 1..Len(u) : u[i] \in S
  BY <1>5, LenProperties
<1>7. IsSeq(u)
  BY <1>5, SeqIsSeq
<1>8. \A i \in 1..Len(u) : u[i] = row \/ \E j \in 1..Len(t) : u[i] = t[j]
  BY <1>3, <1>6
<1> QED BY <1>7, <1>8, <1>1 DEF row

\* A row is anchored only by the inclusion of its own digest.
LEMMA NotaryKeeps ==
  ASSUME ExportInv, NEW chain, NEW inclusion, NotaryAnswers(chain, inclusion)
  PROVE  ExportInv'
<1> DEFINE row == [chain |-> chain, state |-> Reconciled(chain), anchored |-> Verified(inclusion, chain)]
<1>1. /\ chain \in submitted /\ inclusion \in Replies(chain)
      /\ UNCHANGED <<req, off, grants, tombs, torn>>
      /\ evidence' = Append(IF Len(evidence) = MaxEvidence THEN Tail(evidence) ELSE evidence, row)
      /\ submitted' = submitted \ {chain}
      /\ included' = IF inclusion = [about |-> {chain}, signed |-> TRUE]
                     THEN included \cup {chain} ELSE included
  BY DEF NotaryAnswers, Remember, callVars, edgeVars
<1>2. row.chain = chain /\ (row.anchored => Verified(inclusion, chain))
  OBVIOUS
<1> HIDE DEF row
<1>3. included \subseteq included'
  BY <1>1
<1>4. row.anchored => chain \in included'
  <2>1. SUFFICES ASSUME inclusion.signed, inclusion.about = {chain} PROVE chain \in included'
    BY <1>2 DEF Verified
  <2>2. CASE inclusion = [about |-> {chain}, signed |-> TRUE]
    BY <1>1, <2>2
  <2>3. CASE \E d \in included : inclusion = [about |-> {d}, signed |-> TRUE]
    <3>1. PICK d \in included : inclusion = [about |-> {d}, signed |-> TRUE]
      BY <2>3
    <3>2. d = chain
      BY <2>1, <3>1
    <3> QED BY <1>3, <3>2
  <2> QED BY <1>1, <2>1, <2>2, <2>3 DEF Replies, NoInclusion
<1>5. LedgerHolds /\ \A ch \in submitted : ChainHolds(ch)
  BY DEF ExportInv
<1>6. ASSUME NEW ch, ChainHolds(ch) PROVE ChainHolds(ch)'
  BY <1>1, <1>6 DEF ChainHolds
<1>7. /\ IsSeq(evidence')
      /\ \A i \in 1..Len(evidence') :
           evidence'[i] = row \/ \E j \in 1..Len(evidence) : evidence'[i] = evidence[j]
  <2>1. Remember(chain, inclusion)
    BY DEF NotaryAnswers
  <2> QED BY <1>5, <2>1, RemembersOne DEF row
<1>8. ASSUME NEW e, e = row \/ \E j \in 1..Len(evidence) : e = evidence[j]
      PROVE  RowHolds(e)'
  <2>1. ChainHolds(e.chain) /\ (e.anchored => e.chain \in included')
    BY <1>1, <1>2, <1>3, <1>4, <1>5, <1>8 DEF LedgerHolds, RowHolds
  <2> QED BY <1>6, <2>1 DEF RowHolds
<1>9. LedgerHolds'
  <2>1. ASSUME NEW i \in 1..Len(evidence') PROVE RowHolds(evidence[i])'
    <3>1. PICK e : e = evidence'[i]
      OBVIOUS
    <3>2. RowHolds(e)'
      BY <1>7, <1>8, <3>1
    <3> QED BY <3>1, <3>2 DEF RowHolds, ChainHolds
  <2> QED BY <1>7, <2>1 DEF LedgerHolds
<1>10. \A ch \in submitted' : ChainHolds(ch)'
  BY <1>1, <1>5, <1>6
<1> QED BY <1>1, <1>9, <1>10 DEF ExportInv, OffHolds, GrantHolds

---------------------------------------------------------------------------
(* Offboarding *)

\* A true chain is submitted while an offboarding goes on, and calls with it.
LEMMA OffboardSubmits ==
  ASSUME ExportInv, CallsGoOn, torn \subseteq torn', NEW chain, Submit(chain), ChainHolds(chain)'
  PROVE  LedgerHolds' /\ \A ch \in submitted' : ChainHolds(ch)'
<1>1. LedgerHolds /\ \A ch \in submitted : ChainHolds(ch)
  BY DEF ExportInv
<1>2. UNCHANGED <<evidence, included>> /\ \A ch \in submitted' : ch \in submitted \/ ch = chain
  BY DEF Submit
<1>3. LedgerHolds'
  BY <1>1, <1>2, LedgerStays
<1>4. ASSUME NEW ch \in submitted PROVE ChainHolds(ch)'
  BY <1>1, <1>4, TruthStays
<1>5. \A ch \in submitted' : ChainHolds(ch)'
  BY <1>2, <1>4
<1> QED BY <1>3, <1>5

\* No call changes.
LEMMA CallsStay ==
  ASSUME ExportInv, UNCHANGED req
  PROVE  CallsGoOn
BY DEF ExportInv, CallsGoOn

\* A chain of an offboarding is true once its tenant is torn down.
LEMMA OffboardChain ==
  ASSUME NEW ch, ch.outcome \in {"revoked", "destroyed"}, ch.tenant \in torn'
  PROVE  ChainHolds(ch)'
BY DEF ChainHolds

\* An offboarding that is refused tears nothing down.
LEMMA OffboardRefusedKeeps ==
  ASSUME ExportInv, NEW o \in Offboards, OffboardRefused(o)
  PROVE  ExportInv'
<1>1. /\ DOMAIN off = Offboards /\ (\A x \in Offboards : OffHolds(off[x]))
      /\ LedgerHolds /\ (\A ch \in submitted : ChainHolds(ch))
      /\ DOMAIN req = Requests /\ (\A r \in Requests : DOMAIN req[r] = CallFields)
      /\ DOMAIN grants = Clients /\ (\A c \in Clients : GrantHolds(c))
  BY DEF ExportInv
<1>2. off[o].pc = "new" /\ UNCHANGED <<req, grants, tombs, torn, evidence, submitted, included>>
  BY DEF OffboardRefused, evidenceVars, callVars
<1>3. PICK result : OffResult(o, result)
  BY DEF OffboardRefused
<1> DEFINE q == [off[o] EXCEPT !.pc = "done", !.result = result]
<1>4. off' = [off EXCEPT ![o] = q]
  BY <1>1, <1>3 DEF OffResult
<1>5. /\ DOMAIN q = OffFields /\ q.pc = "done" /\ q.tenant = "" /\ q.ask \in Clients \cup {""}
  BY <1>1, <1>2 DEF OffHolds, OffFields
<1> HIDE DEF q
<1>6. ASSUME NEW x \in Offboards PROVE OffHolds(off[x])'
  <2>1. off'[x] = off[x] \/ off'[x] = q
    BY <1>1, <1>4
  <2> QED BY <1>1, <1>2, <1>5, <2>1 DEF OffHolds
<1>7. DOMAIN off' = Offboards
  BY <1>1, <1>4
<1>8. LedgerHolds' /\ (\A ch \in submitted' : ChainHolds(ch)') /\ (\A c \in Clients : GrantHolds(c)')
  <2>1. CallsGoOn
    BY <1>2, CallsStay
  <2>2. LedgerHolds'
    BY <1>1, <1>2, <2>1, LedgerStays
  <2>3. \A ch \in submitted' : ChainHolds(ch)'
    BY <1>1, <1>2 DEF ChainHolds
  <2>4. \A c \in Clients : GrantHolds(c)'
    BY <1>1, <1>2 DEF GrantHolds
  <2> QED BY <2>2, <2>3, <2>4
<1> QED BY <1>1, <1>2, <1>6, <1>7, <1>8 DEF ExportInv

\* A set of one element has one.
LEMMA OneIsSome ==
  ASSUME NEW S, Cardinality(S) = 1
  PROVE  S # {}
<1>1. 1 # 0
  OBVIOUS
<1>2. Cardinality({}) = 0
  BY FS_EmptySet
<1> QED BY <1>1, <1>2, Zenon

\* The tenant of a teardown is the one the client was granted.
LEMMA AttributedIsGranted ==
  ASSUME NEW c, Attributed(c) # ""
  PROVE  Attributed(c) \in grants[c]
<1>1. Cardinality(grants[c]) = 1
  BY DEF Attributed
<1>2. grants[c] # {}
  BY <1>1, OneIsSome, Zenon
<1> QED BY <1>1, <1>2 DEF Attributed

\* The teardown, and the chain that tells it.
LEMMA OffboardDestroysKeeps ==
  ASSUME ExportInv, NEW o \in Offboards, OffboardDestroys(o)
  PROVE  ExportInv'
<1> DEFINE c == off[o].ask
           t == Attributed(c)
           ch == ExecutionChain(o, "revoked", t, c, PolicyOf[c], "", "", "revoked")
           q == [off[o] EXCEPT !.pc = "revoking", !.tenant = t]
<1>1. /\ DOMAIN off = Offboards /\ (\A x \in Offboards : OffHolds(off[x]))
      /\ DOMAIN grants = Clients /\ (\A x \in Clients : GrantHolds(x))
  BY DEF ExportInv
<1>2. /\ c # "" /\ t # "" /\ c \notin tombs /\ torn' = torn \cup {t} /\ Reject(PendingOf(t)) /\ Submit(ch)
      /\ UNCHANGED <<grants, tombs>>
  BY DEF OffboardDestroys
<1>3. off' = [off EXCEPT ![o] = q]
  BY <1>1 DEF OffboardDestroys
<1>4. c \in Clients /\ t \in Grants[c]
  <2>1. c \in Clients /\ GrantHolds(c)
    BY <1>1, <1>2 DEF OffHolds
  <2>2. t \in grants[c]
    BY <1>2, AttributedIsGranted
  <2> QED BY <1>2, <2>1, <2>2 DEF GrantHolds
<1>5. DOMAIN q = OffFields /\ q.pc = "revoking" /\ q.tenant = t /\ q.ask = c
  BY <1>1 DEF OffHolds, OffFields
<1>6. ch.outcome = "revoked" /\ ch.tenant = t
  BY DEF ExecutionChain
<1>7. CallsGoOn
  <2>1. \A r \in PendingOf(t) : req[r].pc = "sent"
    BY DEF PendingOf
  <2> QED BY <1>2, <2>1, RejectedGoOn
<1> HIDE DEF q, ch, t, c
<1>8. LedgerHolds' /\ \A x \in submitted' : ChainHolds(x)'
  <2>1. PICK x : x = ch
    OBVIOUS
  <2>2. x.outcome = "revoked" /\ x.tenant \in torn' /\ Submit(x)
    BY <1>2, <1>6, <2>1
  <2>3. ChainHolds(x)'
    BY <2>2, OffboardChain
  <2> QED BY <1>2, <1>7, <2>2, <2>3, OffboardSubmits
<1>9. ASSUME NEW x \in Offboards PROVE OffHolds(off[x])'
  <2>1. CASE off'[x] = off[x]
    BY <1>1, <1>2, <2>1 DEF OffHolds
  <2>2. CASE off'[x] = q
    BY <1>2, <1>4, <1>5, <2>2 DEF OffHolds
  <2> QED BY <1>1, <1>3, <2>1, <2>2
<1>10. DOMAIN off' = Offboards /\ DOMAIN grants' = Clients /\ \A x \in Clients : GrantHolds(x)'
  BY <1>1, <1>2, <1>3 DEF GrantHolds
<1>11. DOMAIN req' = Requests /\ \A r \in Requests : DOMAIN req'[r] = CallFields
  BY <1>7 DEF CallsGoOn
<1> QED BY <1>8, <1>9, <1>10, <1>11 DEF ExportInv

\* Between the two chains.
LEMMA OffboardGoesOnKeeps ==
  ASSUME ExportInv, NEW o \in Offboards, OffboardGoesOn(o)
  PROVE  ExportInv'
<1> DEFINE ch == OffChain(o, "destroyed")
           q == [off[o] EXCEPT !.pc = "destroying"]
<1>1. /\ DOMAIN off = Offboards /\ (\A x \in Offboards : OffHolds(off[x]))
      /\ DOMAIN grants = Clients /\ (\A x \in Clients : GrantHolds(x))
  BY DEF ExportInv
<1>2. /\ off[o].pc = "revoking" /\ Submit(ch) /\ UNCHANGED <<req, torn, grants, tombs>>
      /\ off' = [off EXCEPT ![o] = q]
  BY <1>1 DEF OffboardGoesOn, callVars
<1>3. /\ DOMAIN q = OffFields /\ q.pc = "destroying" /\ q.tenant = off[o].tenant /\ q.ask = off[o].ask
  BY <1>1 DEF OffHolds, OffFields
<1>4. ch.outcome = "destroyed" /\ ch.tenant = off[o].tenant
  BY DEF OffChain, ExecutionChain
<1>5. off[o].tenant # "" /\ off[o].tenant \in torn
  BY <1>1, <1>2 DEF OffHolds
<1>6. CallsGoOn
  BY <1>2, CallsStay
<1> HIDE DEF q, ch
<1>7. LedgerHolds' /\ \A x \in submitted' : ChainHolds(x)'
  <2>1. PICK x : x = ch
    OBVIOUS
  <2>2. x.outcome = "destroyed" /\ x.tenant \in torn' /\ Submit(x)
    BY <1>2, <1>4, <1>5, <2>1
  <2>3. ChainHolds(x)'
    BY <2>2, OffboardChain
  <2> QED BY <1>2, <1>6, <2>2, <2>3, OffboardSubmits
<1>8. ASSUME NEW x \in Offboards PROVE OffHolds(off[x])'
  <2>1. CASE off'[x] = off[x]
    BY <1>1, <1>2, <2>1 DEF OffHolds
  <2>2. CASE off'[x] = q
    <3>1. OffHolds(off[o])
      BY <1>1
    <3>2. q.ask \in Clients /\ q.tenant \in Grants[q.ask] /\ q.tenant \in torn'
      BY <1>2, <1>3, <1>5, <3>1 DEF OffHolds
    <3> QED BY <1>2, <1>3, <1>5, <2>2, <3>2 DEF OffHolds
  <2> QED BY <1>1, <1>2, <2>1, <2>2
<1>9. DOMAIN off' = Offboards /\ DOMAIN grants' = Clients /\ \A x \in Clients : GrantHolds(x)'
  BY <1>1, <1>2 DEF GrantHolds
<1>10. DOMAIN req' = Requests /\ \A r \in Requests : DOMAIN req'[r] = CallFields
  BY <1>6 DEF CallsGoOn
<1> QED BY <1>7, <1>8, <1>9, <1>10 DEF ExportInv

\* The end.  A client whose tenant is not granted any more is entombed already.
LEMMA OffboardEndsKeeps ==
  ASSUME ExportInv, NEW o \in Offboards, OffboardEnds(o)
  PROVE  ExportInv'
<1> DEFINE c == off[o].ask
           granted == off[o].tenant \in grants[c]
           q == [off[o] EXCEPT !.pc = "done", !.result = IF granted THEN "ok" ELSE "export_unavailable"]
<1>1. /\ DOMAIN off = Offboards /\ (\A x \in Offboards : OffHolds(off[x]))
      /\ DOMAIN grants = Clients /\ (\A x \in Clients : GrantHolds(x))
      /\ LedgerHolds /\ (\A ch \in submitted : ChainHolds(ch))
      /\ DOMAIN req = Requests /\ (\A r \in Requests : DOMAIN req[r] = CallFields)
  BY DEF ExportInv
<1>2. /\ off[o].pc = "destroying" /\ off' = [off EXCEPT ![o] = q]
      /\ grants' = IF granted THEN [grants EXCEPT ![c] = {}] ELSE grants
      /\ tombs' = IF granted THEN tombs \cup {c} ELSE tombs
      /\ UNCHANGED <<req, torn, evidence, submitted, included>>
  BY <1>1 DEF OffboardEnds, OffResult, evidenceVars, callVars
<1>3. DOMAIN q = OffFields /\ q.pc = "done" /\ q.tenant = off[o].tenant /\ q.ask = c
  BY <1>1 DEF OffHolds, OffFields
<1>4. c \in Clients /\ off[o].tenant \in Grants[c] /\ off[o].tenant \in torn
  BY <1>1, <1>2 DEF OffHolds
<1>5. c \in tombs'
  BY <1>1, <1>2, <1>4 DEF GrantHolds
<1> HIDE DEF q
<1>6. tombs \subseteq tombs'
  BY <1>2
<1>7. \A x \in Clients : GrantHolds(x)'
  <2>1. ASSUME NEW x \in Clients PROVE grants'[x] = IF x \in tombs' THEN {} ELSE Grants[x]
    BY <1>1, <1>2, <1>4 DEF GrantHolds
  <2> QED BY <2>1 DEF GrantHolds
<1>8. ASSUME NEW x \in Offboards PROVE OffHolds(off[x])'
  <2>1. CASE off'[x] = off[x]
    BY <1>1, <1>2, <1>6, <2>1 DEF OffHolds
  <2>2. CASE off'[x] = q
    <3>1. q.tenant \in torn' /\ q.tenant \in Grants[c] /\ q.ask \in tombs' /\ q.ask \in Clients
      BY <1>2, <1>3, <1>4, <1>5
    <3> QED BY <1>3, <2>2, <3>1 DEF OffHolds
  <2> QED BY <1>1, <1>2, <2>1, <2>2
<1>9. CallsGoOn
  BY <1>2, CallsStay
<1>10. LedgerHolds'
  BY <1>1, <1>2, <1>9, LedgerStays
<1>11. \A ch \in submitted' : ChainHolds(ch)'
  BY <1>1, <1>2 DEF ChainHolds
<1>12. DOMAIN off' = Offboards /\ DOMAIN grants' = Clients
  BY <1>1, <1>2
<1> QED BY <1>1, <1>2, <1>7, <1>8, <1>10, <1>11, <1>12 DEF ExportInv

---------------------------------------------------------------------------
(* The theorems *)

\* Nothing has been told yet.
LEMMA InitHolds ==
  ASSUME Init
  PROVE  ExportInv
<1>1. PICK s \in Scenarios :
        /\ req = [r \in Requests |-> NewCall(s.calls[r])]
        /\ off = [o \in Offboards |-> NewOffboard(s.offboards[o])]
        /\ grants = Grants /\ tombs = {} /\ evidence = <<>> /\ submitted = {}
  BY DEF Init, EvidenceInit
<1>2. DOMAIN req = Requests /\ \A r \in Requests : DOMAIN req[r] = CallFields
  BY <1>1 DEF NewCall, CallFields
<1>3. DOMAIN off = Offboards /\ \A o \in Offboards : OffHolds(off[o])
  <2>1. s.offboards \in [Offboards -> Clients \cup {""}]
    BY <1>1, AccountingAssumption
  <2>2. ASSUME NEW o \in Offboards PROVE OffHolds(off[o])
    <3>1. /\ off[o].ask \in Clients \cup {""} /\ off[o].pc = "new" /\ off[o].tenant = ""
          /\ DOMAIN off[o] = OffFields
      BY <1>1, <2>1 DEF NewOffboard, OffFields
    <3> QED BY <3>1 DEF OffHolds
  <2> QED BY <1>1, <2>2
<1>4. DOMAIN grants = Clients /\ \A c \in Clients : GrantHolds(c)
  BY <1>1, AccountingAssumption DEF GrantHolds
<1>5. LedgerHolds
  <2>1. <<>> \in Seq({}) /\ Len(<<>>) = 0
    BY EmptySeq
  <2>2. IsSeq(<<>>)
    BY <2>1, SeqIsSeq
  <2>3. 1..0 = {}
    OBVIOUS
  <2> QED BY <1>1, <2>1, <2>2, <2>3 DEF LedgerHolds
<1> QED BY <1>1, <1>2, <1>3, <1>4, <1>5 DEF ExportInv

\* Nothing that the invariant speaks of changes.
LEMMA LedgersStandStill ==
  ASSUME ExportInv, UNCHANGED <<req, off, grants, tombs, torn, evidenceVars>>
  PROVE  ExportInv'
BY CallsStay, OnlyCallsGoOn

\* Every step keeps the invariant.
LEMMA StepKeeps ==
  ASSUME ExportInv, [Next]_vars
  PROVE  ExportInv'
<1>1. ASSUME NEW r \in Requests, Arrive(r) \/ Checked(r) \/ Timeout(r) \/ Settle(r)
      PROVE  ExportInv'
  BY <1>1, ArriveKeeps, CheckedKeeps, RejectKeeps, SettleKeeps
<1>2. ASSUME NEW t, NEW id, NEW status, Response(t, id, status) PROVE ExportInv'
  BY <1>2, ResponseKeeps
<1>3. ASSUME NEW chain, NEW inclusion, NotaryAnswers(chain, inclusion) PROVE ExportInv'
  BY <1>3, NotaryKeeps
<1>4. ASSUME NEW t, AgentLeaves(t) PROVE ExportInv'
  BY <1>4, RejectKeeps
<1>5. ASSUME NEW t, AgentComes(t) PROVE ExportInv'
  BY <1>5, LedgersStandStill DEF AgentComes, callVars
<1>6. ASSUME NEW o \in Offboards,
             OffboardRefused(o) \/ OffboardDestroys(o) \/ OffboardGoesOn(o) \/ OffboardEnds(o)
      PROVE  ExportInv'
  BY <1>6, OffboardRefusedKeeps, OffboardDestroysKeeps, OffboardGoesOnKeeps, OffboardEndsKeeps
<1>7. CASE CloseEdge
  BY <1>7, RejectKeeps
<1>8. CASE TimePasses
  BY <1>8, LedgersStandStill DEF TimePasses, callVars, edgeVars
<1>9. CASE UNCHANGED vars
  BY <1>9, LedgersStandStill DEF vars, callVars, edgeVars
<1> QED BY <1>1, <1>2, <1>3, <1>4, <1>5, <1>6, <1>7, <1>8, <1>9 DEF Next

\* What a pack cites are rows of the tenant, under the policy of the reader.
LEMMA PacksTellTheTruth ==
  ASSUME ExportInv, NEW t, NEW policy
  PROVE  /\ "offboarded" \in Controls(t, policy) => t \in torn
         /\ "onboarded" \in Controls(t, policy) => Onboarded(t, policy)
<1> DEFINE settled == {row \in Executions(t) : LiveAnchored(row, policy)}
<1>1. ASSUME NEW row \in settled
      PROVE  ChainHolds(row.chain) /\ row.chain.tenant = t /\ row.chain.policy = policy
  <2>1. row \in Executions(t) /\ LiveAnchored(row, policy)
    OBVIOUS
  <2>2. PICK i \in DOMAIN evidence : evidence[i] = row /\ row.chain.tenant = t
    BY <2>1 DEF Executions
  <2>3. i \in 1..Len(evidence) /\ LedgerHolds
    BY <2>2, LenProperties DEF ExportInv, LedgerHolds, IsSeq
  <2>4. RowHolds(row)
    BY <2>2, <2>3 DEF LedgerHolds
  <2> QED BY <2>1, <2>2, <2>4 DEF RowHolds, LiveAnchored
<1>2. "offboarded" \in Controls(t, policy) => \E row \in settled : Revoked(row)
  BY DEF Controls
<1>3. "onboarded" \in Controls(t, policy) =>
        /\ \E row \in settled : Allowed(row)
        /\ \E row \in settled : Denied(row)
        /\ \E row \in settled : ApprovalGated(row)
  BY DEF Controls
<1> HIDE DEF settled
<1>4. ASSUME NEW row \in settled, Revoked(row) PROVE t \in torn
  BY <1>1, <1>4 DEF Revoked, ChainHolds
<1> DEFINE mine == {r \in Requests : req[r].tenant = t /\ req[r].policy = policy}
           ok(r) == req[r].pc = "done" /\ req[r].out = "ok"
           challenged(r) == req[r].pc = "refused" /\ req[r].why = "require_approval"
<1>5. ASSUME NEW row \in settled, Allowed(row)
      PROVE  \E r \in mine : ok(r) /\ req[r].ask.ticket = ""
  <2>1. ChainHolds(row.chain) /\ row.chain.tenant = t /\ row.chain.policy = policy
    BY <1>1
  <2>2. PICK r \in Requests : /\ req[r].tenant = t /\ req[r].policy = policy
                              /\ req[r].pc = "done" /\ req[r].out = "ok"
                              /\ req[r].ask.ticket = row.chain.approval
    BY <1>5, <2>1 DEF Allowed, ChainHolds
  <2> QED BY <1>5, <2>2 DEF Allowed
<1>6. ASSUME NEW row \in settled, Denied(row)
      PROVE  \E r \in mine : req[r].pc = "refused" /\ ~challenged(r)
  BY <1>1, <1>6 DEF Denied, ChainHolds
<1>7. ASSUME NEW row \in settled, ApprovalGated(row)
      PROVE  \E r \in mine : challenged(r) \/ (ok(r) /\ req[r].ask.ticket # "")
  <2>1. ChainHolds(row.chain) /\ row.chain.tenant = t /\ row.chain.policy = policy
    BY <1>1
  <2>2. CASE row.chain.outcome = "require_approval"
    <3>1. PICK r \in Requests : /\ req[r].tenant = t /\ req[r].policy = policy
                                /\ req[r].pc = "refused" /\ req[r].why = "require_approval"
      BY <2>1, <2>2 DEF ChainHolds
    <3> QED BY <3>1
  <2>3. CASE row.chain.outcome = "ok" /\ row.chain.approval # ""
    <3>1. PICK r \in Requests : /\ req[r].tenant = t /\ req[r].policy = policy
                                /\ req[r].pc = "done" /\ req[r].out = "ok"
                                /\ req[r].ask.ticket = row.chain.approval
      BY <2>1, <2>3 DEF ChainHolds
    <3> QED BY <2>3, <3>1
  <2> QED BY <1>7, <2>2, <2>3 DEF ApprovalGated
<1>8. "onboarded" \in Controls(t, policy) =>
        /\ \E r \in mine : ok(r) /\ req[r].ask.ticket = ""
        /\ \E r \in mine : req[r].pc = "refused" /\ ~challenged(r)
        /\ \E r \in mine : challenged(r) \/ (ok(r) /\ req[r].ask.ticket # "")
  <2> HIDE DEF mine, ok, challenged
  <2> QED BY <1>3, <1>5, <1>6, <1>7
<1> QED BY <1>2, <1>4, <1>8 DEF Onboarded

\* edge.js:898, edge.js:1650-1749.  A chain tells what came of its call or its
\* offboarding, a row is anchored by its own digest, and a client keeps its grants
\* until it is entombed.
THEOREM ExportInvariant == Spec => []ExportInv
<1>1. Init => ExportInv
  BY InitHolds
<1>2. ExportInv /\ [Next]_vars => ExportInv'
  BY StepKeeps
<1> QED BY <1>1, <1>2, PTL DEF Spec

\* edge.js:898, edge.js:1749.  What a pack cites as anchored was signed, what it
\* tells of an onboarding or an offboarding happened to that tenant, and an
\* offboarding past its teardown leaves no grant.
THEOREM ExportsAreTrue == Spec => []ExportIsTrue
<1>1. ASSUME ExportInv PROVE ExportIsTrue
  <2>1. \A i \in DOMAIN evidence : evidence[i].anchored => evidence[i].chain \in included
    <3>1. LedgerHolds /\ DOMAIN evidence = 1..Len(evidence)
      BY <1>1, LenProperties DEF ExportInv, LedgerHolds, IsSeq
    <3> QED BY <3>1 DEF LedgerHolds, RowHolds
  <2>2. \A c \in Readers : \A t \in ReadBy(c) :
          LET cited == Controls(t, PolicyOf[c])
          IN  /\ "offboarded" \in cited => t \in torn
              /\ "onboarded" \in cited => Onboarded(t, PolicyOf[c])
    BY <1>1, PacksTellTheTruth
  <2>3. ASSUME NEW o \in Offboards, off[o].pc = "done", off[o].tenant # ""
        PROVE  off[o].ask \in tombs /\ grants[off[o].ask] = {} /\ off[o].tenant \in torn
    <3>1. OffHolds(off[o]) /\ \A c \in Clients : GrantHolds(c)
      BY <1>1 DEF ExportInv
    <3> QED BY <2>3, <3>1 DEF OffHolds, GrantHolds
  <2> QED BY <2>1, <2>2, <2>3 DEF ExportIsTrue
<1> QED BY <1>1, ExportInvariant, PTL

---------------------------------------------------------------------------
(* The usage ledger *)

\* A call whose frame has been written to an agent.
HasCrossed(r) == req[r].pc \in {"sent", "settled", "rejected", "done"}

\* What a row tells: that a call crossed, what it came to, or that an answer came
\* which nobody waited for.
TellsDecision(row, r) == row = Decision("allow", r, req[r].tenant, Key(r))
TellsReceipt(row, r) == row = Receipt(0, req[r].out, r, r, req[r].tenant, Key(r))
TellsStray(row, s) == row = Receipt(s.no, "unknown", s.id, "", s.tenant, "")

RowTells(row) ==
  \/ row.is = "deny"
  \/ \E r \in Requests : HasCrossed(r) /\ TellsDecision(row, r)
  \/ \E r \in Requests : req[r].pc = "done" /\ TellsReceipt(row, r)
  \/ \E s \in strays : TellsStray(row, s)

\* Nothing is told twice.
ToldOnce == \A i, j \in 1..Len(rows) : rows[i] = rows[j] /\ rows[i].is # "deny" => i = j

\* While the decision of a call is kept, so are the answers that came after it.
StraysAfter ==
  \A s \in strays, i \in 1..Len(rows) :
    s.id \in Requests /\ TellsDecision(rows[i], s.id) => \E j \in i..Len(rows) : TellsStray(rows[j], s)

\* Before a row is dropped everything is told.
AllTold ==
  /\ \A r \in Requests : HasCrossed(r) => \E i \in 1..Len(rows) : TellsDecision(rows[i], r)
  /\ \A r \in Requests : req[r].pc = "done" => \E i \in 1..Len(rows) : TellsReceipt(rows[i], r)
  /\ \A s \in strays : \E i \in 1..Len(rows) : TellsStray(rows[i], s)

UsageRows ==
  /\ IsSeq(rows) /\ dropped \in Nat
  /\ \A i \in 1..Len(rows) : RowTells(rows[i])
  /\ ToldOnce /\ StraysAfter /\ (dropped = 0 => AllTold)

\* An answer is a stray of a call only once the call has crossed, and each stray is
\* told from the ones before it.
CallsTell ==
  /\ IsFiniteSet(strays) /\ strays \subseteq [tenant : Tenants, id : FrameIds, no : Nat]
  /\ \A s \in strays : s.no <= Cardinality(strays)
  /\ \A s, x \in strays : s.no = x.no => s = x
  /\ \A s \in strays : s.id \in Requests => HasCrossed(s.id)
  /\ \A r \in Requests : req[r].pc = "done" => req[r].out \in {"ok", "failed", "unknown"}

UsageInv == CallsTell /\ (setup.usage => UsageRows)

\* Calls change, and what is told of them does not.
CrossedStay ==
  \A r \in Requests :
    /\ HasCrossed(r) =>
         req'[r].pc \in {"sent", "settled", "rejected", "done"} /\ req'[r].tenant = req[r].tenant
    /\ req'[r].ask = req[r].ask
    /\ req[r].pc = "done" => req'[r].pc = "done" /\ req'[r].out = req[r].out

\* What a sequence is after a row was appended, where the oldest k made room.
Shifted(t, u, k, row) ==
  /\ IsSeq(u) /\ Len(t) \in Nat /\ k <= Len(t)
  /\ Len(u) = Len(t) + 1 - k
  /\ \A i \in 1..(Len(t) - k) : u[i] = t[i + k]
  /\ u[Len(u)] = row

\* A row is appended to a full sequence, or to one that has room.
LEMMA RoomIsMade ==
  ASSUME NEW t, IsSeq(t), NEW row
  PROVE  /\ Len(t) \in Nat \ {0} => Shifted(t, Append(Tail(t), row), 1, row)
         /\ Shifted(t, Append(t, row), 0, row)
<1> DEFINE S == {t[i] : i \in 1..Len(t)} \cup {row}
<1>1. t \in Seq(S) /\ row \in S /\ Len(t) \in Nat
  <2>1. t \in Seq({t[i] : i \in 1..Len(t)})
    BY DEF IsSeq
  <2> QED BY <2>1, LenProperties
<1> HIDE DEF S
<1>2. ASSUME Len(t) \in Nat \ {0} PROVE Shifted(t, Append(Tail(t), row), 1, row)
  <2>1. t # <<>>
    BY <1>1, <1>2, EmptySeq
  <2>2. Tail(t) \in Seq(S) /\ Len(Tail(t)) = Len(t) - 1 /\ \A i \in 1..Len(Tail(t)) : Tail(t)[i] = t[i + 1]
    BY <1>1, <2>1, HeadTailProperties
  <2> DEFINE u == Append(Tail(t), row)
  <2>3. /\ u \in Seq(S) /\ Len(u) = Len(Tail(t)) + 1
        /\ \A i \in 1..Len(Tail(t)) : u[i] = Tail(t)[i]
        /\ u[Len(u)] = row
    BY <1>1, <2>2, AppendProperties
  <2>4. IsSeq(u)
    BY <2>3, SeqIsSeq
  <2> QED BY <1>1, <1>2, <2>2, <2>3, <2>4 DEF Shifted
<1>3. Shifted(t, Append(t, row), 0, row)
  <2> DEFINE u == Append(t, row)
  <2>1. /\ u \in Seq(S) /\ Len(u) = Len(t) + 1
        /\ \A i \in 1..Len(t) : u[i] = t[i]
        /\ u[Len(u)] = row
    BY <1>1, AppendProperties
  <2>2. IsSeq(u)
    BY <2>1, SeqIsSeq
  <2> QED BY <1>1, <2>1, <2>2 DEF Shifted
<1> QED BY <1>2, <1>3

\* Where the rows are after one was recorded.
LEMMA RecordShifts ==
  ASSUME UsageRows, NEW row, Record(row)
  PROVE  \E k \in {0, 1} : Shifted(rows, rows', k, row) /\ dropped' = dropped + k
<1>1. IsSeq(rows) /\ dropped \in Nat
  BY DEF UsageRows
<1>2. CASE Len(rows) = MaxRows
  <2>1. rows' = Append(Tail(rows), row) /\ dropped' = dropped + 1
    BY <1>2 DEF Record
  <2>2. Shifted(rows, rows', 1, row)
    BY <1>1, <1>2, <2>1, RoomIsMade, LedgerAssumption
  <2> QED BY <2>1, <2>2
<1>3. CASE Len(rows) # MaxRows
  <2>1. rows' = Append(rows, row) /\ dropped' = dropped + 0
    BY <1>1, <1>3 DEF Record
  <2>2. Shifted(rows, rows', 0, row)
    BY <1>1, <2>1, RoomIsMade
  <2> QED BY <2>1, <2>2
<1> QED BY <1>2, <1>3

\* What is told of a call stays told.
LEMMA TellingStays ==
  ASSUME CrossedStay, strays \subseteq strays', NEW row
  PROVE  /\ RowTells(row) => RowTells(row)'
         /\ \A r \in Requests : HasCrossed(r) =>
              HasCrossed(r)' /\ (TellsDecision(row, r) <=> TellsDecision(row, r)')
         /\ \A r \in Requests : req[r].pc = "done" =>
              req'[r].pc = "done" /\ (TellsReceipt(row, r) <=> TellsReceipt(row, r)')
         /\ \A s : TellsStray(row, s) <=> TellsStray(row, s)'
<1>1. ASSUME NEW r \in Requests, HasCrossed(r)
      PROVE  HasCrossed(r)' /\ (TellsDecision(row, r) <=> TellsDecision(row, r)')
  BY <1>1 DEF CrossedStay, HasCrossed, TellsDecision, Key, Client
<1>2. ASSUME NEW r \in Requests, req[r].pc = "done"
      PROVE  req'[r].pc = "done" /\ (TellsReceipt(row, r) <=> TellsReceipt(row, r)')
  BY <1>2 DEF CrossedStay, HasCrossed, TellsReceipt, Key, Client
<1>3. \A s : TellsStray(row, s) <=> TellsStray(row, s)'
  BY DEF TellsStray
<1>4. RowTells(row) => RowTells(row)'
  BY <1>1, <1>2, <1>3 DEF RowTells
<1> QED BY <1>1, <1>2, <1>3, <1>4

\* Calls go on as far as the ledger is concerned, and nothing is recorded.
LEMMA NothingIsRecorded ==
  ASSUME UsageRows, CrossedStay, UNCHANGED <<rows, dropped, strays>>,
         \A r \in Requests : HasCrossed(r)' => HasCrossed(r),
         \A r \in Requests : req'[r].pc = "done" => req[r].pc = "done",
         CallsTell
  PROVE  UsageRows'
<1>1. ASSUME NEW row
      PROVE  /\ RowTells(row) => RowTells(row)'
             /\ \A r \in Requests : HasCrossed(r) =>
                  HasCrossed(r)' /\ (TellsDecision(row, r) <=> TellsDecision(row, r)')
             /\ \A r \in Requests : req[r].pc = "done" =>
                  req'[r].pc = "done" /\ (TellsReceipt(row, r) <=> TellsReceipt(row, r)')
             /\ \A s : TellsStray(row, s) <=> TellsStray(row, s)'
  BY TellingStays
<1>2. IsSeq(rows)' /\ dropped' \in Nat /\ ToldOnce'
  BY DEF UsageRows, ToldOnce
<1>3. \A i \in 1..Len(rows') : RowTells(rows[i])'
  <2>1. \A i \in 1..Len(rows) : RowTells(rows[i])
    BY DEF UsageRows
  <2>2. ASSUME NEW i \in 1..Len(rows) PROVE RowTells(rows[i])'
    <3>1. PICK row : row = rows[i]
      OBVIOUS
    <3>2. RowTells(row) /\ row = rows'[i]
      BY <2>1, <3>1
    <3>3. RowTells(row)'
      BY <1>1, <3>2
    <3> QED BY <3>2, <3>3 DEF RowTells, TellsDecision, TellsReceipt, TellsStray
  <2> QED BY <2>2
<1>4. StraysAfter'
  <2>1. SUFFICES ASSUME NEW s \in strays, NEW i \in 1..Len(rows), s.id \in Requests,
                        TellsDecision(rows[i], s.id)'
                 PROVE  \E j \in i..Len(rows) : TellsStray(rows[j], s)'
    BY DEF StraysAfter
  <2>2. PICK row : row = rows[i]
    OBVIOUS
  <2>3. HasCrossed(s.id)
    BY <2>1 DEF CallsTell
  <2>4. TellsDecision(row, s.id)'
    BY <2>1, <2>2 DEF TellsDecision
  <2>5. TellsDecision(rows[i], s.id)
    BY <1>1, <2>1, <2>2, <2>3, <2>4
  <2>6. PICK j \in i..Len(rows) : TellsStray(rows[j], s)
    BY <2>1, <2>5 DEF UsageRows, StraysAfter
  <2> QED BY <2>6 DEF TellsStray
<1>5. AllTold => AllTold'
  <2>1. ASSUME AllTold, NEW r \in Requests, HasCrossed(r)'
        PROVE  \E i \in 1..Len(rows') : TellsDecision(rows[i], r)'
    <3>1. HasCrossed(r)
      BY <2>1
    <3>2. PICK i \in 1..Len(rows) : TellsDecision(rows[i], r)
      BY <2>1, <3>1 DEF AllTold
    <3>3. TellsDecision(rows[i], r)'
      BY <3>1, <3>2 DEF TellsDecision, CrossedStay, HasCrossed, Key, Client
    <3> QED BY <3>3
  <2>2. ASSUME AllTold, NEW r \in Requests, req'[r].pc = "done"
        PROVE  \E i \in 1..Len(rows') : TellsReceipt(rows[i], r)'
    <3>1. req[r].pc = "done"
      BY <2>2
    <3>2. PICK i \in 1..Len(rows) : TellsReceipt(rows[i], r)
      BY <2>2, <3>1 DEF AllTold
    <3>3. TellsReceipt(rows[i], r)'
      BY <3>1, <3>2 DEF TellsReceipt, CrossedStay, HasCrossed, Key, Client
    <3> QED BY <3>3
  <2>3. AllTold => \A s \in strays' : \E i \in 1..Len(rows') : TellsStray(rows[i], s)'
    BY DEF AllTold, TellsStray
  <2> QED BY <2>1, <2>2, <2>3 DEF AllTold
<1> QED BY <1>2, <1>3, <1>4, <1>5 DEF UsageRows

\* One row is recorded: a denial, or one that tells what happens in this step.
LEMMA OneIsRecorded ==
  ASSUME UsageRows, CallsTell, CrossedStay, strays \subseteq strays', NEW row, Record(row),
         RowTells(row)', row.is = "deny" \/ ~\E i \in 1..Len(rows) : rows[i] = row,
         \A r \in Requests : HasCrossed(r)' => HasCrossed(r) \/ TellsDecision(row, r)',
         \A r \in Requests : req'[r].pc = "done" => req[r].pc = "done" \/ TellsReceipt(row, r)',
         \A s \in strays' : s \in strays \/ TellsStray(row, s),
         \A s \in strays' : s.id \in Requests => ~TellsDecision(row, s.id)'
  PROVE  UsageRows'
<1>1. PICK k \in {0, 1} : Shifted(rows, rows', k, row) /\ dropped' = dropped + k
  BY RecordShifts
<1> DEFINE n == Len(rows)
           m == Len(rows')
<1>2. /\ IsSeq(rows') /\ n \in Nat /\ k <= n /\ m = n + 1 - k /\ m \in Nat
      /\ \A i \in 1..(n - k) : rows'[i] = rows[i + k]
      /\ rows'[m] = row
  BY <1>1 DEF Shifted
<1>3. dropped' \in Nat /\ (dropped' = 0 => dropped = 0 /\ k = 0)
  BY <1>1 DEF UsageRows
<1>4. ASSUME NEW x
      PROVE  /\ RowTells(x) => RowTells(x)'
             /\ \A r \in Requests : HasCrossed(r) =>
                  HasCrossed(r)' /\ (TellsDecision(x, r) <=> TellsDecision(x, r)')
             /\ \A r \in Requests : req[r].pc = "done" =>
                  req'[r].pc = "done" /\ (TellsReceipt(x, r) <=> TellsReceipt(x, r)')
             /\ \A s : TellsStray(x, s) <=> TellsStray(x, s)'
  BY TellingStays
<1> HIDE DEF n, m
<1>5. \A i \in 1..m : \/ i = m /\ rows'[i] = row
                      \/ i + k \in 1..n /\ i \in 1..(n - k) /\ rows'[i] = rows[i + k]
  BY <1>2
<1>6. \A i \in 1..n : i > k => i - k \in 1..m /\ rows'[i - k] = rows[i]
  BY <1>2
<1>7. \A i \in 1..m : RowTells(rows[i])'
  <2>1. \A i \in 1..n : RowTells(rows[i])
    BY DEF UsageRows, n
  <2>2. ASSUME NEW i \in 1..m PROVE RowTells(rows[i])'
    <3>1. PICK x : x = rows'[i]
      OBVIOUS
    <3>2. RowTells(x)'
      <4>1. CASE x = row
        BY <4>1
      <4>2. CASE i + k \in 1..n /\ x = rows[i + k]
        BY <1>4, <2>1, <4>2
      <4> QED BY <1>5, <3>1, <4>1, <4>2
    <3> QED BY <3>1, <3>2 DEF RowTells, TellsDecision, TellsReceipt, TellsStray
  <2> QED BY <2>2
<1>8. ToldOnce'
  <2>1. \A i, j \in 1..n : rows[i] = rows[j] /\ rows[i].is # "deny" => i = j
    BY DEF UsageRows, ToldOnce, n
  <2>2. row.is # "deny" => \A i \in 1..n : rows[i] # row
    BY DEF n
  <2>3. ASSUME NEW i \in 1..m, NEW j \in 1..m, rows'[i] = rows'[j], rows'[i].is # "deny" PROVE i = j
    <3>1. CASE i = m
      BY <1>2, <1>5, <2>2, <2>3, <3>1
    <3>2. CASE j = m
      BY <1>2, <1>5, <2>2, <2>3, <3>2
    <3>3. CASE i # m /\ j # m
      <4>1. /\ i + k \in 1..n /\ rows'[i] = rows[i + k]
            /\ j + k \in 1..n /\ rows'[j] = rows[j + k]
        BY <1>5, <3>3
      <4>2. i + k = j + k
        BY <2>1, <2>3, <4>1
      <4> QED BY <4>2, <1>2
    <3> QED BY <3>1, <3>2, <3>3
  <2> QED BY <2>3 DEF ToldOnce, m
<1>9. StraysAfter'
  <2>1. SUFFICES ASSUME NEW s \in strays', NEW i \in 1..m, s.id \in Requests,
                        TellsDecision(rows[i], s.id)'
                 PROVE  \E j \in i..m : TellsStray(rows[j], s)'
    BY DEF StraysAfter, m
  <2>2. PICK x : x = rows'[i]
    OBVIOUS
  <2>3. TellsDecision(x, s.id)'
    BY <2>1, <2>2 DEF TellsDecision
  <2>4. x # row
    BY <2>1, <2>3
  <2>5. i + k \in 1..n /\ i \in 1..(n - k) /\ x = rows[i + k]
    BY <1>5, <2>2, <2>4
  <2>6. CASE s \in strays
    <3>1. HasCrossed(s.id)
      BY <2>1, <2>6 DEF CallsTell
    <3>2. TellsDecision(rows[i + k], s.id)
      BY <1>4, <2>1, <2>3, <2>5, <3>1
    <3>3. PICK j \in (i + k)..n : TellsStray(rows[j], s)
      BY <2>1, <2>5, <2>6, <3>2 DEF UsageRows, StraysAfter, n
    <3>4. j - k \in i..m /\ rows'[j - k] = rows[j]
      BY <1>2, <1>6, <2>5
    <3> QED BY <3>3, <3>4 DEF TellsStray
  <2>7. CASE s \notin strays
    <3>1. TellsStray(row, s) /\ m \in i..m /\ rows'[m] = row
      BY <1>2, <2>7
    <3> QED BY <3>1 DEF TellsStray
  <2> QED BY <2>6, <2>7
<1>10. ASSUME dropped' = 0 PROVE AllTold'
  <2>1. AllTold /\ k = 0
    BY <1>3, <1>10 DEF UsageRows
  <2>2. \A i \in 1..n : i \in 1..m /\ rows'[i] = rows[i]
    BY <1>2, <2>1
  <2>3. m \in 1..m /\ rows'[m] = row
    BY <1>2
  <2>4. ASSUME NEW r \in Requests, HasCrossed(r)'
        PROVE  \E i \in 1..m : TellsDecision(rows[i], r)'
    <3>1. CASE HasCrossed(r)
      <4>1. PICK i \in 1..n : TellsDecision(rows[i], r)
        BY <2>1, <3>1 DEF AllTold, n
      <4>2. TellsDecision(rows[i], r)'
        BY <2>2, <3>1, <4>1 DEF TellsDecision, CrossedStay, HasCrossed, Key, Client
      <4> QED BY <2>2, <4>2
    <3>2. CASE TellsDecision(row, r)'
      BY <2>3, <3>2 DEF TellsDecision
    <3> QED BY <2>4, <3>1, <3>2
  <2>5. ASSUME NEW r \in Requests, req'[r].pc = "done"
        PROVE  \E i \in 1..m : TellsReceipt(rows[i], r)'
    <3>1. CASE req[r].pc = "done"
      <4>1. PICK i \in 1..n : TellsReceipt(rows[i], r)
        BY <2>1, <3>1 DEF AllTold, n
      <4>2. TellsReceipt(rows[i], r)'
        BY <2>2, <3>1, <4>1 DEF TellsReceipt, CrossedStay, HasCrossed, Key, Client
      <4> QED BY <2>2, <4>2
    <3>2. CASE TellsReceipt(row, r)'
      BY <2>3, <3>2 DEF TellsReceipt
    <3> QED BY <2>5, <3>1, <3>2
  <2>6. ASSUME NEW s \in strays' PROVE \E i \in 1..m : TellsStray(rows[i], s)'
    <3>1. CASE s \in strays
      <4>1. PICK i \in 1..n : TellsStray(rows[i], s)
        BY <2>1, <3>1 DEF AllTold, n
      <4> QED BY <2>2, <4>1 DEF TellsStray
    <3>2. CASE TellsStray(row, s)
      BY <2>3, <3>2 DEF TellsStray
    <3> QED BY <3>1, <3>2
  <2> QED BY <2>4, <2>5, <2>6 DEF AllTold, m
<1>11. \A i \in 1..Len(rows') : RowTells(rows[i])'
  BY <1>7 DEF m
<1> QED BY <1>2, <1>3, <1>8, <1>9, <1>10, <1>11 DEF UsageRows

---------------------------------------------------------------------------
(* Steps that record *)

\* What each kind of row says.
LEMMA DecisionFields ==
  ASSUME NEW row, NEW r, TellsDecision(row, r)
  PROVE  /\ row.is = "allow" /\ row.phase = "decision" /\ row.id = r /\ row.of = r
         /\ row.tenant = req[r].tenant /\ row.key = Key(r)
BY DEF TellsDecision, Decision

LEMMA ReceiptFields ==
  ASSUME NEW row, NEW r, TellsReceipt(row, r)
  PROVE  /\ row.phase = "receipt" /\ row.is = req[r].out /\ row.id = r /\ row.of = r
         /\ row.tenant = req[r].tenant /\ row.key = Key(r)
BY DEF TellsReceipt, Receipt

LEMMA StrayFields ==
  ASSUME NEW row, NEW s, TellsStray(row, s)
  PROVE  /\ row.phase = "receipt" /\ row.is = "unknown" /\ row.id = s.id /\ row.of = ""
         /\ row.tenant = s.tenant /\ row.key = "" /\ row.no = s.no
BY DEF TellsStray, Receipt

LEMMA RowFields ==
  ASSUME NEW row
  PROVE  /\ \A r : TellsDecision(row, r) =>
               /\ row.is = "allow" /\ row.phase = "decision" /\ row.id = r /\ row.of = r
               /\ row.tenant = req[r].tenant /\ row.key = Key(r)
         /\ \A r : TellsReceipt(row, r) =>
               /\ row.phase = "receipt" /\ row.is = req[r].out /\ row.id = r /\ row.of = r
               /\ row.tenant = req[r].tenant /\ row.key = Key(r)
         /\ \A s : TellsStray(row, s) =>
               /\ row.phase = "receipt" /\ row.is = "unknown" /\ row.id = s.id /\ row.of = ""
               /\ row.tenant = s.tenant /\ row.key = "" /\ row.no = s.no
BY DecisionFields, ReceiptFields, StrayFields

\* A receipt is no decision, now or then.
LEMMA ReceiptDecidesNothing ==
  ASSUME NEW row, row.phase = "receipt"
  PROVE  \A r : ~TellsDecision(row, r)'
BY DEF TellsDecision, Decision

\* What a step may do to the calls while at most a denial is recorded.
NobodyCrosses ==
  \A r \in Requests :
    /\ HasCrossed(r)' => HasCrossed(r)
    /\ req'[r].pc = "done" => req[r].pc = "done"

\* The calls of strays stay crossed, and what a call came to is told once.
LEMMA CallsTellOn ==
  ASSUME CallsTell, CrossedStay, UNCHANGED strays,
         \A r \in Requests : req'[r].pc = "done" =>
           req[r].pc = "done" \/ req'[r].out \in {"ok", "failed", "unknown"}
  PROVE  CallsTell'
<1>1. ASSUME NEW s \in strays', s.id \in Requests PROVE HasCrossed(s.id)'
  <2>1. HasCrossed(s.id)
    BY <1>1 DEF CallsTell
  <2> QED BY <1>1, <2>1 DEF CrossedStay, HasCrossed
<1>2. ASSUME NEW r \in Requests, req'[r].pc = "done" PROVE req'[r].out \in {"ok", "failed", "unknown"}
  BY <1>2 DEF CallsTell, CrossedStay
<1> QED BY <1>1, <1>2 DEF CallsTell

\* Calls go on and nothing is recorded.
LEMMA QuietKeepsUsage ==
  ASSUME UsageInv, CrossedStay, NobodyCrosses, UNCHANGED <<setup, rows, dropped, strays>>
  PROVE  UsageInv'
<1>1. CallsTell'
  BY CallsTellOn DEF NobodyCrosses, UsageInv
<1>2. setup.usage => UsageRows'
  BY NothingIsRecorded DEF NobodyCrosses, UsageInv
<1> QED BY <1>1, <1>2 DEF UsageInv

\* A denial is recorded, whatever it says.
LEMMA DenialKeepsUsage ==
  ASSUME UsageInv, CrossedStay, NobodyCrosses, UNCHANGED <<setup, strays>>,
         NEW row, row.is = "deny", Meter(row)
  PROVE  UsageInv'
<1>1. CallsTell'
  BY CallsTellOn DEF NobodyCrosses, UsageInv
<1>2. ASSUME setup.usage PROVE UsageRows'
  <2>1. Record(row) /\ UsageRows /\ CallsTell
    BY <1>2 DEF Meter, UsageInv
  <2>2. RowTells(row)'
    BY DEF RowTells
  <2>3. \A s \in strays' : s.id \in Requests => ~TellsDecision(row, s.id)'
    BY DEF TellsDecision, Decision
  <2> QED BY <2>1, <2>2, <2>3, OneIsRecorded DEF NobodyCrosses
<1> QED BY <1>1, <1>2 DEF UsageInv

\* One call changes, and what was told of it does not.
LEMMA OneChanges ==
  ASSUME ExportInv, NEW r \in Requests, ~Over(req[r]), NEW q, q.ask = req[r].ask,
         req' = [req EXCEPT ![r] = q],
         HasCrossed(r) =>
           q.pc \in {"sent", "settled", "rejected", "done"} /\ q.tenant = req[r].tenant
  PROVE  CrossedStay /\ req'[r] = q /\ \A x \in Requests : x # r => req'[x] = req[x]
BY DEF ExportInv, CrossedStay, HasCrossed, Over

\* A call that has not crossed is refused.
LEMMA RefusalKeepsUsage ==
  ASSUME ExportInv, UsageInv, NEW r \in Requests, ~Over(req[r]), ~HasCrossed(r), NEW q,
         q.ask = req[r].ask, q.pc = "refused", req' = [req EXCEPT ![r] = q],
         NEW row, row.is = "deny", Meter(row), UNCHANGED <<setup, strays>>
  PROVE  UsageInv'
<1>1. CrossedStay /\ req'[r] = q /\ \A x \in Requests : x # r => req'[x] = req[x]
  BY OneChanges
<1>2. NobodyCrosses
  BY <1>1 DEF NobodyCrosses, HasCrossed
<1> QED BY <1>1, <1>2, DenialKeepsUsage

\* refuse: a denial is recorded.
LEMMA RefuseKeepsUsage ==
  ASSUME ExportInv, UsageInv, NEW r \in Requests, ~Over(req[r]), ~HasCrossed(r), NEW error,
         NEW scope, NEW tenant, NEW policy, NEW ds, Refuse(r, error, scope, tenant, policy, ds),
         UNCHANGED <<setup, strays>>
  PROVE  UsageInv'
<1> DEFINE q == [req[r] EXCEPT !.pc = "refused", !.tenant = tenant, !.policy = policy, !.why = error]
<1>1. DOMAIN req = Requests /\ DOMAIN req[r] = CallFields
  BY DEF ExportInv
<1>2. req' = [req EXCEPT ![r] = q] /\ q.ask = req[r].ask /\ q.pc = "refused"
  BY <1>1 DEF Refuse, CallFields
<1>3. PICK row : row = Decision("deny", "", tenant, Key(r))
  OBVIOUS
<1>4. row.is = "deny" /\ Meter(row)
  BY <1>3 DEF Refuse, Decision
<1> HIDE DEF q
<1> QED BY <1>2, <1>4, RefusalKeepsUsage

\* A challenge is metered as a denial.
LEMMA ChallengeKeepsUsage ==
  ASSUME ExportInv, UsageInv, NEW r \in Requests, ~Over(req[r]), ~HasCrossed(r), NEW q,
         DOMAIN q = CallFields, q.ask = req[r].ask, NEW ds, Challenge(r, q, ds),
         UNCHANGED <<setup, strays>>
  PROVE  UsageInv'
<1> DEFINE p == [q EXCEPT !.pc = "refused", !.why = "require_approval"]
<1>1. req' = [req EXCEPT ![r] = p] /\ p.ask = req[r].ask /\ p.pc = "refused"
  BY DEF Challenge, CallFields
<1>2. PICK row : row = Decision("deny", "", q.tenant, Key(r))
  OBVIOUS
<1>3. row.is = "deny" /\ Meter(row)
  BY <1>2 DEF Challenge, Decision
<1> HIDE DEF p
<1> QED BY <1>1, <1>3, RefusalKeepsUsage

\* A frame crosses: its decision is recorded, and no answer of it has come.
LEMMA CrossesKeepsUsage ==
  ASSUME ExportInv, UsageInv, NEW r \in Requests, ~Over(req[r]), ~HasCrossed(r), NEW q,
         DOMAIN q = CallFields, q.ask = req[r].ask, NEW ds, Crosses(r, q, ds),
         UNCHANGED <<setup, strays>>
  PROVE  UsageInv'
<1> DEFINE p == [q EXCEPT !.pc = "sent"]
<1>1. req' = [req EXCEPT ![r] = p]
  BY DEF Crosses
<1>2. p.pc = "sent" /\ p.tenant = q.tenant /\ p.ask = req[r].ask
  BY DEF CallFields
<1> HIDE DEF p
<1>3. CrossedStay /\ req'[r] = p /\ \A x \in Requests : x # r => req'[x] = req[x]
  BY <1>1, <1>2, OneChanges
<1>4. CallsTell'
  BY <1>2, <1>3, CallsTellOn DEF UsageInv
<1>5. ASSUME setup.usage PROVE UsageRows'
  <2>1. PICK row : row = Decision("allow", r, q.tenant, Key(r))
    OBVIOUS
  <2>2. Record(row) /\ UsageRows /\ CallsTell
    BY <1>5, <2>1 DEF Crosses, Meter, UsageInv
  <2>3. TellsDecision(row, r)' /\ HasCrossed(r)'
    BY <1>2, <1>3, <2>1 DEF TellsDecision, HasCrossed, Key, Client
  <2>4. RowTells(row)'
    BY <2>3 DEF RowTells
  <2>5. ~\E i \in 1..Len(rows) : rows[i] = row
    <3>1. SUFFICES ASSUME RowTells(row) PROVE FALSE
      BY <2>2 DEF UsageRows
    <3>2. row.is = "allow" /\ row.phase = "decision" /\ row.id = r
      BY <2>1 DEF Decision
    <3>3. PICK x \in Requests : HasCrossed(x) /\ TellsDecision(row, x)
      BY <3>1, <3>2, RowFields DEF RowTells
    <3>4. x = r
      BY <3>2, <3>3, RowFields
    <3> QED BY <3>3, <3>4
  <2>6. \A x \in Requests : HasCrossed(x)' => HasCrossed(x) \/ TellsDecision(row, x)'
    <3>1. ASSUME NEW x \in Requests, x # r, HasCrossed(x)' PROVE HasCrossed(x)
      BY <1>3, <3>1 DEF HasCrossed
    <3> QED BY <2>3, <3>1
  <2>7. \A x \in Requests : req'[x].pc = "done" => req[x].pc = "done"
    BY <1>2, <1>3
  <2>8. \A s \in strays' : s.id \in Requests => ~TellsDecision(row, s.id)'
    <3>1. SUFFICES ASSUME NEW s \in strays, s.id \in Requests, TellsDecision(row, s.id)' PROVE FALSE
      OBVIOUS
    <3>2. s.id = r
      BY <2>1, <3>1 DEF TellsDecision, Decision
    <3> QED BY <2>2, <3>1, <3>2 DEF CallsTell
  <2> QED BY <1>3, <2>2, <2>4, <2>5, <2>6, <2>7, <2>8, OneIsRecorded
<1> QED BY <1>4, <1>5 DEF UsageInv

\* Approval, tracking and the frame.
LEMMA DispatchKeepsUsage ==
  ASSUME ExportInv, UsageInv, NEW r \in Requests, ~Over(req[r]), ~HasCrossed(r), NEW q,
         DOMAIN q = CallFields, q.ask = req[r].ask, NEW ds, Dispatch(r, q, ds),
         UNCHANGED <<setup, strays>>
  PROVE  UsageInv'
<1>1. \/ Challenge(r, q, ds) \/ Crosses(r, q, ds)
      \/ Refuse(r, "not_entitled", "", q.tenant, q.policy, ds)
      \/ Refuse(r, "no_agent", "", q.tenant, q.policy, ds)
  BY DEF Dispatch
<1> QED BY <1>1, ChallengeKeepsUsage, CrossesKeepsUsage, RefuseKeepsUsage

\* A call goes on to its live check, or is refused before anything is metered.
LEMMA UnmeteredKeepsUsage ==
  ASSUME ExportInv, UsageInv, NEW r \in Requests, ~Over(req[r]), ~HasCrossed(r), NEW q,
         q.ask = req[r].ask, q.pc \in {"refused", "checking"}, req' = [req EXCEPT ![r] = q],
         UNCHANGED <<setup, rows, dropped, strays>>
  PROVE  UsageInv'
<1>1. CrossedStay /\ req'[r] = q /\ \A x \in Requests : x # r => req'[x] = req[x]
  BY OneChanges
<1>2. NobodyCrosses
  BY <1>1 DEF NobodyCrosses, HasCrossed
<1> QED BY <1>1, <1>2, QuietKeepsUsage

\* The call of a tenant that is resolved.
LEMMA AdmittedKeepsUsage ==
  ASSUME ExportInv, UsageInv, NEW r \in Requests, ~Over(req[r]), ~HasCrossed(r), NEW t,
         Admitted(r, t), UNCHANGED <<setup, strays>>
  PROVE  UsageInv'
<1> DEFINE v == Verdict(t, Key(r))
           ds == AfterCheck(Key(r))
           q == [req[r] EXCEPT !.tenant = t, !.policy = PolicyOf[Client(r)], !.gen = agents[t].gen]
<1>1. DOMAIN q = CallFields /\ q.ask = req[r].ask
  BY DEF ExportInv, CallFields
<1>2. \/ Refuse(r, v.reason, v.scope, t, q.policy, ds)
      \/ Refuse(r, "no_agent", "", t, q.policy, ds)
      \/ /\ req' = [req EXCEPT ![r] = [q EXCEPT !.pc = "checking"]]
         /\ UNCHANGED ledgerVars
      \/ Dispatch(r, q, ds)
  BY DEF Admitted
<1> HIDE DEF q, v, ds
<1>3. CASE /\ req' = [req EXCEPT ![r] = [q EXCEPT !.pc = "checking"]]
           /\ UNCHANGED ledgerVars
  <2> DEFINE p == [q EXCEPT !.pc = "checking"]
  <2>1. p.ask = req[r].ask /\ p.pc = "checking" /\ req' = [req EXCEPT ![r] = p]
    BY <1>1, <1>3 DEF CallFields
  <2> HIDE DEF p
  <2> QED BY <1>3, <2>1, UnmeteredKeepsUsage DEF ledgerVars
<1>4. CASE Dispatch(r, q, ds)
  BY <1>1, <1>4, DispatchKeepsUsage
<1> QED BY <1>2, <1>3, <1>4, RefuseKeepsUsage

\* A call arrives.
LEMMA ArriveKeepsUsage ==
  ASSUME ExportInv, UsageInv, NEW r \in Requests, Arrive(r)
  PROVE  UsageInv'
<1> DEFINE c == Client(r)
           t == RouteTenant(c, req[r].ask.hint)
<1>1. ~Over(req[r]) /\ ~HasCrossed(r) /\ UNCHANGED <<setup, strays>>
  BY DEF Arrive, Over, HasCrossed
<1>2. \/ /\ req' = [req EXCEPT ![r].pc = "refused", ![r].why = "invalid_token"]
         /\ UNCHANGED ledgerVars
      \/ Refuse(r, "offboarded", "", Attributed(c), "", denials)
      \/ Refuse(r, "not_entitled", "", Attributed(c), "", denials)
      \/ Refuse(r, "not_entitled", "", Attributed(c), PolicyOf[c], denials)
      \/ Admitted(r, t)
  BY DEF Arrive
<1> HIDE DEF c, t
<1>3. CASE /\ req' = [req EXCEPT ![r].pc = "refused", ![r].why = "invalid_token"]
           /\ UNCHANGED ledgerVars
  <2> DEFINE p == [req[r] EXCEPT !.pc = "refused", !.why = "invalid_token"]
  <2>1. p.ask = req[r].ask /\ p.pc = "refused" /\ req' = [req EXCEPT ![r] = p]
    BY <1>3 DEF CallFields, ExportInv
  <2> HIDE DEF p
  <2> QED BY <1>1, <1>3, <2>1, UnmeteredKeepsUsage DEF ledgerVars
<1>4. CASE Admitted(r, t)
  BY <1>1, <1>4, AdmittedKeepsUsage
<1> QED BY <1>1, <1>2, <1>3, <1>4, RefuseKeepsUsage

\* The live check of a call ends.
LEMMA CheckedKeepsUsage ==
  ASSUME ExportInv, UsageInv, NEW r \in Requests, Checked(r)
  PROVE  UsageInv'
<1>1. ~Over(req[r]) /\ ~HasCrossed(r) /\ UNCHANGED <<setup, strays>>
  BY DEF Checked, Over, HasCrossed
<1>2. DOMAIN req = Requests /\ DOMAIN req[r] = CallFields
  BY DEF ExportInv
<1>3. CASE Dispatch(r, req[r], denials)
  BY <1>1, <1>2, <1>3, DispatchKeepsUsage
<1>4. CASE ~Dispatch(r, req[r], denials)
  <2> DEFINE q == [req[r] EXCEPT !.pc = "refused", !.why = "token"]
  <2>1. req' = [req EXCEPT ![r] = q] /\ q.ask = req[r].ask /\ q.pc = "refused"
    BY <1>2, <1>4 DEF Checked, CallFields
  <2>2. PICK row : row = Decision("deny", "", req[r].tenant, Key(r))
    OBVIOUS
  <2>3. row.is = "deny" /\ Meter(row)
    BY <1>4, <2>2 DEF Checked, Decision
  <2> HIDE DEF q
  <2> QED BY <1>1, <2>1, <2>3, RefusalKeepsUsage
<1> QED BY <1>3, <1>4

\* The wait of a call is over: its receipt is recorded, once.
LEMMA SettleKeepsUsage ==
  ASSUME ExportInv, UsageInv, NEW r \in Requests, Settle(r)
  PROVE  UsageInv'
<1>1. ~Over(req[r]) /\ HasCrossed(r) /\ UNCHANGED <<setup, strays>>
  BY DEF Settle, Over, HasCrossed
<1>2. DOMAIN req = Requests /\ DOMAIN req[r] = CallFields
  BY DEF ExportInv
<1>3. PICK out \in Outcomes(r) :
        /\ Meter(Receipt(0, out, r, r, req[r].tenant, Key(r)))
        /\ req' = [req EXCEPT ![r].pc = "done", ![r].out = out]
  BY DEF Settle
<1> DEFINE q == [req[r] EXCEPT !.pc = "done", !.out = out]
<1>4. req' = [req EXCEPT ![r] = q]
  BY <1>2, <1>3
<1>5. q.pc = "done" /\ q.out = out /\ q.ask = req[r].ask /\ q.tenant = req[r].tenant
  BY <1>2 DEF CallFields
<1>6. out \in {"ok", "failed", "unknown"}
  BY DEF Outcomes, Settle
<1> HIDE DEF q
<1>7. CrossedStay /\ req'[r] = q /\ \A x \in Requests : x # r => req'[x] = req[x]
  BY <1>1, <1>4, <1>5, OneChanges
<1>8. CallsTell'
  BY <1>1, <1>5, <1>6, <1>7, CallsTellOn DEF UsageInv
<1>9. ASSUME setup.usage PROVE UsageRows'
  <2>1. PICK row : row = Receipt(0, out, r, r, req[r].tenant, Key(r))
    OBVIOUS
  <2>2. Record(row) /\ UsageRows /\ CallsTell
    BY <1>3, <1>9, <2>1 DEF Meter, UsageInv
  <2>3. TellsReceipt(row, r)' /\ req'[r].pc = "done"
    BY <1>5, <1>7, <2>1 DEF TellsReceipt, Key, Client
  <2>4. RowTells(row)'
    BY <2>3 DEF RowTells
  <2>5. row.is = out /\ row.phase = "receipt" /\ row.id = r /\ row.of = r
    BY <2>1 DEF Receipt
  <2>6. r # ""
    BY AccountingAssumption, LedgerAssumption
  <2>7. ~\E i \in 1..Len(rows) : rows[i] = row
    <3>1. SUFFICES ASSUME RowTells(row) PROVE FALSE
      BY <2>2 DEF UsageRows
    <3>2. PICK x \in Requests : req[x].pc = "done" /\ TellsReceipt(row, x)
      BY <1>6, <2>5, <2>6, <3>1, RowFields DEF RowTells
    <3>3. x = r
      BY <2>5, <3>2, RowFields
    <3> QED BY <1>1, <3>2, <3>3 DEF Over
  <2>8. \A x \in Requests : HasCrossed(x)' => HasCrossed(x) \/ TellsDecision(row, x)'
    <3>1. ASSUME NEW x \in Requests, x # r, HasCrossed(x)' PROVE HasCrossed(x)
      BY <1>7, <3>1 DEF HasCrossed
    <3> QED BY <1>1, <3>1
  <2>9. \A x \in Requests : req'[x].pc = "done" => req[x].pc = "done" \/ TellsReceipt(row, x)'
    <3>1. ASSUME NEW x \in Requests, x # r, req'[x].pc = "done" PROVE req[x].pc = "done"
      BY <1>7, <3>1
    <3> QED BY <2>3, <3>1
  <2>10. \A s \in strays' : s.id \in Requests => ~TellsDecision(row, s.id)'
    BY <2>5 DEF TellsDecision, Decision
  <2>11. strays' = strays
    BY <1>1
  <2> QED BY <1>7, <2>2, <2>4, <2>7, <2>8, <2>9, <2>10, <2>11, OneIsRecorded
<1> QED BY <1>1, <1>8, <1>9 DEF UsageInv

\* Calls that wait are rejected.
LEMMA RejectKeepsUsage ==
  ASSUME ExportInv, UsageInv, NEW R, \A r \in R : req[r].pc = "sent", Reject(R),
         UNCHANGED <<setup, rows, dropped, strays>>
  PROVE  UsageInv'
<1>1. \A r \in Requests :
        \/ req'[r] = req[r]
        \/ /\ req[r].pc = "sent" /\ req'[r].pc = "rejected"
           /\ req'[r].ask = req[r].ask /\ req'[r].tenant = req[r].tenant
  <2>1. \A r \in Requests : DOMAIN req[r] = CallFields
    BY DEF ExportInv
  <2> QED BY <2>1 DEF Reject, CallFields
<1>2. CrossedStay
  BY <1>1 DEF CrossedStay, HasCrossed
<1>3. NobodyCrosses
  <2>1. ASSUME NEW r \in Requests
        PROVE  (HasCrossed(r)' => HasCrossed(r)) /\ (req'[r].pc = "done" => req[r].pc = "done")
    BY <1>1 DEF HasCrossed
  <2> QED BY <2>1 DEF NobodyCrosses
<1> QED BY <1>2, <1>3, QuietKeepsUsage

\* A frame of an agent settles a call that waits, or is recorded as nobody's.
LEMMA ResponseKeepsUsage ==
  ASSUME ExportInv, UsageInv, NEW t \in Tenants, NEW id \in FrameIds, NEW status,
         Response(t, id, status)
  PROVE  UsageInv'
<1>1. CASE id \in PendingOf(t)
  <2> DEFINE q == [req[id] EXCEPT !.pc = "settled", !.status = status]
  <2>1. id \in Requests /\ ~Over(req[id]) /\ HasCrossed(id)
    BY <1>1 DEF PendingOf, Over, HasCrossed
  <2>2. /\ req' = [req EXCEPT ![id] = q]
        /\ q.ask = req[id].ask /\ q.pc = "settled" /\ q.tenant = req[id].tenant
    BY <1>1, <2>1 DEF Response, ExportInv, CallFields
  <2> HIDE DEF q
  <2>3. CrossedStay /\ req'[id] = q /\ \A x \in Requests : x # id => req'[x] = req[x]
    BY <2>1, <2>2, OneChanges
  <2>4. NobodyCrosses
    <3>1. ASSUME NEW r \in Requests
          PROVE  (HasCrossed(r)' => HasCrossed(r)) /\ (req'[r].pc = "done" => req[r].pc = "done")
      BY <2>1, <2>2, <2>3 DEF HasCrossed
    <3> QED BY <3>1 DEF NobodyCrosses
  <2> QED BY <1>1, <2>3, <2>4, QuietKeepsUsage DEF Response, ledgerVars
<1>2. CASE id \notin PendingOf(t)
  <2>1. IsFiniteSet(strays) /\ Cardinality(strays) \in Nat
    BY FS_CardinalityType DEF UsageInv, CallsTell
  <2>2. PICK m \in Nat : m = Cardinality(strays)
    BY <2>1
  <2>3. PICK s : s = [tenant |-> t, id |-> id, no |-> m + 1]
    OBVIOUS
  <2>4. s.tenant = t /\ s.id = id /\ s.no = m + 1 /\ s \in [tenant : Tenants, id : FrameIds, no : Nat]
    <3>1. m + 1 \in Nat
      BY <2>2
    <3> QED BY <2>3, <3>1
  <2>5. strays' = strays \cup {s} /\ UNCHANGED <<req, setup>> /\ (id \in Requests => HasCrossed(id))
    BY <1>2, <2>2, <2>3 DEF Response, HasCrossed
  <2>6. \A x \in strays : x.no \in Nat /\ x.no <= m
    BY <2>2 DEF UsageInv, CallsTell
  <2>7. s \notin strays
    BY <2>2, <2>4, <2>6
  <2>8. CrossedStay
    BY <2>5 DEF CrossedStay, HasCrossed
  <2>9. CallsTell'
    <3>1. CallsTell
      BY DEF UsageInv
    <3>2. ASSUME NEW x \in strays', x.id \in Requests PROVE HasCrossed(x.id)'
      <4>1. HasCrossed(x.id)
        BY <2>4, <2>5, <3>1, <3>2 DEF CallsTell
      <4> QED BY <2>5, <4>1 DEF HasCrossed
    <3>3. IsFiniteSet(strays') /\ Cardinality(strays') = m + 1
      BY <2>1, <2>2, <2>5, <2>7, FS_AddElement
    <3>4. \A x \in strays' : x.no <= m + 1
      BY <2>2, <2>4, <2>5, <2>6
    <3>5. \A x, y \in strays' : x.no = y.no => x = y
      <4>1. \A x, y \in strays : x.no = y.no => x = y
        BY <3>1 DEF CallsTell
      <4>2. \A x \in strays : x.no # s.no
        BY <2>2, <2>4, <2>6
      <4> QED BY <2>5, <4>1, <4>2
    <3>6. strays' \subseteq [tenant : Tenants, id : FrameIds, no : Nat]
      BY <2>4, <2>5, <3>1 DEF CallsTell
    <3>7. \A r \in Requests : req'[r].pc = "done" => req'[r].out \in {"ok", "failed", "unknown"}
      BY <2>5, <3>1 DEF CallsTell
    <3> QED BY <3>2, <3>3, <3>4, <3>5, <3>6, <3>7 DEF CallsTell
  <2>10. ASSUME setup.usage PROVE UsageRows'
    <3>1. PICK row : row = Receipt(m + 1, "unknown", id, "", t, "")
      OBVIOUS
    <3>2. Record(row) /\ UsageRows /\ CallsTell
      BY <1>2, <2>2, <2>10, <3>1 DEF Response, Meter, UsageInv
    <3>3. TellsStray(row, s)
      BY <2>4, <3>1 DEF TellsStray
    <3>4. /\ row.is = "unknown" /\ row.phase = "receipt" /\ row.id = id /\ row.of = ""
          /\ row.tenant = t /\ row.no = m + 1
      BY <3>1 DEF Receipt
    <3>5. RowTells(row)'
      BY <2>5, <3>3 DEF RowTells, TellsStray
    <3>6. ~\E i \in 1..Len(rows) : rows[i] = row
      <4>1. SUFFICES ASSUME RowTells(row) PROVE FALSE
        BY <3>2 DEF UsageRows
      <4>2. \A x \in Requests : x # ""
        BY AccountingAssumption, LedgerAssumption
      <4>3. PICK x \in strays : TellsStray(row, x)
        BY <3>4, <4>1, <4>2, RowFields DEF RowTells
      <4>4. x.no = m + 1
        BY <3>4, <4>3, StrayFields
      <4> QED BY <2>2, <2>6, <4>4
    <3>7. \A x \in Requests : HasCrossed(x)' => HasCrossed(x)
      BY <2>5 DEF HasCrossed
    <3>8. \A x : ~TellsDecision(row, x)'
      BY <3>4, ReceiptDecidesNothing
    <3> QED BY <2>5, <2>8, <3>2, <3>3, <3>5, <3>6, <3>7, <3>8, OneIsRecorded
  <2> QED BY <2>5, <2>9, <2>10 DEF UsageInv
<1> QED BY <1>1, <1>2

---------------------------------------------------------------------------
(* Reading the ledger *)

\* The rows of one chain, as a reader of tenant t finds them: the decision and the
\* receipt of a call to the tenant, and stray answers.
LEMMA RowsOfAChain ==
  ASSUME UsageRows, CallsTell, NEW t, NEW key, NEW id
  PROVE  LET ds == ChainRows(Query(t, key), id, "decision")
             rs == ChainRows(Query(t, key), id, "receipt")
         IN  /\ \A i \in ds : id \in Crossed(t, key) /\ i \in 1..Len(rows) /\ TellsDecision(rows[i], id)
             /\ \A i \in rs :
                  \/ /\ id \in Crossed(t, key) /\ req[id].pc = "done"
                     /\ TellsReceipt(rows[i], id)
                  \/ \E s \in Strayed(id, t, key) : TellsStray(rows[i], s)
             /\ id \in Crossed(t, key) =>
                  \A i \in 1..Len(rows) : TellsDecision(rows[i], id) => i \in ds
             /\ id \in Crossed(t, key) /\ req[id].pc = "done" =>
                  \A i \in 1..Len(rows) : TellsReceipt(rows[i], id) => i \in rs
             /\ \A s \in Strayed(id, t, key), i \in 1..Len(rows) : TellsStray(rows[i], s) => i \in rs
             /\ ~Several(ds)
             /\ \A i, j \in rs :
                  TellsReceipt(rows[i], id) /\ TellsReceipt(rows[j], id) => i = j
             /\ \A i, j \in rs, s \in strays :
                  TellsStray(rows[i], s) /\ TellsStray(rows[j], s) => i = j
<1> DEFINE ds == ChainRows(Query(t, key), id, "decision")
           rs == ChainRows(Query(t, key), id, "receipt")
           n == Len(rows)
<1>1. DOMAIN rows = 1..n /\ n \in Nat
  BY LenProperties DEF UsageRows, IsSeq
<1> HIDE DEF n
<1>2. \A i \in 1..n : RowTells(rows[i])
  BY DEF UsageRows, n
<1>3. \A i, j \in 1..n : rows[i] = rows[j] /\ rows[i].is # "deny" => i = j
  BY DEF UsageRows, ToldOnce, n
<1>4. \A i : i \in ds <=> /\ i \in 1..n /\ rows[i].tenant = t /\ key \in {"", rows[i].key}
                          /\ rows[i].is # "deny" /\ rows[i].id = id /\ rows[i].phase = "decision"
  BY <1>1 DEF ChainRows, Query
<1>5. \A i : i \in rs <=> /\ i \in 1..n /\ rows[i].tenant = t /\ key \in {"", rows[i].key}
                          /\ rows[i].is # "deny" /\ rows[i].id = id /\ rows[i].phase = "receipt"
  BY <1>1 DEF ChainRows, Query
<1> HIDE DEF ds, rs
<1>9. ASSUME NEW i \in ds PROVE id \in Crossed(t, key) /\ TellsDecision(rows[i], id)
  <2>1. RowTells(rows[i]) /\ rows[i].is # "deny" /\ rows[i].phase = "decision" /\ rows[i].id = id
    BY <1>2, <1>4
  <2>2. PICK r \in Requests : HasCrossed(r) /\ TellsDecision(rows[i], r)
    BY <2>1, RowFields DEF RowTells
  <2>3. r = id
    BY <2>1, <2>2, DecisionFields
  <2>4. TellsDecision(rows[i], id)
    BY <2>2, <2>3
  <2>5. rows[i].tenant = req[id].tenant /\ rows[i].key = Key(id)
    BY <2>4, DecisionFields
  <2>6. rows[i].tenant = t /\ key \in {"", rows[i].key}
    BY <1>4
  <2> QED BY <2>2, <2>3, <2>4, <2>5, <2>6 DEF Crossed, HasCrossed
<1>10. ASSUME NEW i \in rs
       PROVE  \/ id \in Crossed(t, key) /\ req[id].pc = "done" /\ TellsReceipt(rows[i], id)
              \/ \E s \in Strayed(id, t, key) : TellsStray(rows[i], s)
  <2>1. RowTells(rows[i]) /\ rows[i].is # "deny" /\ rows[i].phase = "receipt" /\ rows[i].id = id
    BY <1>2, <1>5
  <2>2. CASE \E r \in Requests : req[r].pc = "done" /\ TellsReceipt(rows[i], r)
    <3>1. PICK r \in Requests : req[r].pc = "done" /\ TellsReceipt(rows[i], r)
      BY <2>2
    <3>2. r = id
      BY <2>1, <3>1, ReceiptFields
    <3>3. TellsReceipt(rows[i], id)
      BY <3>1, <3>2
    <3>4. rows[i].tenant = req[id].tenant /\ rows[i].key = Key(id)
      BY <3>3, ReceiptFields
    <3>5. rows[i].tenant = t /\ key \in {"", rows[i].key}
      BY <1>5
    <3> QED BY <3>1, <3>2, <3>3, <3>4, <3>5 DEF Crossed
  <2>3. CASE \E s \in strays : TellsStray(rows[i], s)
    <3>1. PICK s \in strays : TellsStray(rows[i], s)
      BY <2>3
    <3>2. s.tenant = t /\ s.id = id
      <4>1. rows[i].tenant = s.tenant /\ rows[i].id = s.id
        BY <3>1, StrayFields
      <4> QED BY <1>5, <2>1, <4>1
    <3>3. key = ""
      <4>1. rows[i].key = ""
        BY <3>1, StrayFields
      <4> QED BY <1>5, <4>1
    <3> QED BY <3>1, <3>2, <3>3 DEF Strayed
  <2>4. ~\E r \in Requests : TellsDecision(rows[i], r)
    BY <2>1, RowFields
  <2> QED BY <2>1, <2>2, <2>3, <2>4 DEF RowTells
<1>11. ASSUME id \in Crossed(t, key), NEW i \in 1..n, TellsDecision(rows[i], id) PROVE i \in ds
  <2>1. /\ rows[i].is = "allow" /\ rows[i].phase = "decision" /\ rows[i].id = id
        /\ rows[i].tenant = req[id].tenant /\ rows[i].key = Key(id)
    BY <1>11, DecisionFields
  <2>2. req[id].tenant = t /\ key \in {"", Key(id)}
    BY <1>11 DEF Crossed
  <2> QED BY <1>4, <1>11, <2>1, <2>2
<1>12. ASSUME id \in Crossed(t, key), req[id].pc = "done", NEW i \in 1..n, TellsReceipt(rows[i], id)
       PROVE  i \in rs
  <2>1. req[id].out \in {"ok", "failed", "unknown"}
    BY <1>12 DEF CallsTell, Crossed
  <2>2. /\ rows[i].phase = "receipt" /\ rows[i].is = req[id].out /\ rows[i].id = id
        /\ rows[i].tenant = req[id].tenant /\ rows[i].key = Key(id)
    BY <1>12, ReceiptFields
  <2>3. req[id].tenant = t /\ key \in {"", Key(id)}
    BY <1>12 DEF Crossed
  <2> QED BY <1>5, <1>12, <2>1, <2>2, <2>3
<1>13. ASSUME NEW s \in Strayed(id, t, key), NEW i \in 1..n, TellsStray(rows[i], s) PROVE i \in rs
  <2>1. key = "" /\ s.tenant = t /\ s.id = id
    BY <1>13 DEF Strayed
  <2>2. /\ rows[i].phase = "receipt" /\ rows[i].is = "unknown" /\ rows[i].id = s.id
        /\ rows[i].tenant = s.tenant /\ rows[i].key = ""
    BY <1>13, StrayFields
  <2> QED BY <1>5, <1>13, <2>1, <2>2
<1>14. ASSUME NEW i \in ds, NEW j \in ds PROVE i = j
  <2>1. rows[i] = rows[j]
    BY <1>9 DEF TellsDecision
  <2> QED BY <1>3, <1>4, <2>1
<1>15. ASSUME NEW i \in rs, NEW j \in rs, TellsReceipt(rows[i], id), TellsReceipt(rows[j], id) PROVE i = j
  <2>1. rows[i] = rows[j]
    BY <1>15 DEF TellsReceipt
  <2> QED BY <1>3, <1>5, <2>1
<1>16. ASSUME NEW i \in rs, NEW j \in rs, NEW s, TellsStray(rows[i], s), TellsStray(rows[j], s)
       PROVE  i = j
  <2>1. rows[i] = rows[j]
    BY <1>16 DEF TellsStray
  <2> QED BY <1>3, <1>5, <2>1
<1>17. \A i \in ds : i \in 1..n
  BY <1>4
<1>18. ~Several(ds)
  BY <1>14 DEF Several
<1> QED BY <1>9, <1>10, <1>11, <1>12, <1>13, <1>15, <1>16, <1>17, <1>18 DEF ds, rs, n

\* A row tells of one stray answer.
LEMMA OneStray ==
  ASSUME CallsTell, NEW row, NEW s \in strays, NEW x \in strays, TellsStray(row, s), TellsStray(row, x)
  PROVE  s = x
<1>1. s.no = x.no
  BY StrayFields
<1> QED BY <1>1 DEF CallsTell

\* Before a row is dropped each stray answer is in its chain, and two are two rows.
LEMMA StraysOfAChain ==
  ASSUME UsageRows, CallsTell, AllTold, NEW t, NEW key, NEW id
  PROVE  LET answers == Strayed(id, t, key)
             rs == ChainRows(Query(t, key), id, "receipt")
         IN  /\ \A s \in answers : \E i \in rs : TellsStray(rows[i], s)
             /\ Several(answers) => Several(rs)
             /\ (\A i \in rs : \E s \in answers : TellsStray(rows[i], s)) /\ ~Several(answers)
                  => ~Several(rs)
<1> DEFINE answers == Strayed(id, t, key)
           rs == ChainRows(Query(t, key), id, "receipt")
<1>1. answers \subseteq strays
  BY DEF Strayed
<1>2. ASSUME NEW s \in answers PROVE \E i \in rs : TellsStray(rows[i], s)
  <2>1. PICK i \in 1..Len(rows) : TellsStray(rows[i], s)
    BY <1>1, <1>2 DEF AllTold
  <2> QED BY <2>1, RowsOfAChain
<1>3. \A i, j \in rs, s \in strays : TellsStray(rows[i], s) /\ TellsStray(rows[j], s) => i = j
  BY RowsOfAChain
<1> HIDE DEF answers, rs
<1>4. ASSUME Several(answers) PROVE Several(rs)
  <2>1. PICK s \in answers, x \in answers : s # x
    BY <1>4 DEF Several
  <2>2. PICK i \in rs : TellsStray(rows[i], s)
    BY <1>2
  <2>3. PICK j \in rs : TellsStray(rows[j], x)
    BY <1>2
  <2>4. i # j
    <3>1. SUFFICES ASSUME i = j PROVE FALSE
      OBVIOUS
    <3>2. TellsStray(rows[i], x)
      BY <2>3, <3>1
    <3> QED BY <1>1, <2>1, <2>2, <3>2, OneStray
  <2> QED BY <2>4 DEF Several
<1>5. ASSUME \A i \in rs : \E s \in answers : TellsStray(rows[i], s), ~Several(answers)
      PROVE  ~Several(rs)
  <2>1. ASSUME NEW i \in rs, NEW j \in rs PROVE i = j
    <3>1. PICK s \in answers : TellsStray(rows[i], s)
      BY <1>5
    <3>2. PICK x \in answers : TellsStray(rows[j], x)
      BY <1>5
    <3>3. s = x
      BY <1>5 DEF Several
    <3> QED BY <1>1, <1>3, <3>1, <3>2, <3>3
  <2> QED BY <2>1 DEF Several
<1> QED BY <1>2, <1>4, <1>5 DEF answers, rs

\* A chain is settled only if the call it is of is, however many rows were dropped.
LEMMA SettledIsSettled ==
  ASSUME UsageRows, CallsTell, NEW t, NEW key, NEW id, Chain(Query(t, key), id) = "settled"
  PROVE  id \in Crossed(t, key) /\ Truth(id, t, key) = "settled"
<1> DEFINE ds == ChainRows(Query(t, key), id, "decision")
           rs == ChainRows(Query(t, key), id, "receipt")
<1>1. ~Several(rs) /\ \E d \in ds, r \in rs : Agree(d, r)
  BY DEF Chain
<1>2. PICK d \in ds, r \in rs : Agree(d, r)
  BY <1>1
<1>3. id \in Crossed(t, key) /\ d \in 1..Len(rows) /\ TellsDecision(rows[d], id)
  BY RowsOfAChain
<1>4. rows[r].is # "unknown"
  BY <1>2 DEF Agree
<1>5. req[id].pc = "done" /\ TellsReceipt(rows[r], id)
  <2>1. \/ req[id].pc = "done" /\ TellsReceipt(rows[r], id)
        \/ \E s \in Strayed(id, t, key) : TellsStray(rows[r], s)
    BY RowsOfAChain
  <2> QED BY <1>4, <2>1, RowFields
<1>6. Strayed(id, t, key) = {}
  <2>1. SUFFICES ASSUME NEW s \in Strayed(id, t, key) PROVE FALSE
    OBVIOUS
  <2>2. s \in strays /\ s.id = id /\ id \in Requests
    BY <1>3 DEF Crossed, Strayed
  <2>3. PICK j \in d..Len(rows) : TellsStray(rows[j], s)
    BY <1>3, <2>2 DEF UsageRows, StraysAfter
  <2>4. j \in 1..Len(rows)
    BY <1>3, LenProperties DEF UsageRows, IsSeq
  <2>5. j \in rs
    BY <2>3, <2>4, RowsOfAChain
  <2>6. j # r
    <3>1. rows[j].is = "unknown"
      BY <2>3, StrayFields
    <3> QED BY <1>4, <3>1
  <2> QED BY <1>1, <2>5, <2>6 DEF Several
<1>7. req[id].out # "unknown"
  BY <1>4, <1>5, ReceiptFields
<1> QED BY <1>3, <1>5, <1>6, <1>7 DEF Truth, Several

\* Before a row is dropped every call of the tenant has the chain it should have.
LEMMA EveryCallIsTold ==
  ASSUME UsageRows, CallsTell, AllTold, NEW t, NEW key, NEW id \in Crossed(t, key)
  PROVE  id \in Chained(Query(t, key)) /\ Chain(Query(t, key), id) = Truth(id, t, key)
<1> DEFINE ds == ChainRows(Query(t, key), id, "decision")
           rs == ChainRows(Query(t, key), id, "receipt")
           done == req[id].pc = "done"
           answers == Strayed(id, t, key)
<1>1. id \in Requests /\ HasCrossed(id)
  BY DEF Crossed, HasCrossed
<1>2. PICK d \in 1..Len(rows) : TellsDecision(rows[d], id)
  BY <1>1 DEF AllTold
<1>3. d \in ds /\ ~Several(ds)
  BY <1>2, RowsOfAChain
<1>4. id # ""
  BY <1>1, AccountingAssumption, LedgerAssumption
<1>5. id \in Chained(Query(t, key))
  BY <1>3, <1>4 DEF Chained, ChainRows
<1>6. done => \E i \in rs : TellsReceipt(rows[i], id)
  <2>1. SUFFICES ASSUME done PROVE \E i \in rs : TellsReceipt(rows[i], id)
    OBVIOUS
  <2>2. PICK i \in 1..Len(rows) : TellsReceipt(rows[i], id)
    BY <1>1, <2>1 DEF AllTold
  <2> QED BY <2>1, <2>2, RowsOfAChain
<1>7. \A s \in answers : \E i \in rs : TellsStray(rows[i], s)
  BY StraysOfAChain
<1>8. \A i \in rs : (done /\ TellsReceipt(rows[i], id)) \/ \E s \in answers : TellsStray(rows[i], s)
  BY RowsOfAChain
<1>9. \A i, j \in rs : TellsReceipt(rows[i], id) /\ TellsReceipt(rows[j], id) => i = j
  BY RowsOfAChain
<1>10. ASSUME NEW i, NEW s, TellsReceipt(rows[i], id), TellsStray(rows[i], s) PROVE FALSE
  <2>1. rows[i].of = id
    BY <1>10, RowFields
  <2>2. rows[i].of = ""
    BY <1>10, RowFields
  <2> QED BY <1>4, <2>1, <2>2
<1>11. \A i : TellsReceipt(rows[i], id) => (Agree(d, i) <=> req[id].out # "unknown")
  <2>1. rows[d].tenant = req[id].tenant /\ rows[d].of = id
    BY <1>2 DEF TellsDecision, Decision
  <2>2. ASSUME NEW i, TellsReceipt(rows[i], id)
        PROVE  rows[i].tenant = req[id].tenant /\ rows[i].of = id /\ rows[i].is = req[id].out
    BY <2>2 DEF TellsReceipt, Receipt
  <2> QED BY <2>1, <2>2 DEF Agree
<1>12. \A i, s : TellsStray(rows[i], s) => ~Agree(d, i)
  BY RowFields DEF Agree
<1>13. \A x \in ds : x = d
  BY <1>3 DEF Several
<1>14. Chain(Query(t, key), id) =
         IF Several(rs) THEN "duplicate"
         ELSE IF rs = {} THEN "missing"
         ELSE IF \E r \in rs : Agree(d, r) THEN "settled" ELSE "uncertain"
  <2>1. ds # {} /\ ((\E x \in ds, r \in rs : Agree(x, r)) <=> \E r \in rs : Agree(d, r))
    BY <1>3, <1>13
  <2> QED BY <1>3, <2>1 DEF Chain
<1>15. /\ Several(answers) => Several(rs)
       /\ (\A i \in rs : \E s \in answers : TellsStray(rows[i], s)) /\ ~Several(answers) => ~Several(rs)
  BY StraysOfAChain
<1>16. Truth(id, t, key) =
         CASE Several(answers) \/ (done /\ answers # {}) -> "duplicate"
           [] ~done /\ answers # {} /\ ~Several(answers) -> "uncertain"
           [] done /\ answers = {} -> IF req[id].out = "unknown" THEN "uncertain" ELSE "settled"
           [] OTHER -> "missing"
  BY DEF Truth
<1> HIDE DEF ds, rs, answers, done
<1>17. CASE Several(answers)
  <2>1. Truth(id, t, key) = "duplicate"
    BY <1>16, <1>17 DEF Several
  <2> QED BY <1>5, <1>14, <1>15, <1>17, <2>1
<1>18. CASE done /\ answers # {}
  <2>1. PICK i \in rs : TellsReceipt(rows[i], id)
    BY <1>6, <1>18
  <2>2. PICK s \in answers : TRUE
    BY <1>18
  <2>3. PICK j \in rs : TellsStray(rows[j], s)
    BY <1>7
  <2>4. Several(rs)
    BY <1>10, <2>1, <2>3 DEF Several
  <2>5. Truth(id, t, key) = "duplicate"
    BY <1>16, <1>18
  <2> QED BY <1>5, <1>14, <2>4, <2>5
<1>19. CASE done /\ answers = {}
  <2>1. PICK i \in rs : TellsReceipt(rows[i], id)
    BY <1>6, <1>19
  <2>2. \A j \in rs : j = i
    BY <1>8, <1>9, <1>19, <2>1
  <2>3. ~Several(rs) /\ rs # {} /\ ~Several(answers)
    BY <1>19, <2>2 DEF Several
  <2>4. (\E r \in rs : Agree(d, r)) <=> req[id].out # "unknown"
    BY <1>11, <2>1, <2>2
  <2>5. Truth(id, t, key) = IF req[id].out = "unknown" THEN "uncertain" ELSE "settled"
    BY <1>16, <1>19, <2>3
  <2> QED BY <1>5, <1>14, <2>3, <2>4, <2>5
<1>20. CASE ~done /\ answers # {} /\ ~Several(answers)
  <2>1. \A i \in rs : \E s \in answers : TellsStray(rows[i], s)
    BY <1>8, <1>20
  <2>2. ~Several(rs)
    BY <1>15, <1>20, <2>1
  <2>3. rs # {} /\ ~\E r \in rs : Agree(d, r)
    BY <1>7, <1>12, <1>20, <2>1
  <2>4. Truth(id, t, key) = "uncertain"
    BY <1>16, <1>20
  <2> QED BY <1>5, <1>14, <2>2, <2>3, <2>4
<1>21. CASE ~done /\ answers = {}
  <2>1. rs = {}
    BY <1>8, <1>21
  <2>2. ~Several(rs) /\ ~Several(answers)
    BY <1>21, <2>1 DEF Several
  <2>3. Truth(id, t, key) = "missing"
    BY <1>16, <1>21, <2>2
  <2> QED BY <1>5, <1>14, <2>1, <2>2, <2>3
<1> QED BY <1>17, <1>18, <1>19, <1>20, <1>21

\* A chain of anything else lacks its decision, unless several answers are in it.
LEMMA OthersLackADecision ==
  ASSUME UsageRows, CallsTell, AllTold, NEW t, NEW key, NEW id, id \notin Crossed(t, key)
  PROVE  Chain(Query(t, key), id) = Truth(id, t, key)
<1> DEFINE ds == ChainRows(Query(t, key), id, "decision")
           rs == ChainRows(Query(t, key), id, "receipt")
           answers == Strayed(id, t, key)
<1>1. ds = {} /\ ~Several(ds)
  BY RowsOfAChain
<1>2. \A i \in rs : \E s \in answers : TellsStray(rows[i], s)
  BY RowsOfAChain
<1>3. /\ Several(answers) => Several(rs)
      /\ (\A i \in rs : \E s \in answers : TellsStray(rows[i], s)) /\ ~Several(answers) => ~Several(rs)
  BY StraysOfAChain
<1>4. Chain(Query(t, key), id) = IF Several(rs) THEN "duplicate" ELSE "missing"
  BY <1>1 DEF Chain
<1>5. Truth(id, t, key) = IF Several(answers) THEN "duplicate" ELSE "missing"
  BY DEF Truth
<1> QED BY <1>2, <1>3, <1>4, <1>5

---------------------------------------------------------------------------
(* The theorems of the ledger *)

\* Nothing is recorded yet.
LEMMA InitTells ==
  ASSUME Init
  PROVE  UsageInv
<1>1. PICK s \in Scenarios :
        /\ req = [r \in Requests |-> NewCall(s.calls[r])]
        /\ rows = <<>> /\ dropped = 0 /\ strays = {}
  BY DEF Init, LedgerInit
<1>2. \A r \in Requests : req[r].pc = "new"
  BY <1>1 DEF NewCall
<1>3. <<>> \in Seq({}) /\ Len(<<>>) = 0
  BY EmptySeq
<1>4. IsSeq(<<>>)
  BY <1>3, SeqIsSeq
<1>5. 1..0 = {}
  OBVIOUS
<1>6. UsageRows
  BY <1>1, <1>2, <1>3, <1>4, <1>5 DEF UsageRows, ToldOnce, StraysAfter, AllTold, HasCrossed
<1>7. CallsTell
  BY <1>1, <1>2, FS_EmptySet DEF CallsTell
<1> QED BY <1>6, <1>7 DEF UsageInv

\* No call changes, and nothing is recorded.
LEMMA UsageStandsStill ==
  ASSUME ExportInv, UsageInv, UNCHANGED <<setup, req, rows, dropped, strays>>
  PROVE  UsageInv'
<1>1. CrossedStay /\ NobodyCrosses
  BY DEF CrossedStay, NobodyCrosses, HasCrossed
<1> QED BY <1>1, QuietKeepsUsage

\* Every step keeps the ledger true.
LEMMA StepTells ==
  ASSUME ExportInv, UsageInv, [Next]_vars
  PROVE  UsageInv'
<1>1. ASSUME NEW r \in Requests, Arrive(r) \/ Checked(r) \/ Settle(r)
      PROVE  UsageInv'
  BY <1>1, ArriveKeepsUsage, CheckedKeepsUsage, SettleKeepsUsage
<1>2. ASSUME NEW r \in Requests, Timeout(r) PROVE UsageInv'
  <2>1. (\A x \in {r} : req[x].pc = "sent") /\ Reject({r}) /\ UNCHANGED <<setup, rows, dropped, strays>>
    BY <1>2 DEF Timeout, ledgerVars
  <2> QED BY <2>1, RejectKeepsUsage
<1>3. ASSUME NEW t \in Tenants, NEW id \in FrameIds, NEW status, Response(t, id, status)
      PROVE  UsageInv'
  BY <1>3, ResponseKeepsUsage
<1>4. ASSUME NEW chain, NEW inclusion, NotaryAnswers(chain, inclusion) PROVE UsageInv'
  BY <1>4, UsageStandsStill DEF NotaryAnswers, ledgerVars, callVars
<1>5. ASSUME NEW t, AgentLeaves(t) PROVE UsageInv'
  <2>1. /\ (\A x \in PendingOf(t) : req[x].pc = "sent") /\ Reject(PendingOf(t))
        /\ UNCHANGED <<setup, rows, dropped, strays>>
    BY <1>5 DEF AgentLeaves, PendingOf, ledgerVars
  <2> QED BY <2>1, RejectKeepsUsage
<1>6. ASSUME NEW t, AgentComes(t) PROVE UsageInv'
  BY <1>6, UsageStandsStill DEF AgentComes, callVars, ledgerVars
<1>7. ASSUME NEW o \in Offboards, OffboardRefused(o) \/ OffboardGoesOn(o) \/ OffboardEnds(o)
      PROVE  UsageInv'
  BY <1>7, UsageStandsStill DEF OffboardRefused, OffboardGoesOn, OffboardEnds, callVars, ledgerVars
<1>8. ASSUME NEW o \in Offboards, OffboardDestroys(o) PROVE UsageInv'
  <2>1. PICK t : Reject(PendingOf(t)) /\ UNCHANGED <<setup, rows, dropped, strays>>
    BY <1>8 DEF OffboardDestroys, ledgerVars
  <2>2. \A x \in PendingOf(t) : req[x].pc = "sent"
    BY DEF PendingOf
  <2> QED BY <2>1, <2>2, RejectKeepsUsage
<1>9. CASE CloseEdge
  BY <1>9, RejectKeepsUsage DEF CloseEdge, ledgerVars
<1>10. CASE TimePasses
  BY <1>10, UsageStandsStill DEF TimePasses, callVars, ledgerVars
<1>11. CASE UNCHANGED vars
  BY <1>11, UsageStandsStill DEF vars, callVars, ledgerVars
<1> QED BY <1>1, <1>2, <1>3, <1>4, <1>5, <1>6, <1>7, <1>8, <1>9, <1>10, <1>11 DEF Next

\* usage.js:395, edge.js:1017.  While no row was dropped each decision and receipt,
\* and each answer that nobody waited for however often it is repeated, is a row
\* of its own; a row that is kept is true; and the stray answers to a call are
\* dropped no sooner than its decision.
THEOREM UsageInvariant == Spec => []UsageInv
<1>1. Init => UsageInv
  BY InitTells
<1>2. ExportInv /\ UsageInv /\ [Next]_vars => UsageInv'
  BY StepTells
<1> QED BY <1>1, <1>2, ExportInvariant, PTL DEF Spec

\* usage.js:508.  However often agents answer, a reader's reconciliation tells what
\* became of each frame id, and a chain it calls settled is, even of a ledger that
\* lacks rows.
THEOREM ReconciliationsAreTrue == Spec => []ReconciliationIsTrue
<1>1. ASSUME UsageInv PROVE ReconciliationIsTrue
  <2>1. SUFFICES ASSUME setup.usage, NEW t, NEW key
                 PROVE  LET list == Query(t, key)
                        IN  /\ \A id \in Chained(list) :
                                 Chain(list, id) = "settled" =>
                                   id \in Crossed(t, key) /\ Truth(id, t, key) = "settled"
                            /\ ~Truncated =>
                                 /\ Crossed(t, key) \subseteq Chained(list)
                                 /\ \A id \in Chained(list) : Chain(list, id) = Truth(id, t, key)
    BY DEF ReconciliationIsTrue
  <2>2. UsageRows /\ CallsTell
    BY <1>1, <2>1 DEF UsageInv
  <2>3. ~Truncated => AllTold
    BY <2>2 DEF Truncated, UsageRows
  <2>4. \A id : Chain(Query(t, key), id) = "settled" =>
                  id \in Crossed(t, key) /\ Truth(id, t, key) = "settled"
    BY <2>2, SettledIsSettled
  <2>5. ASSUME ~Truncated, NEW r \in Crossed(t, key)
        PROVE  r \in Chained(Query(t, key)) /\ Chain(Query(t, key), r) = Truth(r, t, key)
    BY <2>2, <2>3, <2>5, EveryCallIsTold
  <2>6. ASSUME ~Truncated, NEW id, id \notin Crossed(t, key)
        PROVE  Chain(Query(t, key), id) = Truth(id, t, key)
    BY <2>2, <2>3, <2>6, OthersLackADecision
  <2> QED BY <2>4, <2>5, <2>6
<1> QED BY <1>1, UsageInvariant, PTL

---------------------------------------------------------------------------
(* Filters *)

\* The nth of some places, counted from the first.
LEMMA PlacesInOrder ==
  ASSUME NEW n \in Nat, NEW places \in SUBSET (1..n)
  PROVE  /\ Cardinality(places) \in Nat
         /\ \A i \in places : Cardinality({j \in places : j <= i}) \in 1..Cardinality(places)
         /\ \A i, k \in places :
              Cardinality({j \in places : j <= i}) = Cardinality({j \in places : j <= k}) => i = k
         /\ \A m \in 1..Cardinality(places) : \E i \in places : Cardinality({j \in places : j <= i}) = m
<1> DEFINE Upto(i) == {j \in places : j <= i}
           rank == [i \in places |-> Cardinality(Upto(i))]
<1>1. IsFiniteSet(places) /\ Cardinality(places) \in Nat
  <2>1. IsFiniteSet(1..n)
    BY FS_Interval
  <2> QED BY <2>1, FS_Subset, FS_CardinalityType
<1>2. ASSUME NEW i \in places
      PROVE  IsFiniteSet(Upto(i)) /\ Cardinality(Upto(i)) \in 1..Cardinality(places)
  <2>1. IsFiniteSet(Upto(i)) /\ Cardinality(Upto(i)) <= Cardinality(places)
    BY <1>1, FS_Subset
  <2>2. Cardinality(Upto(i)) \in Nat /\ i \in Upto(i)
    BY <2>1, FS_CardinalityType
  <2>3. Cardinality(Upto(i)) # 0
    BY <2>1, <2>2, FS_EmptySet
  <2> QED BY <1>1, <2>1, <2>2, <2>3
<1>3. ASSUME NEW i \in places, NEW k \in places, i <= k, Cardinality(Upto(i)) = Cardinality(Upto(k))
      PROVE  i = k
  <2>1. Upto(i) \in SUBSET Upto(k)
    <3>1. \A j \in places : j <= i => j <= k
      <4>1. \A j \in places : j \in Nat
        OBVIOUS
      <4> QED BY <1>3, <4>1
    <3> QED BY <3>1
  <2>2. Upto(i) = Upto(k)
    BY <1>2, <1>3, <2>1, FS_Subset
  <2>3. k \in Upto(k)
    OBVIOUS
  <2> QED BY <1>3, <2>2, <2>3
<1>4. ASSUME NEW i \in places, NEW k \in places, Cardinality(Upto(i)) = Cardinality(Upto(k))
      PROVE  i = k
  <2>1. i <= k \/ k <= i
    OBVIOUS
  <2> QED BY <1>3, <1>4, <2>1
<1>5. rank \in Injection(places, 1..Cardinality(places))
  BY <1>2, <1>4 DEF Injection, IsInjective
<1>6. rank \in Surjection(places, 1..Cardinality(places))
  <2>1. IsFiniteSet(1..Cardinality(places)) /\ Cardinality(1..Cardinality(places)) = Cardinality(places)
    BY <1>1, FS_Interval
  <2> QED BY <1>5, <2>1, FS_Injection
<1>7. ASSUME NEW m \in 1..Cardinality(places) PROVE \E i \in places : Cardinality(Upto(i)) = m
  BY <1>6 DEF Surjection
<1> QED BY <1>1, <1>2, <1>4, <1>7

\* Places come in their order.
LEMMA RanksGrow ==
  ASSUME NEW n \in Nat, NEW P \in SUBSET (1..n), NEW i \in P, NEW k \in P, k <= i
  PROVE  Cardinality({j \in P : j <= k}) <= Cardinality({j \in P : j <= i})
<1> DEFINE A == {j \in P : j <= k}
           B == {j \in P : j <= i}
<1>1. \A j \in P : j \in Nat
  OBVIOUS
<1>2. \A j \in P : j <= k => j <= i
  <2>1. i \in Nat /\ k \in Nat
    BY <1>1
  <2> QED BY <1>1, <2>1
<1>3. IsFiniteSet(B)
  <2>1. IsFiniteSet(1..n)
    BY FS_Interval
  <2>2. B \subseteq 1..n
    OBVIOUS
  <2> QED BY <2>1, <2>2, FS_Subset
<1>4. A \subseteq B
  BY <1>2
<1> QED BY <1>3, <1>4, FS_Subset

\* The elements at some places, all of them, in their order.
Keeps(t, s, P) ==
  \E g \in [1..Len(t) -> P] :
    /\ \A m, n \in 1..Len(t) : m < n => g[m] < g[n]
    /\ \A m \in 1..Len(t) : t[m] = s[g[m]]
    /\ \A i \in P : \E m \in 1..Len(t) : g[m] = i

\* A filter keeps the elements at its places.
LEMMA FilteredFacts ==
  ASSUME NEW X, NEW s \in Seq(X), NEW P \in SUBSET (1..Len(s))
  PROVE  /\ Filtered(s, P) \in Seq(X)
         /\ Cardinality(P) \in Nat /\ Len(Filtered(s, P)) = Cardinality(P)
         /\ Keeps(Filtered(s, P), s, P)
<1> DEFINE Rank(i) == Cardinality({j \in P : j <= i})
           Nth(m) == CHOOSE i \in P : Cardinality({j \in P : j <= i}) = m
           g == [m \in 1..Cardinality(P) |-> Nth(m)]
           t == [m \in 1..Cardinality(P) |-> s[Nth(m)]]
<1>1. Len(s) \in Nat /\ \A i \in 1..Len(s) : s[i] \in X
  BY LenProperties
<1>2. /\ Cardinality(P) \in Nat
      /\ \A i \in P : Rank(i) \in 1..Cardinality(P)
      /\ \A i, k \in P : Rank(i) = Rank(k) => i = k
      /\ \A m \in 1..Cardinality(P) : \E i \in P : Rank(i) = m
  BY <1>1, PlacesInOrder
<1>3. \A m \in 1..Cardinality(P) : Nth(m) \in P /\ Rank(Nth(m)) = m
  BY <1>2
<1>4. Filtered(s, P) = t
  BY DEF Filtered
<1>5. t \in Seq(X) /\ Len(t) = Cardinality(P)
  <2>1. \A m \in 1..Cardinality(P) : s[Nth(m)] \in X
    BY <1>1, <1>3
  <2> HIDE DEF Nth
  <2>2. t \in [1..Cardinality(P) -> X]
    BY <2>1
  <2> HIDE DEF t
  <2> QED BY <1>2, <2>2, SeqDef, LenProperties
<1>6. g \in [1..Cardinality(P) -> P] /\ \A m \in 1..Cardinality(P) : g[m] = Nth(m) /\ t[m] = s[g[m]]
  <2> HIDE DEF Nth
  <2> QED BY <1>3
<1>7. ASSUME NEW m \in 1..Cardinality(P), NEW n \in 1..Cardinality(P), m < n
      PROVE  g[m] < g[n]
  <2>1. PICK i \in P : i = Nth(m) /\ Rank(i) = m
    BY <1>3
  <2>2. PICK k \in P : k = Nth(n) /\ Rank(k) = n
    BY <1>3
  <2>3. g[m] = i /\ g[n] = k
    BY <1>6, <2>1, <2>2
  <2>4. i \in Nat /\ k \in Nat /\ m \in Nat /\ n \in Nat
    BY <1>1, <1>2
  <2>5. ASSUME k <= i PROVE FALSE
    <3>1. Rank(k) <= Rank(i)
      BY <1>1, <2>5, RanksGrow
    <3> HIDE DEF Rank
    <3> QED BY <1>7, <2>1, <2>2, <2>4, <3>1
  <2>6. i < k
    BY <2>4, <2>5
  <2> QED BY <2>3, <2>6
<1>8. ASSUME NEW i \in P PROVE \E m \in 1..Cardinality(P) : g[m] = i
  <2>1. PICK m \in 1..Cardinality(P) : m = Rank(i)
    BY <1>2
  <2>2. PICK k \in P : k = Nth(m)
    BY <1>3
  <2>3. Rank(k) = m
    BY <1>3, <2>2
  <2>4. k = i
    BY <1>2, <2>1, <2>3
  <2> QED BY <2>1, <2>2, <2>4
<1> HIDE DEF g, t
<1>9. Keeps(t, s, P)
  <2>1. \A m, n \in 1..Len(t) : m < n => g[m] < g[n]
    BY <1>5, <1>7
  <2>2. g \in [1..Len(t) -> P] /\ \A m \in 1..Len(t) : t[m] = s[g[m]]
    BY <1>5, <1>6
  <2>3. \A i \in P : \E m \in 1..Len(t) : g[m] = i
    BY <1>5, <1>8
  <2> QED BY <2>1, <2>2, <2>3, Zenon DEF Keeps
<1> QED BY <1>2, <1>4, <1>5, <1>9

---------------------------------------------------------------------------
(* Denials within a window *)

\* The places of a sequence of times that are in the window, and how many.
InWindow(s, u, w) == {i \in 1..Len(s) : u - s[i] < w}
Fresh(s, u, w) == Cardinality(InWindow(s, u, w))

\* The denials within a window can be counted.
LEMMA FreshIsNat ==
  ASSUME NEW s \in Seq(Nat), NEW u, NEW w
  PROVE  IsFiniteSet(InWindow(s, u, w)) /\ Fresh(s, u, w) \in Nat
<1>1. Len(s) \in Nat
  BY LenProperties
<1>2. IsFiniteSet(1..Len(s))
  BY <1>1, FS_Interval
<1>3. InWindow(s, u, w) \in SUBSET (1..Len(s))
  BY DEF InWindow
<1>4. IsFiniteSet(InWindow(s, u, w))
  BY <1>2, <1>3, FS_Subset
<1> QED BY <1>4, FS_CardinalityType DEF Fresh

\* The window of a principal moves on: nothing comes back into it.
LEMMA FreshFades ==
  ASSUME NEW s \in Seq(Nat), NEW t \in Nat, NEW u \in Nat, t <= u, NEW w \in Nat
  PROVE  Fresh(s, u, w) <= Fresh(s, t, w)
<1>1. Len(s) \in Nat /\ \A i \in 1..Len(s) : s[i] \in Nat
  BY LenProperties
<1>2. InWindow(s, u, w) \in SUBSET InWindow(s, t, w)
  BY <1>1 DEF InWindow
<1> QED BY <1>2, FreshIsNat, FS_Subset DEF Fresh

\* Nothing is within the window of no denials.
LEMMA EmptyIsStale == \A u, w : Fresh(<<>>, u, w) = 0
<1>1. ASSUME NEW u, NEW w PROVE InWindow(<<>>, u, w) = {}
  BY DEF InWindow
<1> QED BY <1>1, FS_EmptySet DEF Fresh

\* What is left of a sequence of times once its window has moved on.
RecentAt(s, t, w) == Filtered(s, {i \in DOMAIN s : t - s[i] < w})

\* What is left are the times within the window, in their order.
LEMMA RecentFacts ==
  ASSUME NEW s \in Seq(Nat), NEW t \in Nat, NEW w \in Nat
  PROVE  /\ RecentAt(s, t, w) \in Seq(Nat) /\ Len(RecentAt(s, t, w)) = Fresh(s, t, w)
         /\ Keeps(RecentAt(s, t, w), s, InWindow(s, t, w))
<1> DEFINE P == InWindow(s, t, w)
<1>1. DOMAIN s = 1..Len(s) /\ P \in SUBSET (1..Len(s))
  BY LenProperties DEF InWindow
<1>2. RecentAt(s, t, w) = Filtered(s, P) /\ Fresh(s, t, w) = Cardinality(P)
  BY <1>1 DEF RecentAt, InWindow, Fresh
<1> HIDE DEF P
<1>3. /\ Filtered(s, P) \in Seq(Nat) /\ Len(Filtered(s, P)) = Cardinality(P)
      /\ Keeps(Filtered(s, P), s, P)
  BY <1>1, FilteredFacts
<1> QED BY <1>2, <1>3 DEF P

\* Dropping what has left the window does not change what will be in it later.
LEMMA FreshOfRecent ==
  ASSUME NEW s \in Seq(Nat), NEW t \in Nat, NEW u \in Nat, t <= u, NEW w \in Nat
  PROVE  Fresh(RecentAt(s, t, w), u, w) = Fresh(s, u, w)
<1> DEFINE r == RecentAt(s, t, w)
           n == Fresh(s, t, w)
           A == InWindow(r, u, w)
           B == InWindow(s, u, w)
<1>1. r \in Seq(Nat) /\ Len(r) = n /\ n \in Nat
  BY RecentFacts, FreshIsNat
<1>2. PICK g \in [1..n -> InWindow(s, t, w)] :
        /\ \A m, k \in 1..n : m < k => g[m] < g[k]
        /\ \A m \in 1..n : r[m] = s[g[m]]
        /\ \A i \in InWindow(s, t, w) : \E m \in 1..n : g[m] = i
  <2>1. Keeps(r, s, InWindow(s, t, w)) /\ Len(r) = n
    BY RecentFacts
  <2> HIDE DEF r, n
  <2> QED BY <2>1 DEF Keeps
<1>3. Len(s) \in Nat /\ \A i \in 1..Len(s) : s[i] \in Nat
  BY LenProperties
<1> HIDE DEF r, n
<1>4. \A i \in B : i \in InWindow(s, t, w)
  BY <1>3 DEF InWindow
<1>5. \A m \in 1..n : g[m] \in 1..Len(s)
  BY <1>2 DEF InWindow
<1>6. \A m \in A : m \in 1..n /\ g[m] \in B
  BY <1>1, <1>2, <1>5 DEF InWindow
<1> DEFINE h == [m \in A |-> g[m]]
<1>7. \A m, k \in 1..n : g[m] = g[k] => m = k
  <2>1. \A m, k \in 1..n : m < k \/ k < m \/ m = k
    BY <1>1
  <2>2. \A m \in 1..n : g[m] \in Nat
    BY <1>5
  <2>3. ASSUME NEW m \in 1..n, NEW k \in 1..n, g[m] = g[k] PROVE m = k
    <3>1. ~(g[m] < g[k]) /\ ~(g[k] < g[m])
      BY <2>2, <2>3
    <3> QED BY <1>2, <2>1, <3>1
  <2> QED BY <2>3
<1>8. h \in Injection(A, B)
  BY <1>6, <1>7 DEF Injection, IsInjective
<1>9. h \in Surjection(A, B)
  <2>1. ASSUME NEW i \in B PROVE \E m \in A : h[m] = i
    <3>1. PICK m \in 1..n : g[m] = i
      BY <1>2, <1>4
    <3>2. m \in A
      BY <1>1, <1>2, <2>1, <3>1 DEF InWindow
    <3> QED BY <3>1, <3>2
  <2>2. h \in [A -> B]
    BY <1>6
  <2> HIDE DEF h
  <2> QED BY <2>1, <2>2 DEF Surjection
<1>10. ExistsBijection(A, B)
  BY <1>8, <1>9 DEF ExistsBijection, Bijection
<1>11. IsFiniteSet(A)
  BY <1>1, FreshIsNat
<1> QED BY <1>10, <1>11, FS_Bijection DEF Fresh, r

\* One more denial.
LEMMA FreshOfOneMore ==
  ASSUME NEW s \in Seq(Nat), NEW x \in Nat, NEW u \in Nat, NEW w \in Nat
  PROVE  Fresh(Append(s, x), u, w) = IF u - x < w THEN Fresh(s, u, w) + 1 ELSE Fresh(s, u, w)
<1> DEFINE a == Append(s, x)
           n == Len(s)
           A == InWindow(s, u, w)
<1>1. n \in Nat /\ Len(a) = n + 1 /\ a[n + 1] = x /\ \A i \in 1..n : a[i] = s[i]
  BY LenProperties, AppendProperties
<1>2. 1..Len(a) = 1..n \cup {n + 1}
  BY <1>1
<1> HIDE DEF a, n
<1>3. InWindow(a, u, w) = IF u - x < w THEN A \cup {n + 1} ELSE A
  <2>1. A = {i \in 1..n : u - s[i] < w}
    BY DEF InWindow, n
  <2>2. InWindow(a, u, w) = {i \in 1..n \cup {n + 1} : u - a[i] < w}
    BY <1>2 DEF InWindow
  <2> HIDE DEF A
  <2> QED BY <1>1, <2>1, <2>2
<1>4. n + 1 \notin A
  BY <1>1 DEF InWindow, n
<1>5. IsFiniteSet(A)
  BY FreshIsNat
<1>6. Cardinality(A \cup {n + 1}) = Cardinality(A) + 1
  <2> HIDE DEF A
  <2> QED BY <1>4, <1>5, FS_AddElement
<1> QED BY <1>3, <1>6 DEF Fresh, a

---------------------------------------------------------------------------
(* The denial table *)

Entry == [key : Principals, times : Seq(Nat), until : Nat]
Lock == [times : Seq(Nat), until : Nat]
Signal == [key : Principals, at : Nat]

\* The terms of a lock, as the operator's table gives them.
Terms == {a \in [denials : Nat, window : Nat, lock : Nat] : a.denials > 0 /\ a.window > 0 /\ a.lock > 0}

LiveAt(e, t, a) == IF e.until # 0 THEN e.until > t ELSE Fresh(e.times, t, a.window) # 0
AgedAt(e, t, a) == IF e.until # 0 THEN e ELSE [e EXCEPT !.times = RecentAt(e.times, t, a.window)]

\* Each time of an entry is of a denial of its own.
Backed(e, sg) ==
  \E f \in [1..Len(e.times) -> 1..Len(sg)] :
    /\ \A i, j \in 1..Len(e.times) : f[i] = f[j] => i = j
    /\ \A i \in 1..Len(e.times) : sg[f[i]].key = e.key /\ sg[f[i]].at = e.times[i]

\* The denials of a principal within one window before some moment.
Causes(k, sg, at, w) == {i \in DOMAIN sg : sg[i].key = k /\ sg[i].at <= at /\ at - sg[i].at < w}
EarnedBy(e, sg, a) ==
  e.until # 0 =>
    /\ e.until - a.lock \in Nat
    /\ Cardinality(Causes(e.key, sg, e.until - a.lock, a.window)) >= a.denials

\* An entry and a book that tell the same of a principal from now on.
SameLock(e, b, t, a) ==
  /\ e.until = b.until
  /\ e.until = 0 => \A u \in Nat : t <= u => Fresh(e.times, u, a.window) = Fresh(b.times, u, a.window)

\* An entry that lockState has aged says what it said.
LEMMA AgedEntry ==
  ASSUME NEW e \in Entry, NEW t \in Nat, NEW a \in Terms
  PROVE  /\ AgedAt(e, t, a) \in Entry /\ AgedAt(e, t, a).key = e.key /\ AgedAt(e, t, a).until = e.until
         /\ e.until = 0 => AgedAt(e, t, a).times = RecentAt(e.times, t, a.window)
         /\ LiveAt(AgedAt(e, t, a), t, a) <=> LiveAt(e, t, a)
<1> DEFINE w == a.window
           r == RecentAt(e.times, t, w)
<1>1. e.times \in Seq(Nat) /\ w \in Nat
  BY DEF Entry, Terms
<1>2. r \in Seq(Nat)
  BY <1>1, RecentFacts
<1>3. Fresh(r, t, w) = Fresh(e.times, t, w)
  <2>1. t <= t
    OBVIOUS
  <2> QED BY <1>1, <2>1, FreshOfRecent
<1> HIDE DEF r
<1>4. CASE e.until # 0
  BY <1>4 DEF AgedAt
<1>5. CASE e.until = 0
  <2>1. AgedAt(e, t, a) = [e EXCEPT !.times = r]
    BY <1>5 DEF AgedAt, r
  <2>2. AgedAt(e, t, a) \in Entry /\ AgedAt(e, t, a).key = e.key
        /\ AgedAt(e, t, a).until = e.until /\ AgedAt(e, t, a).times = r
    BY <1>2, <2>1 DEF Entry
  <2>3. LiveAt(AgedAt(e, t, a), t, a) <=> LiveAt(e, t, a)
    BY <1>3, <1>5, <2>2 DEF LiveAt
  <2>4. AgedAt(e, t, a).times = RecentAt(e.times, t, a.window)
    BY <2>2 DEF r
  <2> QED BY <2>2, <2>3, <2>4
<1> QED BY <1>4, <1>5

\* The times that are left are of the denials they were of.
LEMMA AgedBacked ==
  ASSUME NEW e \in Entry, NEW t \in Nat, NEW a \in Terms, NEW sg, Backed(e, sg)
  PROVE  Backed(AgedAt(e, t, a), sg)
<1> DEFINE w == a.window
           r == RecentAt(e.times, t, w)
           d == AgedAt(e, t, a)
<1>1. e.times \in Seq(Nat) /\ w \in Nat /\ e.until \in Nat
  BY DEF Entry, Terms
<1>2. CASE e.until # 0
  BY <1>2 DEF AgedAt
<1>3. CASE e.until = 0
  <2>1. d.key = e.key /\ d.times = r
    BY <1>3, AgedEntry
  <2>2. Keeps(r, e.times, InWindow(e.times, t, w))
    BY <1>1, RecentFacts
  <2>3. PICK f \in [1..Len(e.times) -> 1..Len(sg)] :
          /\ \A i, j \in 1..Len(e.times) : f[i] = f[j] => i = j
          /\ \A i \in 1..Len(e.times) : sg[f[i]].key = e.key /\ sg[f[i]].at = e.times[i]
    BY DEF Backed
  <2>4. PICK n : n = Len(r)
    OBVIOUS
  <2>5. n \in Nat
    BY <1>1, <2>4, RecentFacts, FreshIsNat
  <2> HIDE DEF r, d
  <2>6. PICK g \in [1..n -> InWindow(e.times, t, w)] :
          /\ \A i, j \in 1..n : i < j => g[i] < g[j]
          /\ \A i \in 1..n : r[i] = e.times[g[i]]
    BY <2>2, <2>4 DEF Keeps
  <2>7. \A i \in 1..n : g[i] \in 1..Len(e.times)
    BY <2>6 DEF InWindow
  <2> DEFINE h == [i \in 1..n |-> f[g[i]]]
  <2>8. ASSUME NEW i \in 1..n, NEW j \in 1..n, h[i] = h[j] PROVE i = j
    <3>1. g[i] = g[j]
      BY <2>3, <2>7, <2>8
    <3>2. g[i] \in Nat /\ g[j] \in Nat
      BY <2>7
    <3>3. ~(i < j) /\ ~(j < i)
      BY <2>6, <3>1, <3>2
    <3> QED BY <3>3
  <2>9. h \in [1..n -> 1..Len(sg)] /\ \A i \in 1..n : sg[h[i]].key = e.key /\ sg[h[i]].at = r[i]
    BY <2>3, <2>6, <2>7
  <2> HIDE DEF h
  <2>10. \A i, j \in 1..n : h[i] = h[j] => i = j
    BY <2>8
  <2>11. Len(d.times) = n
    BY <2>1, <2>4
  <2>12. h \in [1..Len(d.times) -> 1..Len(sg)]
    BY <2>9, <2>11
  <2>13. \A i, j \in 1..Len(d.times) : h[i] = h[j] => i = j
    BY <2>10, <2>11
  <2>14. \A i \in 1..Len(d.times) : sg[h[i]].key = d.key /\ sg[h[i]].at = d.times[i]
    BY <2>1, <2>9, <2>11
  <2>15. Backed(d, sg)
    BY <2>12, <2>13, <2>14, Zenon DEF Backed
  <2> QED BY <2>15 DEF d
<1> QED BY <1>2, <1>3

\* A lock is earned as before.
LEMMA AgedEarned ==
  ASSUME NEW e \in Entry, NEW t \in Nat, NEW a \in Terms, NEW sg, EarnedBy(e, sg, a)
  PROVE  EarnedBy(AgedAt(e, t, a), sg, a)
BY AgedEntry DEF EarnedBy

\* An aged entry tells the same from now on.
LEMMA AgedSame ==
  ASSUME NEW e \in Entry, NEW t \in Nat, NEW a \in Terms, NEW b, SameLock(e, b, t, a)
  PROVE  SameLock(AgedAt(e, t, a), b, t, a)
<1>1. e.times \in Seq(Nat) /\ a.window \in Nat
  BY DEF Entry, Terms
<1>2. CASE e.until # 0
  BY <1>2 DEF AgedAt
<1>3. CASE e.until = 0
  <2>1. AgedAt(e, t, a).until = e.until /\ AgedAt(e, t, a).times = RecentAt(e.times, t, a.window)
    BY <1>3, AgedEntry
  <2>2. \A u \in Nat : t <= u => Fresh(RecentAt(e.times, t, a.window), u, a.window) = Fresh(e.times, u, a.window)
    BY <1>1, FreshOfRecent
  <2> QED BY <1>3, <2>1, <2>2 DEF SameLock
<1> QED BY <1>2, <1>3

\* The entries stand in the order of their first denials, one of each principal.
InOrder(ds, sg) ==
  \E s \in [1..Len(ds) -> 1..Len(sg)] :
    /\ \A p, q \in 1..Len(ds) : p < q => s[p] < s[q]
    /\ \A p \in 1..Len(ds) : sg[s[p]].key = ds[p].key
OneEach(ds) == \A p, q \in 1..Len(ds) : ds[p].key = ds[q].key => p = q
TableShape(ds, sg, a) ==
  /\ ds \in Seq(Entry) /\ OneEach(ds) /\ InOrder(ds, sg)
  /\ \A p \in 1..Len(ds) : Backed(ds[p], sg) /\ EarnedBy(ds[p], sg, a)

\* The lock of a principal in a table without a bound is over.
NoneLeft(b, t, a) == b.until <= t /\ \A u \in Nat : t <= u => Fresh(b.times, u, a.window) = 0

\* The table has of a principal what the book has.
Booked(ds, b, k, t, a) ==
  /\ \A p \in 1..Len(ds) : ds[p].key = k => SameLock(ds[p], b, t, a)
  /\ (\A p \in 1..Len(ds) : ds[p].key # k) => NoneLeft(b, t, a)

\* Some entries go that are not live, and some of the others are aged.
ThinsBy(g, d2, d1, t, a) ==
  /\ g \in [1..Len(d2) -> 1..Len(d1)]
  /\ \A p, q \in 1..Len(d2) : p < q => g[p] < g[q]
  /\ \A p \in 1..Len(d2) : d2[p] = d1[g[p]] \/ d2[p] = AgedAt(d1[g[p]], t, a)
  /\ \A p \in 1..Len(d1) : LiveAt(d1[p], t, a) => \E m \in 1..Len(d2) : g[m] = p
Thins(d2, d1, t, a) == \E g : ThinsBy(g, d2, d1, t, a)

\* A count of first places.
LEMMA FirstPlaces ==
  ASSUME NEW n \in Nat
  PROVE  IsFiniteSet(1..n) /\ Cardinality(1..n) = n
<1>1. IsFiniteSet(1..n)
  BY FS_Interval
<1>2. Cardinality(1..n) = IF 1 > n THEN 0 ELSE n - 1 + 1
  BY FS_Interval
<1> QED BY <1>1, <1>2

\* No two entries come from one.
LEMMA ThinIsInjective ==
  ASSUME NEW d1 \in Seq(Entry), NEW d2 \in Seq(Entry), NEW t, NEW a, NEW g, ThinsBy(g, d2, d1, t, a)
  PROVE  /\ Len(d1) \in Nat /\ Len(d2) \in Nat /\ Len(d2) <= Len(d1)
         /\ \A p, q \in 1..Len(d2) : g[p] = g[q] => p = q
<1>1. Len(d1) \in Nat /\ Len(d2) \in Nat
  BY LenProperties
<1>2. \A p \in 1..Len(d2) : g[p] \in 1..Len(d1)
  BY DEF ThinsBy
<1>3. ASSUME NEW p \in 1..Len(d2), NEW q \in 1..Len(d2), g[p] = g[q] PROVE p = q
  <2>1. g[p] \in Nat /\ g[q] \in Nat /\ p \in Nat /\ q \in Nat
    BY <1>1, <1>2
  <2>2. ~(g[p] < g[q]) /\ ~(g[q] < g[p])
    BY <1>3, <2>1
  <2>3. ~(p < q) /\ ~(q < p)
    BY <2>2 DEF ThinsBy
  <2> QED BY <2>1, <2>3
<1>4. Len(d2) <= Len(d1)
  <2>1. g \in Injection(1..Len(d2), 1..Len(d1))
    BY <1>3 DEF ThinsBy, Injection, IsInjective
  <2>2. IsFiniteSet(1..Len(d1)) /\ Cardinality(1..Len(d1)) = Len(d1)
    BY <1>1, FirstPlaces
  <2>3. Cardinality(1..Len(d2)) = Len(d2)
    BY <1>1, FirstPlaces
  <2>4. Cardinality(1..Len(d2)) <= Cardinality(1..Len(d1))
    BY <2>1, <2>2, FS_Injection
  <2> QED BY <2>2, <2>3, <2>4
<1> QED BY <1>1, <1>3, <1>4

\* An entry of the thinned table is one of the table, with its key and its lock.
LEMMA ThinEntry ==
  ASSUME NEW d1 \in Seq(Entry), NEW d2 \in Seq(Entry), NEW t \in Nat, NEW a \in Terms, NEW g,
         ThinsBy(g, d2, d1, t, a), NEW p \in 1..Len(d2)
  PROVE  /\ g[p] \in 1..Len(d1) /\ d1[g[p]] \in Entry /\ d2[p].key = d1[g[p]].key
         /\ \A sg : Backed(d1[g[p]], sg) => Backed(d2[p], sg)
         /\ \A sg : EarnedBy(d1[g[p]], sg, a) => EarnedBy(d2[p], sg, a)
         /\ \A b : SameLock(d1[g[p]], b, t, a) => SameLock(d2[p], b, t, a)
<1>1. g[p] \in 1..Len(d1) /\ (d2[p] = d1[g[p]] \/ d2[p] = AgedAt(d1[g[p]], t, a))
  BY DEF ThinsBy
<1>2. PICK e : e = d1[g[p]]
  OBVIOUS
<1>3. e \in Entry
  BY <1>1, <1>2, LenProperties
<1>4. CASE d2[p] = e
  BY <1>1, <1>2, <1>3, <1>4
<1>5. CASE d2[p] = AgedAt(e, t, a)
  <2>1. d2[p].key = e.key
    <3>1. AgedAt(e, t, a).key = e.key
      BY <1>3, AgedEntry
    <3> QED BY <1>5, <3>1
  <2>2. \A sg : Backed(e, sg) => Backed(d2[p], sg)
    BY <1>3, <1>5, AgedBacked
  <2>3. \A sg : EarnedBy(e, sg, a) => EarnedBy(d2[p], sg, a)
    BY <1>3, <1>5, AgedEarned
  <2>4. \A b : SameLock(e, b, t, a) => SameLock(d2[p], b, t, a)
    BY <1>3, <1>5, AgedSame
  <2> QED BY <1>1, <1>2, <1>3, <2>1, <2>2, <2>3, <2>4
<1> QED BY <1>1, <1>2, <1>4, <1>5

\* A table that lost entries is no less in order.
LEMMA ThinnedTable ==
  ASSUME NEW d1, NEW d2 \in Seq(Entry), NEW t \in Nat, NEW a \in Terms, NEW sg,
         TableShape(d1, sg, a), Thins(d2, d1, t, a)
  PROVE  TableShape(d2, sg, a) /\ Len(d1) \in Nat /\ Len(d2) \in Nat /\ Len(d2) <= Len(d1)
<1>1. d1 \in Seq(Entry) /\ OneEach(d1)
  BY DEF TableShape
<1>2. PICK g : ThinsBy(g, d2, d1, t, a)
  BY DEF Thins
<1>3. /\ Len(d1) \in Nat /\ Len(d2) \in Nat /\ Len(d2) <= Len(d1)
      /\ \A p, q \in 1..Len(d2) : g[p] = g[q] => p = q
  BY <1>1, <1>2, ThinIsInjective
<1>4. \A p \in 1..Len(d2) : g[p] \in 1..Len(d1) /\ d2[p].key = d1[g[p]].key
  BY <1>1, <1>2, ThinEntry
<1>5. OneEach(d2)
  <2>1. ASSUME NEW p \in 1..Len(d2), NEW q \in 1..Len(d2), d2[p].key = d2[q].key PROVE p = q
    <3>1. d1[g[p]].key = d1[g[q]].key /\ g[p] \in 1..Len(d1) /\ g[q] \in 1..Len(d1)
      BY <1>4, <2>1
    <3>2. g[p] = g[q]
      BY <1>1, <3>1 DEF OneEach
    <3> QED BY <1>3, <3>2
  <2> QED BY <2>1 DEF OneEach
<1>6. InOrder(d2, sg)
  <2>1. PICK s \in [1..Len(d1) -> 1..Len(sg)] :
          /\ \A p, q \in 1..Len(d1) : p < q => s[p] < s[q]
          /\ \A p \in 1..Len(d1) : sg[s[p]].key = d1[p].key
    BY DEF TableShape, InOrder
  <2> DEFINE h == [p \in 1..Len(d2) |-> s[g[p]]]
  <2>2. h \in [1..Len(d2) -> 1..Len(sg)] /\ \A p \in 1..Len(d2) : sg[h[p]].key = d2[p].key
    BY <1>4, <2>1
  <2>3. \A p, q \in 1..Len(d2) : p < q => g[p] < g[q]
    BY <1>2 DEF ThinsBy
  <2>4. \A p, q \in 1..Len(d2) : p < q => h[p] < h[q]
    BY <1>4, <2>1, <2>3
  <2> HIDE DEF h
  <2> QED BY <2>2, <2>4, Zenon DEF InOrder
<1>7. ASSUME NEW p \in 1..Len(d2) PROVE Backed(d2[p], sg) /\ EarnedBy(d2[p], sg, a)
  <2>1. Backed(d1[g[p]], sg) /\ EarnedBy(d1[g[p]], sg, a)
    BY <1>4 DEF TableShape
  <2>2. Backed(d1[g[p]], sg) => Backed(d2[p], sg)
    BY <1>1, <1>2, ThinEntry
  <2>3. EarnedBy(d1[g[p]], sg, a) => EarnedBy(d2[p], sg, a)
    BY <1>1, <1>2, ThinEntry
  <2> QED BY <2>1, <2>2, <2>3
<1> QED BY <1>3, <1>5, <1>6, <1>7 DEF TableShape

\* An entry that is not live leaves nothing behind.
LEMMA DeadLeavesNothing ==
  ASSUME NEW e \in Entry, NEW b \in Lock, NEW t \in Nat, NEW a \in Terms,
         SameLock(e, b, t, a), ~LiveAt(e, t, a), b.until # 0 => b.times = <<>>
  PROVE  NoneLeft(b, t, a)
<1>1. e.times \in Seq(Nat) /\ a.window \in Nat /\ e.until \in Nat /\ b.until = e.until
  BY DEF Entry, Terms, SameLock
<1>2. CASE e.until # 0
  <2>1. b.until <= t /\ b.times = <<>>
    BY <1>1, <1>2 DEF LiveAt
  <2> QED BY <2>1, EmptyIsStale DEF NoneLeft
<1>3. CASE e.until = 0
  <2>1. Fresh(e.times, t, a.window) = 0 /\ b.until = 0
    BY <1>1, <1>3 DEF LiveAt
  <2>2. ASSUME NEW u \in Nat, t <= u PROVE Fresh(b.times, u, a.window) = 0
    <3>1. Fresh(e.times, u, a.window) <= Fresh(e.times, t, a.window)
      BY <1>1, <2>2, FreshFades
    <3>2. Fresh(e.times, u, a.window) \in Nat
      BY <1>1, FreshIsNat
    <3>3. Fresh(e.times, u, a.window) = Fresh(b.times, u, a.window)
      BY <1>3, <2>2 DEF SameLock
    <3> QED BY <2>1, <3>1, <3>2, <3>3
  <2> QED BY <2>1, <2>2 DEF NoneLeft
<1> QED BY <1>2, <1>3

\* A principal whose entry went had nothing left of it.
LEMMA ThinnedBook ==
  ASSUME NEW d1 \in Seq(Entry), NEW d2 \in Seq(Entry), NEW t \in Nat, NEW a \in Terms,
         Thins(d2, d1, t, a), NEW b \in Lock, b.until # 0 => b.times = <<>>, NEW k,
         Booked(d1, b, k, t, a)
  PROVE  Booked(d2, b, k, t, a)
<1>1. PICK g : ThinsBy(g, d2, d1, t, a)
  BY DEF Thins
<1>2. ASSUME NEW p \in 1..Len(d2), d2[p].key = k PROVE SameLock(d2[p], b, t, a)
  <2>1. g[p] \in 1..Len(d1) /\ d1[g[p]].key = k
    BY <1>1, <1>2, ThinEntry
  <2>2. SameLock(d1[g[p]], b, t, a)
    BY <2>1 DEF Booked
  <2> QED BY <1>1, <2>2, ThinEntry
<1>3. ASSUME \A p \in 1..Len(d2) : d2[p].key # k PROVE NoneLeft(b, t, a)
  <2>1. CASE \A p \in 1..Len(d1) : d1[p].key # k
    BY <2>1 DEF Booked
  <2>2. CASE \E p \in 1..Len(d1) : d1[p].key = k
    <3>1. PICK p \in 1..Len(d1) : d1[p].key = k
      BY <2>2
    <3>2. \A m \in 1..Len(d2) : g[m] # p
      BY <1>1, <1>3, <3>1, ThinEntry
    <3>3. ~LiveAt(d1[p], t, a)
      BY <1>1, <3>2 DEF ThinsBy
    <3>4. SameLock(d1[p], b, t, a) /\ d1[p] \in Entry
      BY <3>1, LenProperties DEF Booked
    <3> QED BY <3>3, <3>4, DeadLeavesNothing
  <2> QED BY <2>1, <2>2
<1> QED BY <1>2, <1>3 DEF Booked

---------------------------------------------------------------------------
(* lockState and prune *)

TermsHold == now \in Nat /\ quotas.abuse \in Terms

\* The entry as it is looked at now.
LEMMA LiveIsLive ==
  ASSUME TermsHold, NEW e \in Entry
  PROVE  /\ Live(e) <=> LiveAt(e, now, quotas.abuse)
         /\ Aged(e) = AgedAt(e, now, quotas.abuse)
<1>1. e.times \in Seq(Nat) /\ quotas.abuse.window \in Nat /\ now \in Nat
  BY DEF TermsHold, Entry, Terms
<1>2. Recent(e.times) = RecentAt(e.times, now, quotas.abuse.window)
  BY DEF Recent, RecentAt
<1>3. Recent(e.times) \in Seq(Nat) /\ Len(Recent(e.times)) = Fresh(e.times, now, quotas.abuse.window)
  BY <1>1, <1>2, RecentFacts
<1>4. Recent(e.times) # <<>> <=> Fresh(e.times, now, quotas.abuse.window) # 0
  BY <1>3, EmptySeq
<1> QED BY <1>2, <1>4 DEF Live, LiveAt, Locked, Aged, AgedAt

\* The first half of prune drops entries that are over.
LEMMA PruneThins ==
  ASSUME TermsHold, NEW ds \in Seq(Entry)
  PROVE  LET alive == Filtered(ds, {i \in DOMAIN ds : Live(ds[i])})
         IN  alive \in Seq(Entry) /\ Thins(alive, ds, now, quotas.abuse)
<1> DEFINE P == {i \in DOMAIN ds : Live(ds[i])}
           d == Filtered(ds, P)
<1>1. DOMAIN ds = 1..Len(ds) /\ Len(ds) \in Nat /\ \A p \in 1..Len(ds) : ds[p] \in Entry
  BY LenProperties
<1>2. P \in SUBSET (1..Len(ds))
  BY <1>1
<1>3. \A p \in 1..Len(ds) : p \in P <=> LiveAt(ds[p], now, quotas.abuse)
  BY <1>1, LiveIsLive
<1> HIDE DEF P
<1>4. d \in Seq(Entry) /\ Keeps(d, ds, P)
  BY <1>2, FilteredFacts
<1> HIDE DEF d
<1>5. PICK g \in [1..Len(d) -> P] :
        /\ \A m, n \in 1..Len(d) : m < n => g[m] < g[n]
        /\ \A m \in 1..Len(d) : d[m] = ds[g[m]]
        /\ \A i \in P : \E m \in 1..Len(d) : g[m] = i
  BY <1>4 DEF Keeps
<1>6. g \in [1..Len(d) -> 1..Len(ds)]
  BY <1>2, <1>5
<1>7. ThinsBy(g, d, ds, now, quotas.abuse)
  BY <1>3, <1>5, <1>6 DEF ThinsBy
<1>8. Thins(d, ds, now, quotas.abuse)
  BY <1>7 DEF Thins
<1> QED BY <1>4, <1>8 DEF d, P

\* lockState ages the entry of k, or drops it.
LEMMA LockStateThins ==
  ASSUME TermsHold, NEW ds \in Seq(Entry), NEW k
  PROVE  /\ LockState(ds, k) \in Seq(Entry) /\ Thins(LockState(ds, k), ds, now, quotas.abuse)
         /\ \A p \in 1..Len(LockState(ds, k)) :
              LockState(ds, k)[p].key = k =>
                /\ LiveAt(LockState(ds, k)[p], now, quotas.abuse)
                /\ LockState(ds, k)[p].until = 0 =>
                     Fresh(LockState(ds, k)[p].times, now, quotas.abuse.window)
                       = Len(LockState(ds, k)[p].times)
<1> DEFINE a == quotas.abuse
           aged == [i \in DOMAIN ds |-> IF ds[i].key = k THEN Aged(ds[i]) ELSE ds[i]]
           P == {i \in DOMAIN aged : aged[i].key = k => Live(aged[i])}
           d == Filtered(aged, P)
<1>1. DOMAIN ds = 1..Len(ds) /\ Len(ds) \in Nat /\ \A p \in 1..Len(ds) : ds[p] \in Entry
  BY LenProperties
<1>2. now \in Nat /\ a \in Terms
  BY DEF TermsHold
<1>3. \A p \in 1..Len(ds) :
        /\ aged[p] = IF ds[p].key = k THEN AgedAt(ds[p], now, a) ELSE ds[p]
        /\ aged[p] \in Entry /\ aged[p].key = ds[p].key
        /\ LiveAt(aged[p], now, a) <=> LiveAt(ds[p], now, a)
  <2>1. ASSUME NEW p \in 1..Len(ds)
        PROVE  /\ aged[p] = IF ds[p].key = k THEN AgedAt(ds[p], now, a) ELSE ds[p]
               /\ aged[p] \in Entry /\ aged[p].key = ds[p].key
               /\ LiveAt(aged[p], now, a) <=> LiveAt(ds[p], now, a)
    <3>1. ds[p] \in Entry
      BY <1>1
    <3>2. Aged(ds[p]) = AgedAt(ds[p], now, a)
      BY <3>1, LiveIsLive
    <3>3. aged[p] = IF ds[p].key = k THEN AgedAt(ds[p], now, a) ELSE ds[p]
      BY <1>1, <3>2
    <3> HIDE DEF aged
    <3>4. CASE ds[p].key # k
      BY <3>1, <3>3, <3>4
    <3>5. CASE ds[p].key = k
      <4>1. aged[p] = AgedAt(ds[p], now, a)
        BY <3>3, <3>5
      <4>2. AgedAt(ds[p], now, a) \in Entry /\ AgedAt(ds[p], now, a).key = ds[p].key
            /\ (LiveAt(AgedAt(ds[p], now, a), now, a) <=> LiveAt(ds[p], now, a))
        BY <1>2, <3>1, AgedEntry
      <4> QED BY <3>3, <4>1, <4>2
    <3> QED BY <3>4, <3>5
  <2> HIDE DEF aged
  <2> QED BY <2>1
<1>4. aged \in Seq(Entry) /\ Len(aged) = Len(ds) /\ DOMAIN aged = 1..Len(ds)
  <2>1. DOMAIN aged = 1..Len(ds)
    BY <1>1
  <2>2. aged \in [1..Len(ds) -> Entry]
    <3>1. aged = [i \in 1..Len(ds) |-> aged[i]]
      BY <1>1
    <3>2. \A i \in 1..Len(ds) : aged[i] \in Entry
      BY <1>3
    <3> HIDE DEF aged
    <3> QED BY <3>1, <3>2
  <2> HIDE DEF aged
  <2> QED BY <1>1, <2>1, <2>2, SeqDef, LenProperties
<1>5. LockState(ds, k) = d
  BY DEF LockState
<1> HIDE DEF aged
<1>6. P \in SUBSET (1..Len(aged))
  BY <1>4
<1>7. \A p \in 1..Len(ds) : p \in P <=> (ds[p].key = k => LiveAt(ds[p], now, a))
  <2>1. \A p \in 1..Len(ds) : Live(aged[p]) <=> LiveAt(ds[p], now, a)
    BY <1>3, LiveIsLive
  <2> QED BY <1>3, <1>4, <2>1
<1> HIDE DEF P
<1>8. d \in Seq(Entry) /\ Keeps(d, aged, P)
  BY <1>4, <1>6, FilteredFacts
<1> HIDE DEF d, a
<1>9. PICK g \in [1..Len(d) -> P] :
        /\ \A m, n \in 1..Len(d) : m < n => g[m] < g[n]
        /\ \A m \in 1..Len(d) : d[m] = aged[g[m]]
        /\ \A i \in P : \E m \in 1..Len(d) : g[m] = i
  BY <1>8 DEF Keeps
<1>10. g \in [1..Len(d) -> 1..Len(ds)]
  BY <1>4, <1>6, <1>9
<1>11. ThinsBy(g, d, ds, now, a)
  <2>1. \A p \in 1..Len(d) : d[p] = ds[g[p]] \/ d[p] = AgedAt(ds[g[p]], now, a)
    BY <1>3, <1>9, <1>10
  <2>2. \A p \in 1..Len(ds) : LiveAt(ds[p], now, a) => \E m \in 1..Len(d) : g[m] = p
    BY <1>7, <1>9
  <2> QED BY <1>9, <1>10, <2>1, <2>2 DEF ThinsBy
<1>12. ASSUME NEW p \in 1..Len(d), d[p].key = k
       PROVE  LiveAt(d[p], now, a) /\ (d[p].until = 0 => Fresh(d[p].times, now, a.window) = Len(d[p].times))
  <2>1. PICK e : e = ds[g[p]]
    OBVIOUS
  <2>2. g[p] \in 1..Len(ds) /\ g[p] \in P /\ e \in Entry
    BY <1>1, <1>9, <1>10, <2>1
  <2>3. d[p] = aged[g[p]]
    BY <1>9
  <2>4. e.key = k /\ LiveAt(e, now, a) /\ d[p] = AgedAt(e, now, a)
    BY <1>3, <1>7, <1>12, <2>1, <2>2, <2>3
  <2>5. LiveAt(d[p], now, a)
    BY <1>2, <2>2, <2>4, AgedEntry DEF a
  <2>6. ASSUME d[p].until = 0 PROVE Fresh(d[p].times, now, a.window) = Len(d[p].times)
    <3>1. e.times \in Seq(Nat) /\ a.window \in Nat
      BY <1>2, <2>2 DEF Entry, Terms, a
    <3>2. /\ AgedAt(e, now, a).until = e.until
          /\ e.until = 0 => AgedAt(e, now, a).times = RecentAt(e.times, now, a.window)
      BY <1>2, <2>2, AgedEntry
    <3>3. d[p].times = RecentAt(e.times, now, a.window)
      BY <2>4, <2>6, <3>2
    <3>4. Len(d[p].times) = Fresh(e.times, now, a.window)
      <4>1. now \in Nat
        BY <1>2
      <4>2. Len(RecentAt(e.times, now, a.window)) = Fresh(e.times, now, a.window)
        BY <3>1, <4>1, RecentFacts
      <4> QED BY <3>3, <4>2
    <3>5. now <= now
      BY <1>2
    <3>6. Fresh(RecentAt(e.times, now, a.window), now, a.window) = Fresh(e.times, now, a.window)
      BY <1>2, <3>1, <3>5, FreshOfRecent
    <3> QED BY <3>3, <3>4, <3>6
  <2> QED BY <2>5, <2>6
<1>13. Thins(d, ds, now, a)
  BY <1>11 DEF Thins
<1> QED BY <1>5, <1>8, <1>12, <1>13 DEF a

---------------------------------------------------------------------------
(* Signals *)

\* The other principals that were denied since.
Others(k, sg, i) == {sg[j].key : j \in i..Len(sg)} \ {k}
CrowdedAt(k, sg) == \E i \in DOMAIN sg : sg[i].key = k /\ Cardinality(Others(k, sg, i)) >= KeyBound

\* The signals with one more.
LEMMA SignalAppended ==
  ASSUME NEW sg \in Seq(Signal), NEW x \in Signal
  PROVE  /\ Append(sg, x) \in Seq(Signal) /\ Len(sg) \in Nat /\ Len(Append(sg, x)) = Len(sg) + 1
         /\ DOMAIN sg = 1..Len(sg) /\ DOMAIN Append(sg, x) = 1..(Len(sg) + 1)
         /\ \A i \in 1..Len(sg) : i \in 1..(Len(sg) + 1) /\ Append(sg, x)[i] = sg[i]
         /\ Append(sg, x)[Len(sg) + 1] = x
<1>1. Len(sg) \in Nat /\ DOMAIN sg = 1..Len(sg)
  BY LenProperties
<1>2. /\ Append(sg, x) \in Seq(Signal) /\ Len(Append(sg, x)) = Len(sg) + 1
      /\ \A i \in 1..Len(sg) : Append(sg, x)[i] = sg[i]
      /\ Append(sg, x)[Len(sg) + 1] = x
  BY AppendProperties
<1>3. DOMAIN Append(sg, x) = 1..(Len(sg) + 1)
  BY <1>2, LenProperties
<1>4. \A i \in 1..Len(sg) : i \in 1..(Len(sg) + 1)
  BY <1>1
<1> QED BY <1>1, <1>2, <1>3, <1>4

\* Other principals can be counted.
LEMMA OthersAreFinite ==
  ASSUME NEW sg \in Seq(Signal), NEW k, NEW i \in 1..Len(sg)
  PROVE  IsFiniteSet(Others(k, sg, i)) /\ Cardinality(Others(k, sg, i)) \in Nat
<1> DEFINE J == i..Len(sg)
           T == {sg[j].key : j \in J}
           h == [j \in J |-> sg[j].key]
<1>1. Len(sg) \in Nat /\ i \in Int
  BY LenProperties
<1>2. IsFiniteSet(J)
  BY <1>1, FS_Interval
<1>3. h \in Surjection(J, T)
  BY DEF Surjection
<1>4. IsFiniteSet(T)
  <2> HIDE DEF h, T, J
  <2> QED BY <1>2, <1>3, FS_Surjection
<1>5. IsFiniteSet(T \ {k})
  <2> HIDE DEF T
  <2> QED BY <1>4, FS_RemoveElement
<1> QED BY <1>5, FS_CardinalityType DEF Others

\* Times stay backed under one more signal.
LEMMA StaysBacked ==
  ASSUME NEW sg \in Seq(Signal), NEW x \in Signal, NEW e, Backed(e, sg)
  PROVE  Backed(e, Append(sg, x))
<1>1. PICK f \in [1..Len(e.times) -> 1..Len(sg)] :
        /\ \A i, j \in 1..Len(e.times) : f[i] = f[j] => i = j
        /\ \A i \in 1..Len(e.times) : sg[f[i]].key = e.key /\ sg[f[i]].at = e.times[i]
  BY DEF Backed
<1> DEFINE g == Append(sg, x)
<1>2. Len(g) = Len(sg) + 1 /\ \A i \in 1..Len(sg) : i \in 1..Len(g) /\ g[i] = sg[i]
  BY SignalAppended
<1> HIDE DEF g
<1>3. f \in [1..Len(e.times) -> 1..Len(g)]
  BY <1>1, <1>2
<1>4. \A i \in 1..Len(e.times) : g[f[i]].key = e.key /\ g[f[i]].at = e.times[i]
  BY <1>1, <1>2
<1> QED BY <1>1, <1>3, <1>4 DEF Backed, g

\* The denials within a window before a moment can be counted.
LEMMA CausesAreFinite ==
  ASSUME NEW sg \in Seq(Signal), NEW k, NEW at, NEW w
  PROVE  IsFiniteSet(Causes(k, sg, at, w)) /\ Cardinality(Causes(k, sg, at, w)) \in Nat
<1>1. Len(sg) \in Nat /\ Causes(k, sg, at, w) \in SUBSET (1..Len(sg))
  BY LenProperties DEF Causes
<1>2. IsFiniteSet(1..Len(sg))
  BY <1>1, FirstPlaces
<1> QED BY <1>1, <1>2, FS_Subset, FS_CardinalityType

\* A lock stays earned under one more signal.
LEMMA StaysEarned ==
  ASSUME NEW sg \in Seq(Signal), NEW x \in Signal, NEW e, NEW a \in Terms, EarnedBy(e, sg, a)
  PROVE  EarnedBy(e, Append(sg, x), a)
<1> DEFINE g == Append(sg, x)
           A == Causes(e.key, sg, e.until - a.lock, a.window)
           B == Causes(e.key, g, e.until - a.lock, a.window)
<1>1. /\ g \in Seq(Signal) /\ DOMAIN sg = 1..Len(sg) /\ DOMAIN g = 1..Len(g)
      /\ \A i \in 1..Len(sg) : i \in 1..Len(g) /\ g[i] = sg[i]
  BY SignalAppended
<1> HIDE DEF g
<1>2. A \in SUBSET B
  BY <1>1 DEF Causes
<1>3. IsFiniteSet(A) /\ Cardinality(A) \in Nat /\ IsFiniteSet(B) /\ Cardinality(B) \in Nat
  BY <1>1, CausesAreFinite
<1>4. Cardinality(A) <= Cardinality(B)
  <2> HIDE DEF A, B
  <2> QED BY <1>2, <1>3, FS_Subset
<1>5. a.denials \in Nat
  BY DEF Terms
<1>6. ASSUME e.until # 0 PROVE e.until - a.lock \in Nat /\ Cardinality(B) >= a.denials
  <2>1. e.until - a.lock \in Nat /\ Cardinality(A) >= a.denials
    BY <1>6 DEF EarnedBy
  <2> HIDE DEF A, B
  <2> QED BY <1>3, <1>4, <1>5, <2>1
<1> QED BY <1>6 DEF EarnedBy, g

\* One who was crowded out stays so.
LEMMA StaysCrowded ==
  ASSUME NEW sg \in Seq(Signal), NEW x \in Signal, NEW k, CrowdedAt(k, sg)
  PROVE  CrowdedAt(k, Append(sg, x))
<1> DEFINE g == Append(sg, x)
<1>1. /\ g \in Seq(Signal) /\ DOMAIN sg = 1..Len(sg) /\ DOMAIN g = 1..Len(g)
      /\ Len(sg) \in Nat /\ Len(g) = Len(sg) + 1
      /\ \A i \in 1..Len(sg) : i \in 1..Len(g) /\ g[i] = sg[i]
  BY SignalAppended
<1> HIDE DEF g
<1>2. PICK i \in 1..Len(sg) : sg[i].key = k /\ Cardinality(Others(k, sg, i)) >= KeyBound
  BY <1>1 DEF CrowdedAt
<1>3. i \in 1..Len(g) /\ g[i].key = k
  BY <1>1, <1>2
<1>4. \A j \in i..Len(sg) : j \in i..Len(g) /\ g[j] = sg[j]
  BY <1>1
<1>5. Others(k, sg, i) \in SUBSET Others(k, g, i)
  <2>1. ASSUME NEW y \in Others(k, sg, i) PROVE y \in Others(k, g, i)
    <3>1. PICK j \in i..Len(sg) : y = sg[j].key
      BY DEF Others
    <3>2. j \in i..Len(g) /\ y = g[j].key /\ y # k
      BY <1>4, <3>1 DEF Others
    <3> QED BY <3>2 DEF Others
  <2> QED BY <2>1
<1>6. /\ IsFiniteSet(Others(k, g, i)) /\ Cardinality(Others(k, g, i)) \in Nat
      /\ Cardinality(Others(k, sg, i)) \in Nat
  BY <1>1, <1>3, OthersAreFinite
<1>7. Cardinality(Others(k, sg, i)) <= Cardinality(Others(k, g, i))
  BY <1>5, <1>6, FS_Subset
<1>8. KeyBound \in Nat
  BY GateAssumption
<1>9. Cardinality(Others(k, g, i)) >= KeyBound
  BY <1>2, <1>6, <1>7, <1>8
<1> QED BY <1>1, <1>3, <1>9 DEF CrowdedAt, g

\* A table keeps its shape under one more signal.
LEMMA ShapeStays ==
  ASSUME NEW sg \in Seq(Signal), NEW x \in Signal, NEW a \in Terms, NEW ds, TableShape(ds, sg, a)
  PROVE  TableShape(ds, Append(sg, x), a)
<1> DEFINE g == Append(sg, x)
<1>1. \A p \in 1..Len(ds) : Backed(ds[p], g) /\ EarnedBy(ds[p], g, a)
  BY StaysBacked, StaysEarned DEF TableShape
<1>2. Len(g) = Len(sg) + 1 /\ \A i \in 1..Len(sg) : i \in 1..Len(g) /\ g[i] = sg[i]
  BY SignalAppended
<1> HIDE DEF g
<1>3. InOrder(ds, g)
  <2>1. PICK s \in [1..Len(ds) -> 1..Len(sg)] :
          /\ \A p, q \in 1..Len(ds) : p < q => s[p] < s[q]
          /\ \A p \in 1..Len(ds) : sg[s[p]].key = ds[p].key
    BY DEF TableShape, InOrder
  <2>2. s \in [1..Len(ds) -> 1..Len(g)] /\ \A p \in 1..Len(ds) : g[s[p]].key = ds[p].key
    BY <1>2, <2>1
  <2> QED BY <2>1, <2>2 DEF InOrder
<1> QED BY <1>1, <1>3 DEF TableShape, g

\* The principal whose entry makes room was denied before all the others were.
LEMMA OldestIsCrowded ==
  ASSUME NEW sg \in Seq(Signal), NEW k \in Principals, NEW t \in Nat, NEW a, NEW ds,
         TableShape(ds, sg, a), Len(ds) = KeyBound, \A p \in 1..Len(ds) : ds[p].key # k
  PROVE  CrowdedAt(ds[1].key, Append(sg, [key |-> k, at |-> t]))
<1> DEFINE x == [key |-> k, at |-> t]
           g == Append(sg, x)
           B == KeyBound
           o == ds[1].key
<1>1. x \in Signal /\ x.key = k
  BY DEF Signal
<1> HIDE DEF x
<1>2. /\ g \in Seq(Signal) /\ DOMAIN g = 1..Len(g) /\ Len(sg) \in Nat /\ Len(g) = Len(sg) + 1
      /\ \A i \in 1..Len(sg) : i \in 1..Len(g) /\ g[i] = sg[i]
      /\ g[Len(g)].key = k
  BY <1>1, SignalAppended
<1> HIDE DEF g
<1>3. B \in Nat /\ B # 0 /\ Len(ds) = B
  BY GateAssumption
<1> HIDE DEF B
<1>4. 1 \in 1..B /\ B \in 1..B
  BY <1>3
<1>5. PICK s \in [1..B -> 1..Len(sg)] :
        /\ \A p, q \in 1..B : p < q => s[p] < s[q]
        /\ \A p \in 1..B : sg[s[p]].key = ds[p].key
  BY <1>3 DEF TableShape, InOrder
<1>6. PICK i \in 1..Len(sg) : i = s[1]
  BY <1>4, <1>5
<1>7. i \in 1..Len(g) /\ g[i].key = o
  BY <1>2, <1>4, <1>5, <1>6
<1> DEFINE T == Others(o, g, i)
           h == [p \in 1..B |-> IF p < B THEN ds[p + 1].key ELSE k]
<1>8. \A p, q \in 1..B : ds[p].key = ds[q].key => p = q
  BY <1>3 DEF TableShape, OneEach
<1>9. \A p \in 1..B : p < B => p + 1 \in 1..B /\ 1 < p + 1
  BY <1>3
<1>10. ASSUME NEW p \in 1..B, p < B PROVE ds[p + 1].key \in T
  <2>1. p + 1 \in 1..B /\ s[1] < s[p + 1] /\ s[p + 1] \in 1..Len(sg)
    BY <1>4, <1>5, <1>9, <1>10
  <2>2. PICK j \in 1..Len(sg) : j = s[p + 1]
    BY <2>1
  <2>3. j \in i..Len(g) /\ g[j].key = ds[p + 1].key
    <3>1. j \in i..Len(g)
      BY <1>2, <1>6, <2>1, <2>2
    <3>2. g[j] = sg[j] /\ sg[j].key = ds[p + 1].key
      BY <1>2, <1>5, <2>1, <2>2
    <3> QED BY <3>1, <3>2
  <2>4. ds[p + 1].key # o
    BY <1>4, <1>8, <1>9, <1>10
  <2> QED BY <2>3, <2>4 DEF Others
<1>11. k \in T
  <2>1. Len(g) \in i..Len(g) /\ k # o
    BY <1>2, <1>3, <1>4
  <2> QED BY <1>2, <2>1 DEF Others
<1>12. h \in [1..B -> T]
  <2> HIDE DEF T
  <2> QED BY <1>10, <1>11
<1>13. ASSUME NEW p \in 1..B, NEW q \in 1..B, h[p] = h[q] PROVE p = q
  <2>1. CASE p < B /\ q < B
    <3>1. ds[p + 1].key = ds[q + 1].key /\ p + 1 \in 1..B /\ q + 1 \in 1..B
      BY <1>9, <1>13, <2>1
    <3>2. p + 1 = q + 1
      BY <1>8, <3>1
    <3> QED BY <1>3, <3>2
  <2>2. CASE p < B /\ ~(q < B)
    BY <1>3, <1>9, <1>13, <2>2
  <2>3. CASE ~(p < B) /\ q < B
    BY <1>3, <1>9, <1>13, <2>3
  <2>4. CASE ~(p < B) /\ ~(q < B)
    BY <1>3, <2>4
  <2> QED BY <2>1, <2>2, <2>3, <2>4
<1>14. h \in Injection(1..B, T)
  <2> HIDE DEF h, T
  <2> QED BY <1>12, <1>13 DEF Injection, IsInjective
<1>15. IsFiniteSet(T) /\ Cardinality(T) \in Nat
  BY <1>2, <1>7, OthersAreFinite
<1>16. Cardinality(1..B) = B /\ Cardinality(1..B) <= Cardinality(T)
  <2>1. Cardinality(1..B) = B
    BY <1>3, FirstPlaces
  <2> HIDE DEF h, T
  <2>2. Cardinality(1..B) <= Cardinality(T)
    BY <1>14, <1>15, FS_Injection
  <2> QED BY <2>1, <2>2
<1>17. Cardinality(T) >= B
  <2> HIDE DEF T
  <2> QED BY <1>3, <1>15, <1>16
<1> QED BY <1>2, <1>7, <1>17 DEF CrowdedAt, B, g, x

---------------------------------------------------------------------------
(* One more denial *)

\* Nothing is signalled from the future.
Past(sg) == sg \in Seq(Signal) /\ \A i \in DOMAIN sg : sg[i].at <= now

\* An entry that is not locked and has no time outside the window.
Open(e) == e.until = 0 /\ Fresh(e.times, now, quotas.abuse.window) = Len(e.times)

\* A book that is not locked, and has the denials of an entry.
Even(e, b) ==
  /\ b.until <= now
  /\ \A u \in Nat : now <= u =>
       Fresh(e.times, u, quotas.abuse.window) = Fresh(b.times, u, quotas.abuse.window)

\* A lock has no times: the next one starts from none.
Blank(b) == b.until # 0 => b.times = <<>>

\* What one more denial makes of an entry.
LEMMA NotedFields ==
  ASSUME TermsHold, NEW e \in Entry, e.until = 0
  PROVE  /\ Noted(e) \in Entry /\ Noted(e).key = e.key /\ Noted(e).times = Append(e.times, now)
         /\ Len(Noted(e).times) = Len(e.times) + 1 /\ Len(e.times) \in Nat
         /\ Noted(e).until = IF Len(e.times) + 1 >= quotas.abuse.denials
                             THEN now + quotas.abuse.lock ELSE 0
<1>1. /\ now \in Nat /\ quotas.abuse.denials \in Nat /\ quotas.abuse.lock \in Nat
      /\ e.times \in Seq(Nat) /\ e.until \in Nat /\ e.key \in Principals
  BY DEF TermsHold, Terms, Entry
<1>2. Append(e.times, now) \in Seq(Nat) /\ Len(Append(e.times, now)) = Len(e.times) + 1
  BY <1>1, AppendProperties
<1>3. Len(e.times) \in Nat
  BY <1>1, LenProperties
<1>4. Noted(e) = [key |-> e.key, times |-> Append(e.times, now),
                  until |-> IF Len(e.times) + 1 >= quotas.abuse.denials
                            THEN now + quotas.abuse.lock ELSE 0]
  <2>1. PICK ts, u : /\ ts = Append(e.times, now)
                    /\ u = IF Len(ts) >= quotas.abuse.denials THEN now + quotas.abuse.lock ELSE 0
    OBVIOUS
  <2>2. Noted(e) = [e EXCEPT !.times = ts, !.until = u]
    BY <2>1 DEF Noted
  <2>3. Noted(e) = [key |-> e.key, times |-> ts, until |-> u]
    BY <2>2 DEF Entry
  <2> QED BY <1>2, <2>1, <2>3
<1>5. now + quotas.abuse.lock \in Nat
  BY <1>1
<1>6. Noted(e) \in Entry
  BY <1>1, <1>2, <1>4, <1>5 DEF Entry
<1> QED BY <1>2, <1>3, <1>4, <1>6

\* The times of an open entry are of denials within one window.
LEMMA OpenTimes ==
  ASSUME NEW e \in Entry, Open(e), NEW i \in 1..Len(e.times)
  PROVE  now - e.times[i] < quotas.abuse.window
<1> DEFINE w == quotas.abuse.window
           S == InWindow(e.times, now, w)
<1>1. e.times \in Seq(Nat)
  BY DEF Entry
<1>2. Len(e.times) \in Nat /\ IsFiniteSet(1..Len(e.times)) /\ Cardinality(1..Len(e.times)) = Len(e.times)
  BY <1>1, LenProperties, FirstPlaces
<1>3. S \in SUBSET (1..Len(e.times)) /\ Cardinality(S) = Len(e.times)
  BY DEF Open, Fresh, InWindow
<1>4. S = 1..Len(e.times)
  <2> HIDE DEF S
  <2> QED BY <1>2, <1>3, FS_Subset
<1> QED BY <1>4 DEF InWindow

\* The time of the new denial is backed by the new signal.
LEMMA NotedBacked ==
  ASSUME TermsHold, NEW e \in Entry, e.until = 0, NEW sg \in Seq(Signal), Backed(e, sg)
  PROVE  Backed(Noted(e), Append(sg, [key |-> e.key, at |-> now]))
<1> DEFINE x == [key |-> e.key, at |-> now]
           g == Append(sg, x)
           n == Len(e.times)
           d == Noted(e)
<1>1. x \in Signal /\ x.key = e.key /\ x.at = now
  BY DEF TermsHold, Entry, Signal
<1> HIDE DEF x
<1>2. /\ Len(sg) \in Nat /\ Len(g) = Len(sg) + 1
      /\ \A i \in 1..Len(sg) : i \in 1..Len(g) /\ g[i] = sg[i]
      /\ g[Len(sg) + 1] = x
  BY <1>1, SignalAppended
<1> HIDE DEF g
<1>3. d.key = e.key /\ d.times = Append(e.times, now) /\ Len(d.times) = n + 1 /\ n \in Nat
  BY NotedFields
<1>4. (\A i \in 1..n : d.times[i] = e.times[i]) /\ d.times[n + 1] = now
  <2>1. e.times \in Seq(Nat) /\ now \in Nat
    BY DEF TermsHold, Entry
  <2> QED BY <1>3, <2>1, AppendProperties
<1> HIDE DEF n, d
<1>5. PICK f \in [1..n -> 1..Len(sg)] :
        /\ \A i, j \in 1..n : f[i] = f[j] => i = j
        /\ \A i \in 1..n : sg[f[i]].key = e.key /\ sg[f[i]].at = e.times[i]
  BY DEF Backed, n
<1> DEFINE h == [i \in 1..(n + 1) |-> IF i = n + 1 THEN Len(sg) + 1 ELSE f[i]]
<1>6. \A i \in 1..(n + 1) : i = n + 1 \/ (i \in 1..n /\ i # n + 1)
  BY <1>3
<1>7. \A i \in 1..n : f[i] \in 1..Len(sg) /\ f[i] # Len(sg) + 1
  BY <1>2, <1>5
<1>8. h \in [1..Len(d.times) -> 1..Len(g)]
  <2>1. \A i \in 1..(n + 1) : h[i] \in 1..Len(g)
    <3>1. Len(sg) + 1 \in 1..Len(g)
      BY <1>2
    <3>2. \A i \in 1..n : f[i] \in 1..Len(g)
      BY <1>2, <1>7
    <3> QED BY <1>6, <3>1, <3>2
  <2> QED BY <1>3, <2>1
<1>9. \A i, j \in 1..Len(d.times) : h[i] = h[j] => i = j
  <2>1. ASSUME NEW i \in 1..(n + 1), NEW j \in 1..(n + 1), h[i] = h[j] PROVE i = j
    BY <1>5, <1>6, <1>7, <2>1
  <2> HIDE DEF h
  <2> QED BY <1>3, <2>1
<1>10. \A i \in 1..Len(d.times) : g[h[i]].key = d.key /\ g[h[i]].at = d.times[i]
  <2>1. ASSUME NEW i \in 1..(n + 1) PROVE g[h[i]].key = d.key /\ g[h[i]].at = d.times[i]
    <3>1. CASE i = n + 1
      <4>1. h[i] = Len(sg) + 1
        BY <3>1
      <4> HIDE DEF h
      <4> QED BY <1>1, <1>2, <1>3, <1>4, <3>1, <4>1
    <3>2. CASE i \in 1..n /\ i # n + 1
      <4>1. h[i] = f[i]
        BY <3>2
      <4> HIDE DEF h
      <4>2. f[i] \in 1..Len(sg) /\ g[f[i]] = sg[f[i]]
        BY <1>2, <1>7, <3>2
      <4>3. sg[f[i]].key = e.key /\ sg[f[i]].at = e.times[i]
        BY <1>5, <3>2
      <4>4. d.times[i] = e.times[i]
        BY <1>4, <3>2
      <4> QED BY <1>3, <4>1, <4>2, <4>3, <4>4
    <3> QED BY <1>6, <3>1, <3>2
  <2> HIDE DEF h
  <2> QED BY <1>3, <2>1
<1> HIDE DEF h
<1>11. Backed(d, g)
  BY <1>8, <1>9, <1>10, Zenon DEF Backed
<1> QED BY <1>11 DEF d, g, x

\* A lock is earned by the denials that the entry counts.
LEMMA NotedEarned ==
  ASSUME TermsHold, NEW e \in Entry, Open(e), NEW sg, Past(sg), Backed(e, sg)
  PROVE  EarnedBy(Noted(e), Append(sg, [key |-> e.key, at |-> now]), quotas.abuse)
<1> DEFINE x == [key |-> e.key, at |-> now]
           g == Append(sg, x)
           d == Noted(e)
           n == Len(d.times)
           a == quotas.abuse
           C == Causes(e.key, g, now, a.window)
<1>1. x \in Signal /\ x.at = now /\ now \in Nat /\ a \in Terms
  BY DEF TermsHold, Entry, Signal
<1>2. sg \in Seq(Signal) /\ \A i \in DOMAIN sg : sg[i].at <= now
  BY DEF Past
<1>3. /\ d.key = e.key /\ d.times = Append(e.times, now)
      /\ Len(d.times) = Len(e.times) + 1 /\ Len(e.times) \in Nat
      /\ d.until = IF Len(e.times) + 1 >= a.denials THEN now + a.lock ELSE 0
  BY NotedFields DEF Open
<1>4. Backed(d, g)
  BY <1>2, NotedBacked DEF Open
<1>5. /\ g \in Seq(Signal) /\ DOMAIN g = 1..Len(g) /\ DOMAIN sg = 1..Len(sg) /\ Len(sg) \in Nat
      /\ Len(g) = Len(sg) + 1 /\ \A i \in 1..Len(sg) : g[i] = sg[i]
      /\ g[Len(sg) + 1] = x
  BY <1>1, <1>2, SignalAppended
<1>6. /\ a.denials \in Nat /\ a.window \in Nat /\ a.lock \in Nat /\ a.denials > 0 /\ a.window > 0
      /\ a.lock > 0
  BY <1>1 DEF Terms
<1>7. \A i \in 1..Len(g) : g[i].at <= now
  <2>1. \A i \in 1..Len(g) : i \in 1..Len(sg) \/ i = Len(sg) + 1
    BY <1>5
  <2> HIDE DEF g, x
  <2>2. now <= now
    BY <1>1
  <2> QED BY <1>1, <1>2, <1>5, <2>1, <2>2
<1>8. \A i \in 1..n : now - d.times[i] < a.window
  <2>1. e.times \in Seq(Nat)
    BY DEF Entry
  <2>2. (\A i \in 1..Len(e.times) : d.times[i] = e.times[i]) /\ d.times[Len(e.times) + 1] = now
    BY <1>1, <1>3, <2>1, AppendProperties
  <2>3. \A i \in 1..n : i \in 1..Len(e.times) \/ i = Len(e.times) + 1
    BY <1>3
  <2>4. \A i \in 1..Len(e.times) : now - e.times[i] < a.window
    BY OpenTimes
  <2>5. now - now < a.window
    BY <1>1, <1>6
  <2> HIDE DEF d, n, a
  <2> QED BY <2>2, <2>3, <2>4, <2>5
<1> HIDE DEF d, g, a, x
<1>9. PICK f \in [1..n -> 1..Len(g)] :
        /\ \A i, j \in 1..n : f[i] = f[j] => i = j
        /\ \A i \in 1..n : g[f[i]].key = d.key /\ g[f[i]].at = d.times[i]
  BY <1>4 DEF Backed
<1> HIDE DEF n
<1>10. \A i \in 1..n : f[i] \in C
  BY <1>3, <1>5, <1>7, <1>8, <1>9 DEF Causes
<1>11. f \in Injection(1..n, C)
  <2> HIDE DEF C
  <2>1. f \in [1..n -> C]
    BY <1>9, <1>10
  <2> QED BY <1>9, <2>1 DEF Injection, IsInjective
<1>12. IsFiniteSet(C) /\ Cardinality(C) \in Nat
  BY <1>5, CausesAreFinite
<1>13. n \in Nat /\ Cardinality(1..n) = n
  BY <1>3, FirstPlaces DEF n
<1>14. n <= Cardinality(C)
  <2> HIDE DEF C
  <2>1. Cardinality(1..n) <= Cardinality(C)
    BY <1>11, <1>12, FS_Injection
  <2> QED BY <1>13, <2>1
<1>15. ASSUME d.until # 0
       PROVE  d.until - a.lock \in Nat /\ Cardinality(Causes(d.key, g, d.until - a.lock, a.window)) >= a.denials
  <2>1. d.until = now + a.lock /\ n >= a.denials
    BY <1>3, <1>15 DEF n
  <2>2. d.until - a.lock = now
    BY <1>1, <1>6, <2>1
  <2>3. Cardinality(C) >= a.denials
    <3> HIDE DEF C
    <3> QED BY <1>6, <1>12, <1>13, <1>14, <2>1
  <2> QED BY <1>1, <1>3, <2>2, <2>3
<1>16. EarnedBy(d, g, a)
  BY <1>15, Zenon DEF EarnedBy
<1> QED BY <1>16 DEF d, g, x, a

\* What the book enters of a denial.
LEMMA EnteredFields ==
  ASSUME TermsHold, NEW b \in Lock
  PROVE  /\ b.until > now => Entered(b) = b
         /\ b.until <= now =>
              Entered(b) = IF Fresh(b.times, now, quotas.abuse.window) + 1 >= quotas.abuse.denials
                           THEN [times |-> <<>>, until |-> now + quotas.abuse.lock]
                           ELSE [times |-> Append(RecentAt(b.times, now, quotas.abuse.window), now),
                                 until |-> 0]
<1> DEFINE r == RecentAt(b.times, now, quotas.abuse.window)
           ts == Append(r, now)
<1>1. /\ now \in Nat /\ quotas.abuse.window \in Nat /\ quotas.abuse.denials \in Nat
      /\ b.times \in Seq(Nat) /\ b.until \in Nat
  BY DEF TermsHold, Terms, Lock
<1>2. r \in Seq(Nat) /\ Len(r) = Fresh(b.times, now, quotas.abuse.window)
  BY <1>1, RecentFacts
<1>3. Recent(b.times) = r
  BY DEF Recent, RecentAt
<1> HIDE DEF r
<1>4. Len(ts) = Fresh(b.times, now, quotas.abuse.window) + 1
  BY <1>1, <1>2, AppendProperties
<1>5. Locked(b) <=> b.until > now
  BY DEF Locked
<1>6. ASSUME b.until > now PROVE Entered(b) = b
  BY <1>5, <1>6 DEF Entered
<1>7. ASSUME b.until <= now
      PROVE  Entered(b) = IF Len(ts) >= quotas.abuse.denials
                          THEN [times |-> <<>>, until |-> now + quotas.abuse.lock]
                          ELSE [times |-> ts, until |-> 0]
  <2>1. ~Locked(b)
    BY <1>1, <1>5, <1>7
  <2> HIDE DEF Locked
  <2>2. CASE Len(Append(Recent(b.times), now)) >= quotas.abuse.denials
    BY <1>3, <2>1, <2>2 DEF Entered
  <2>3. CASE ~(Len(Append(Recent(b.times), now)) >= quotas.abuse.denials)
    BY <1>3, <2>1, <2>3 DEF Entered
  <2> QED BY <2>2, <2>3
<1> QED BY <1>4, <1>6, <1>7 DEF r

\* What one more denial makes of a book is a book.
LEMMA EnteredLock ==
  ASSUME TermsHold, NEW b \in Lock, Blank(b)
  PROVE  Entered(b) \in Lock /\ Blank(Entered(b))
<1> DEFINE r == RecentAt(b.times, now, quotas.abuse.window)
<1>1. /\ now \in Nat /\ quotas.abuse.window \in Nat /\ quotas.abuse.lock \in Nat
      /\ b.times \in Seq(Nat) /\ b.until \in Nat
  BY DEF TermsHold, Terms, Lock
<1>2. r \in Seq(Nat)
  BY <1>1, RecentFacts
<1> HIDE DEF r
<1>3. Append(r, now) \in Seq(Nat) /\ <<>> \in Seq(Nat)
  BY <1>1, <1>2, AppendProperties, EmptySeq
<1>4. \/ Entered(b) = b
      \/ Entered(b) = [times |-> <<>>, until |-> now + quotas.abuse.lock]
      \/ Entered(b) = [times |-> Append(r, now), until |-> 0]
  <2>1. b.until > now \/ b.until <= now
    BY <1>1
  <2> QED BY <2>1, EnteredFields DEF r
<1>5. CASE Entered(b) = [times |-> <<>>, until |-> now + quotas.abuse.lock]
  BY <1>1, <1>3, <1>5 DEF Lock, Blank
<1>6. CASE Entered(b) = [times |-> Append(r, now), until |-> 0]
  BY <1>1, <1>3, <1>6 DEF Lock, Blank
<1> QED BY <1>4, <1>5, <1>6

\* The table locks when the book does.
LEMMA NotedSame ==
  ASSUME TermsHold, NEW e \in Entry, Open(e), NEW b \in Lock, Even(e, b)
  PROVE  SameLock(Noted(e), Entered(b), now, quotas.abuse)
<1> DEFINE w == quotas.abuse.window
           D == quotas.abuse.denials
           r == RecentAt(b.times, now, w)
<1>1. /\ now \in Nat /\ w \in Nat /\ D \in Nat /\ quotas.abuse.lock \in Nat /\ quotas.abuse.lock > 0
      /\ b.times \in Seq(Nat) /\ e.times \in Seq(Nat)
  BY DEF TermsHold, Terms, Lock, Entry
<1>2. /\ Noted(e).times = Append(e.times, now)
      /\ Noted(e).until = IF Len(e.times) + 1 >= D THEN now + quotas.abuse.lock ELSE 0
  BY NotedFields DEF Open
<1>3. Entered(b) = IF Fresh(b.times, now, w) + 1 >= D
                   THEN [times |-> <<>>, until |-> now + quotas.abuse.lock]
                   ELSE [times |-> Append(r, now), until |-> 0]
  BY EnteredFields DEF Even
<1>4. Fresh(b.times, now, w) = Len(e.times)
  <2>1. now <= now
    BY <1>1
  <2> QED BY <1>1, <2>1 DEF Even, Open
<1>5. CASE Len(e.times) + 1 >= D
  <2>1. Noted(e).until = now + quotas.abuse.lock /\ Entered(b).until = now + quotas.abuse.lock
    BY <1>2, <1>3, <1>4, <1>5
  <2> QED BY <1>1, <2>1 DEF SameLock
<1>6. CASE ~(Len(e.times) + 1 >= D)
  <2>1. Noted(e).until = 0 /\ Entered(b).until = 0 /\ Entered(b).times = Append(r, now)
    BY <1>2, <1>3, <1>4, <1>6
  <2>2. ASSUME NEW u \in Nat, now <= u
        PROVE  Fresh(Append(e.times, now), u, w) = Fresh(Append(r, now), u, w)
    <3>1. r \in Seq(Nat)
      BY <1>1, RecentFacts
    <3>2. Fresh(r, u, w) = Fresh(b.times, u, w)
      BY <1>1, <2>2, FreshOfRecent
    <3>3. Fresh(e.times, u, w) = Fresh(b.times, u, w)
      BY <2>2 DEF Even
    <3> HIDE DEF r
    <3>4. Fresh(Append(e.times, now), u, w)
            = IF u - now < w THEN Fresh(e.times, u, w) + 1 ELSE Fresh(e.times, u, w)
      BY <1>1, FreshOfOneMore
    <3>5. Fresh(Append(r, now), u, w)
            = IF u - now < w THEN Fresh(r, u, w) + 1 ELSE Fresh(r, u, w)
      BY <1>1, <3>1, FreshOfOneMore
    <3> QED BY <3>2, <3>3, <3>4, <3>5
  <2> QED BY <1>2, <2>1, <2>2 DEF SameLock
<1> QED BY <1>5, <1>6

\* An open entry that tells what the book tells has its denials.
LEMMA SameIsEven ==
  ASSUME TermsHold, NEW e, Open(e), NEW b, SameLock(e, b, now, quotas.abuse)
  PROVE  Even(e, b)
<1>1. b.until = 0 /\ now \in Nat
  BY DEF Open, SameLock, TermsHold
<1>2. b.until <= now
  BY <1>1
<1> QED BY <1>2 DEF Open, SameLock, Even

\* A new entry has no denial yet.
LEMMA NewIsOpen ==
  ASSUME NEW k \in Principals
  PROVE  /\ NewEntry(k) \in Entry /\ NewEntry(k).key = k /\ Open(NewEntry(k))
         /\ \A sg : Backed(NewEntry(k), sg)
         /\ \A b : NoneLeft(b, now, quotas.abuse) => Even(NewEntry(k), b)
<1> DEFINE e == NewEntry(k)
<1>1. e.key = k /\ e.times = <<>> /\ e.until = 0 /\ e = [key |-> k, times |-> <<>>, until |-> 0]
  BY DEF NewEntry
<1> HIDE DEF e
<1>2. <<>> \in Seq(Nat) /\ Len(<<>>) = 0
  BY EmptySeq
<1>3. e \in Entry
  BY <1>1, <1>2 DEF Entry
<1>4. Open(e)
  BY <1>1, <1>2, EmptyIsStale DEF Open
<1>5. ASSUME NEW sg PROVE Backed(e, sg)
  <2> DEFINE f == [i \in 1..0 |-> 1]
  <2>1. f \in [1..Len(e.times) -> 1..Len(sg)]
    BY <1>1, <1>2
  <2>2. \A i \in 1..Len(e.times) : FALSE
    BY <1>1, <1>2
  <2> HIDE DEF f
  <2> QED BY <2>1, <2>2 DEF Backed
<1>6. ASSUME NEW b, NoneLeft(b, now, quotas.abuse) PROVE Even(e, b)
  BY <1>1, <1>6, EmptyIsStale DEF NoneLeft, Even
<1> QED BY <1>1, <1>3, <1>4, <1>5, <1>6 DEF e

---------------------------------------------------------------------------
(* noteDenial *)

\* The denial is of a principal that has an entry.
LEMMA NotedTable ==
  ASSUME TermsHold, NEW sg, Past(sg), NEW k \in Principals, NEW ds, TableShape(ds, sg, quotas.abuse),
         \A p \in 1..Len(ds) : ds[p].key = k => Open(ds[p]),
         NEW d, d = [i \in DOMAIN ds |-> IF ds[i].key = k THEN Noted(ds[i]) ELSE ds[i]]
  PROVE  /\ TableShape(d, Append(sg, [key |-> k, at |-> now]), quotas.abuse)
         /\ Len(ds) \in Nat /\ Len(d) = Len(ds)
         /\ \A p \in 1..Len(ds) :
              d[p].key = ds[p].key /\ d[p] = IF ds[p].key = k THEN Noted(ds[p]) ELSE ds[p]
<1> DEFINE x == [key |-> k, at |-> now]
           g == Append(sg, x)
           a == quotas.abuse
<1>1. /\ ds \in Seq(Entry) /\ DOMAIN ds = 1..Len(ds) /\ Len(ds) \in Nat
      /\ \A p \in 1..Len(ds) : ds[p] \in Entry
  BY LenProperties DEF TableShape
<1>2. \A p \in 1..Len(ds) : d[p] = IF ds[p].key = k THEN Noted(ds[p]) ELSE ds[p]
  BY <1>1
<1>3. sg \in Seq(Signal) /\ x \in Signal /\ a \in Terms /\ now \in Nat
  BY DEF Past, TermsHold, Signal
<1>4. \A p \in 1..Len(ds) : ds[p].key = k =>
        /\ Noted(ds[p]) \in Entry /\ Noted(ds[p]).key = k
        /\ Backed(Noted(ds[p]), g) /\ EarnedBy(Noted(ds[p]), g, a)
  <2>1. ASSUME NEW p \in 1..Len(ds), ds[p].key = k
        PROVE  /\ Noted(ds[p]) \in Entry /\ Noted(ds[p]).key = k
               /\ Backed(Noted(ds[p]), g) /\ EarnedBy(Noted(ds[p]), g, a)
    <3>1. ds[p] \in Entry /\ Open(ds[p]) /\ ds[p].until = 0 /\ Backed(ds[p], sg)
      BY <1>1, <2>1 DEF Open, TableShape
    <3>2. Noted(ds[p]) \in Entry /\ Noted(ds[p]).key = k
      BY <2>1, <3>1, NotedFields
    <3>3. Backed(Noted(ds[p]), g)
      BY <1>3, <2>1, <3>1, NotedBacked
    <3>4. EarnedBy(Noted(ds[p]), g, a)
      BY <2>1, <3>1, NotedEarned
    <3> QED BY <3>2, <3>3, <3>4
  <2> QED BY <2>1
<1>5. \A p \in 1..Len(ds) : Backed(ds[p], g) /\ EarnedBy(ds[p], g, a)
  BY <1>3, StaysBacked, StaysEarned DEF TableShape
<1>6. \A p \in 1..Len(ds) :
        d[p] \in Entry /\ d[p].key = ds[p].key /\ Backed(d[p], g) /\ EarnedBy(d[p], g, a)
  <2> HIDE DEF g, a
  <2> QED BY <1>1, <1>2, <1>4, <1>5
<1>7. d \in Seq(Entry) /\ Len(d) = Len(ds)
  <2>1. d = [p \in 1..Len(ds) |-> d[p]]
    BY <1>1
  <2>2. d \in [1..Len(ds) -> Entry]
    BY <1>6, <2>1
  <2>3. DOMAIN d = 1..Len(ds)
    BY <1>1
  <2> QED BY <1>1, <2>2, <2>3, SeqDef, LenProperties
<1>8. TableShape(ds, g, a)
  BY <1>3, ShapeStays
<1>9. OneEach(d)
  <2>1. OneEach(ds)
    BY DEF TableShape
  <2>2. ASSUME NEW p \in 1..Len(ds), NEW q \in 1..Len(ds), d[p].key = d[q].key PROVE p = q
    <3>1. ds[p].key = ds[q].key
      BY <1>6, <2>2
    <3> QED BY <2>1, <3>1 DEF OneEach
  <2> QED BY <1>7, <2>2 DEF OneEach
<1>10. InOrder(d, g)
  <2>1. PICK s \in [1..Len(ds) -> 1..Len(g)] :
          /\ \A p, q \in 1..Len(ds) : p < q => s[p] < s[q]
          /\ \A p \in 1..Len(ds) : g[s[p]].key = ds[p].key
    BY <1>8 DEF TableShape, InOrder
  <2> HIDE DEF g
  <2>2. \A p \in 1..Len(d) : g[s[p]].key = d[p].key
    BY <1>6, <1>7, <2>1
  <2> QED BY <1>7, <2>1, <2>2 DEF InOrder
<1> HIDE DEF g, a
<1>11. TableShape(d, g, a)
  BY <1>6, <1>7, <1>9, <1>10 DEF TableShape
<1> QED BY <1>1, <1>2, <1>6, <1>7, <1>11 DEF g, a

\* The denial is of a principal without an entry.
LEMMA AppendedTable ==
  ASSUME TermsHold, NEW sg, Past(sg), NEW k \in Principals, NEW ds, TableShape(ds, sg, quotas.abuse),
         \A p \in 1..Len(ds) : ds[p].key # k
  PROVE  /\ TableShape(Append(ds, Noted(NewEntry(k))), Append(sg, [key |-> k, at |-> now]), quotas.abuse)
         /\ Len(ds) \in Nat /\ Len(Append(ds, Noted(NewEntry(k)))) = Len(ds) + 1
         /\ \A p \in 1..Len(ds) : Append(ds, Noted(NewEntry(k)))[p] = ds[p]
         /\ Append(ds, Noted(NewEntry(k)))[Len(ds) + 1] = Noted(NewEntry(k))
         /\ Noted(NewEntry(k)).key = k
<1> DEFINE x == [key |-> k, at |-> now]
           g == Append(sg, x)
           a == quotas.abuse
           e == Noted(NewEntry(k))
           d == Append(ds, e)
           n == Len(ds)
<1>1. /\ ds \in Seq(Entry) /\ n \in Nat /\ \A p \in 1..n : ds[p] \in Entry
  BY LenProperties DEF TableShape
<1>2. sg \in Seq(Signal) /\ x \in Signal /\ x.key = k /\ a \in Terms /\ now \in Nat
  BY DEF Past, TermsHold, Signal
<1>3. NewEntry(k) \in Entry /\ NewEntry(k).key = k /\ Open(NewEntry(k)) /\ Backed(NewEntry(k), sg)
  BY NewIsOpen
<1>4. NewEntry(k).until = 0
  BY <1>3 DEF Open
<1>5. e \in Entry /\ e.key = k
  BY <1>3, <1>4, NotedFields
<1>6. Backed(e, g)
  BY <1>2, <1>3, <1>4, NotedBacked
<1>7. EarnedBy(e, g, a)
  BY <1>3, NotedEarned
<1> HIDE DEF e
<1>8. /\ d \in Seq(Entry) /\ Len(d) = n + 1 /\ (\A p \in 1..n : d[p] = ds[p])
      /\ d[n + 1] = e
  BY <1>1, <1>5, AppendProperties
<1>9. TableShape(ds, g, a)
  BY <1>2, ShapeStays
<1>10. /\ Len(g) = Len(sg) + 1 /\ Len(sg) \in Nat /\ g[Len(g)] = x
       /\ \A i \in 1..Len(sg) : i \in 1..Len(g) /\ g[i] = sg[i]
  BY <1>2, SignalAppended
<1> HIDE DEF x, g, a, d, n
<1>11. \A p \in 1..Len(d) : p \in 1..n \/ p = n + 1
  BY <1>1, <1>8
<1>12. \A p \in 1..Len(d) : Backed(d[p], g) /\ EarnedBy(d[p], g, a)
  <2>1. \A p \in 1..n : Backed(ds[p], g) /\ EarnedBy(ds[p], g, a)
    BY <1>9 DEF TableShape, n
  <2> QED BY <1>6, <1>7, <1>8, <1>11, <2>1
<1>13. OneEach(d)
  <2>1. \A p, q \in 1..n : ds[p].key = ds[q].key => p = q
    BY <1>9 DEF TableShape, OneEach, n
  <2>2. \A p \in 1..n : ds[p].key # k
    BY DEF n
  <2>3. ASSUME NEW p \in 1..Len(d), NEW q \in 1..Len(d), d[p].key = d[q].key PROVE p = q
    BY <1>5, <1>8, <1>11, <2>1, <2>2, <2>3
  <2> QED BY <2>3 DEF OneEach
<1>14. InOrder(d, g)
  <2>1. PICK s \in [1..n -> 1..Len(sg)] :
          /\ \A p, q \in 1..n : p < q => s[p] < s[q]
          /\ \A p \in 1..n : sg[s[p]].key = ds[p].key
    BY DEF TableShape, InOrder, n
  <2> DEFINE h == [p \in 1..(n + 1) |-> IF p = n + 1 THEN Len(g) ELSE s[p]]
  <2>2. \A p \in 1..n : p # n + 1 /\ p < n + 1 /\ s[p] < Len(g) /\ s[p] \in 1..Len(g)
    BY <1>1, <1>10, <2>1
  <2>3. \A p \in 1..Len(d) : p \in 1..(n + 1) /\ h[p] = IF p = n + 1 THEN Len(g) ELSE s[p]
    BY <1>8
  <2>4. h \in [1..Len(d) -> 1..Len(g)]
    <3>1. Len(g) \in 1..Len(g)
      BY <1>10
    <3>2. \A p \in 1..(n + 1) : (IF p = n + 1 THEN Len(g) ELSE s[p]) \in 1..Len(g)
      BY <1>8, <1>11, <2>2, <3>1
    <3> QED BY <1>8, <3>2
  <2> HIDE DEF h
  <2>5. ASSUME NEW p \in 1..Len(d), NEW q \in 1..Len(d), p < q PROVE h[p] < h[q]
    <3>1. p \in 1..n
      BY <1>1, <1>8, <2>5
    <3>2. CASE q = n + 1
      BY <2>2, <2>3, <3>1, <3>2
    <3>3. CASE q \in 1..n
      BY <2>1, <2>2, <2>3, <2>5, <3>1, <3>3
    <3> QED BY <1>11, <3>2, <3>3
  <2>6. ASSUME NEW p \in 1..Len(d) PROVE g[h[p]].key = d[p].key
    <3>1. CASE p = n + 1
      BY <1>2, <1>5, <1>8, <1>10, <2>3, <3>1
    <3>2. CASE p \in 1..n
      <4>1. h[p] = s[p] /\ s[p] \in 1..Len(sg) /\ d[p] = ds[p]
        BY <1>8, <2>1, <2>2, <2>3, <3>2
      <4> QED BY <1>10, <2>1, <3>2, <4>1
    <3> QED BY <1>11, <3>1, <3>2
  <2> QED BY <2>4, <2>5, <2>6 DEF InOrder
<1>15. TableShape(d, g, a)
  BY <1>8, <1>12, <1>13, <1>14 DEF TableShape
<1> QED BY <1>1, <1>5, <1>8, <1>15 DEF d, g, a, e, n, x

\* prune: entries that are over go, and if that is not enough the oldest.
LEMMA PrunedTable ==
  ASSUME TermsHold, NEW sg, Past(sg), NEW k \in Principals, NEW ds, TableShape(ds, sg, quotas.abuse),
         Len(ds) <= KeyBound, \A p \in 1..Len(ds) : ds[p].key # k
  PROVE  /\ TableShape(Prune(ds), sg, quotas.abuse)
         /\ Len(Prune(ds)) \in Nat /\ Len(Prune(ds)) < KeyBound
         /\ \A p \in 1..Len(Prune(ds)) : Prune(ds)[p].key # k
         /\ \A o \in Principals : \A b \in Lock :
              Blank(b) /\ Booked(ds, b, o, now, quotas.abuse) =>
                \/ Booked(Prune(ds), b, o, now, quotas.abuse)
                \/ CrowdedAt(o, Append(sg, [key |-> k, at |-> now]))
<1> DEFINE a == quotas.abuse
           P == {i \in DOMAIN ds : Live(ds[i])}
           alive == Filtered(ds, P)
           over == IF Len(alive) < KeyBound THEN 0 ELSE Len(alive) - KeyBound + 1
           room == SubSeq(alive, over + 1, Len(alive))
           g == Append(sg, [key |-> k, at |-> now])
<1>1. ds \in Seq(Entry) /\ sg \in Seq(Signal) /\ a \in Terms /\ now \in Nat
  BY DEF TableShape, Past, TermsHold
<1>2. alive \in Seq(Entry) /\ Thins(alive, ds, now, a)
  BY <1>1, PruneThins
<1>3. Prune(ds) = room
  BY DEF Prune
<1> HIDE DEF P, alive
<1>4. TableShape(alive, sg, a) /\ Len(ds) \in Nat /\ Len(alive) \in Nat /\ Len(alive) <= Len(ds)
  BY <1>1, <1>2, ThinnedTable
<1>5. \A p \in 1..Len(alive) : alive[p] \in Entry /\ alive[p].key # k
  <2>1. PICK h : ThinsBy(h, alive, ds, now, a)
    BY <1>2 DEF Thins
  <2>2. \A p \in 1..Len(alive) : h[p] \in 1..Len(ds) /\ alive[p].key = ds[h[p]].key
    BY <1>1, <1>2, <2>1, ThinEntry
  <2>3. \A p \in 1..Len(alive) : alive[p] \in Entry
    BY <1>2, LenProperties
  <2> QED BY <2>2, <2>3
<1>6. ASSUME NEW o \in Principals, NEW b \in Lock, Blank(b), Booked(ds, b, o, now, a)
      PROVE  Booked(alive, b, o, now, a)
  BY <1>1, <1>2, <1>6, ThinnedBook DEF Blank
<1>7. KeyBound \in Nat /\ KeyBound # 0
  BY GateAssumption
<1>8. CASE Len(alive) < KeyBound
  <2>1. over + 1 = 1
    BY <1>8
  <2>2. /\ SubSeq(alive, 1, Len(alive)) \in Seq(Entry)
        /\ Len(SubSeq(alive, 1, Len(alive))) = IF 1 <= Len(alive) THEN Len(alive) - 1 + 1 ELSE 0
        /\ \A i \in 1..(Len(alive) - 1 + 1) : SubSeq(alive, 1, Len(alive))[i] = alive[1 + i - 1]
    BY <1>4, <1>5, SubSeqProperties
  <2>3. room = SubSeq(alive, 1, Len(alive))
    BY <2>1
  <2> HIDE DEF room
  <2>4. room \in Seq(Entry) /\ Len(room) = Len(alive)
    BY <1>4, <2>2, <2>3
  <2>5. \A i \in 1..Len(alive) : room[i] = alive[i]
    BY <1>4, <2>2, <2>3
  <2>6. room = alive
    <3>1. room \in [1..Len(alive) -> Entry] /\ alive \in [1..Len(alive) -> Entry]
      BY <1>2, <2>4, LenProperties
    <3> QED BY <2>5, <3>1
  <2> QED BY <1>3, <1>4, <1>5, <1>6, <1>8, <2>6
<1>9. CASE ~(Len(alive) < KeyBound)
  <2> DEFINE n == Len(alive)
  <2>1. n = KeyBound /\ over + 1 = 2 /\ 1 \in 1..n
    BY <1>4, <1>7, <1>9
  <2>2. \A i \in 2..n : alive[i] \in Entry
    BY <1>4, <1>5
  <2>3. /\ SubSeq(alive, 2, n) \in Seq(Entry)
        /\ Len(SubSeq(alive, 2, n)) = IF 2 <= n THEN n - 2 + 1 ELSE 0
        /\ \A i \in 1..(n - 2 + 1) : SubSeq(alive, 2, n)[i] = alive[2 + i - 1]
    BY <1>4, <2>2, SubSeqProperties
  <2>4. room = SubSeq(alive, 2, n)
    BY <2>1
  <2> HIDE DEF room, n
  <2>5. n \in Nat /\ n # 0 /\ n = KeyBound
    BY <1>4, <1>7, <2>1 DEF n
  <2>6. room \in Seq(Entry) /\ Len(room) = n - 1
    BY <2>3, <2>4, <2>5
  <2>7. \A i \in 1..(n - 1) : i + 1 \in 1..n /\ room[i] = alive[i + 1]
    BY <2>3, <2>4, <2>5
  <2>8. ASSUME NEW o \in Principals, NEW b \in Lock, Blank(b), Booked(ds, b, o, now, a)
        PROVE  Booked(room, b, o, now, a) \/ CrowdedAt(o, g)
    <3>1. Booked(alive, b, o, now, a)
      BY <1>6, <2>8
    <3>2. CASE o = alive[1].key
      <4>1. CrowdedAt(alive[1].key, g)
        BY <1>1, <1>4, <1>5, <2>1, OldestIsCrowded DEF n
      <4> QED BY <3>2, <4>1
    <3>3. CASE o # alive[1].key
      <4>1. ASSUME NEW i \in 1..(n - 1), room[i].key = o PROVE SameLock(room[i], b, now, a)
        BY <2>7, <3>1, <4>1 DEF Booked, n
      <4>2. ASSUME \A i \in 1..(n - 1) : room[i].key # o PROVE NoneLeft(b, now, a)
        <5>1. ASSUME NEW j \in 1..n PROVE alive[j].key # o
          <6>1. CASE j = 1
            BY <3>3, <6>1
          <6>2. CASE j # 1
            <7>1. j - 1 \in 1..(n - 1) /\ j - 1 + 1 = j
              BY <2>5, <6>2
            <7> QED BY <2>7, <4>2, <7>1
          <6> QED BY <6>1, <6>2
        <5> QED BY <3>1, <5>1 DEF Booked, n
      <4> QED BY <2>6, <4>1, <4>2 DEF Booked
    <3> QED BY <3>2, <3>3
  <2>9. OneEach(room)
    <3>1. \A p, q \in 1..n : alive[p].key = alive[q].key => p = q
      BY <1>4 DEF TableShape, OneEach, n
    <3>2. ASSUME NEW p \in 1..(n - 1), NEW q \in 1..(n - 1), room[p].key = room[q].key PROVE p = q
      <4>1. p + 1 = q + 1
        BY <2>7, <3>1, <3>2
      <4> QED BY <2>5, <4>1
    <3> QED BY <2>6, <3>2 DEF OneEach
  <2>10. InOrder(room, sg)
    <3>1. PICK s \in [1..n -> 1..Len(sg)] :
            /\ \A p, q \in 1..n : p < q => s[p] < s[q]
            /\ \A p \in 1..n : sg[s[p]].key = alive[p].key
      BY <1>4 DEF TableShape, InOrder, n
    <3> DEFINE h == [p \in 1..(n - 1) |-> s[p + 1]]
    <3>2. h \in [1..(n - 1) -> 1..Len(sg)] /\ \A p \in 1..(n - 1) : sg[h[p]].key = room[p].key
      BY <2>7, <3>1
    <3>3. ASSUME NEW p \in 1..(n - 1), NEW q \in 1..(n - 1), p < q PROVE h[p] < h[q]
      <4>1. p + 1 < q + 1
        BY <2>5, <3>3
      <4> QED BY <2>7, <3>1, <4>1
    <3> HIDE DEF h
    <3> QED BY <2>6, <3>2, <3>3 DEF InOrder
  <2>11. \A p \in 1..Len(room) : Backed(room[p], sg) /\ EarnedBy(room[p], sg, a)
    <3>1. \A p \in 1..n : Backed(alive[p], sg) /\ EarnedBy(alive[p], sg, a)
      BY <1>4 DEF TableShape, n
    <3> QED BY <2>6, <2>7, <3>1
  <2>12. TableShape(room, sg, a)
    BY <2>6, <2>9, <2>10, <2>11 DEF TableShape
  <2>13. Len(room) \in Nat /\ Len(room) < KeyBound /\ \A p \in 1..Len(room) : room[p].key # k
    <3>1. \A p \in 1..n : alive[p].key # k
      BY <1>5 DEF n
    <3> QED BY <2>5, <2>6, <2>7, <3>1
  <2> QED BY <1>3, <2>8, <2>12, <2>13
<1> QED BY <1>8, <1>9

\* The table, the book and the signals belong together.
Together(ds, bk, sg) ==
  \A k \in Principals : CrowdedAt(k, sg) \/ Booked(ds, bk[k], k, now, quotas.abuse)
BookShape(bk) == bk \in [Principals -> Lock] /\ \A k \in Principals : Blank(bk[k])
GateHolds(ds, bk, sg) ==
  /\ Past(sg) /\ BookShape(bk) /\ TableShape(ds, sg, quotas.abuse) /\ Len(ds) <= KeyBound
  /\ Together(ds, bk, sg)

\* lockState ages one entry, and the gate still holds.
LEMMA LockStateHolds ==
  ASSUME TermsHold, NEW ds, NEW bk, NEW sg, GateHolds(ds, bk, sg), NEW k
  PROVE  GateHolds(LockState(ds, k), bk, sg)
<1> DEFINE d == LockState(ds, k)
           a == quotas.abuse
<1>1. /\ ds \in Seq(Entry) /\ TableShape(ds, sg, a) /\ Len(ds) <= KeyBound
      /\ a \in Terms /\ now \in Nat
  BY DEF GateHolds, TableShape, TermsHold
<1>2. d \in Seq(Entry) /\ Thins(d, ds, now, a)
  BY <1>1, LockStateThins
<1> HIDE DEF d
<1>3. TableShape(d, sg, a) /\ Len(ds) \in Nat /\ Len(d) \in Nat /\ Len(d) <= Len(ds)
  BY <1>1, <1>2, ThinnedTable
<1>4. Len(d) <= KeyBound
  BY <1>1, <1>3, GateAssumption
<1>5. Together(d, bk, sg)
  <2>1. ASSUME NEW o \in Principals, Booked(ds, bk[o], o, now, a) PROVE Booked(d, bk[o], o, now, a)
    <3>1. bk[o] \in Lock /\ (bk[o].until # 0 => bk[o].times = <<>>)
      BY DEF GateHolds, BookShape, Blank
    <3> QED BY <1>1, <1>2, <2>1, <3>1, ThinnedBook
  <2> QED BY <2>1 DEF GateHolds, Together
<1> QED BY <1>3, <1>4, <1>5 DEF GateHolds, d

\* The denials of one principal leave the others as they are.
LEMMA OthersStand ==
  ASSUME TermsHold, NEW ds, NEW bk, NEW sg, GateHolds(ds, bk, sg), NEW k \in Principals, NEW d,
         NEW g, g = Append(sg, [key |-> k, at |-> now]),
         TableShape(d, g, quotas.abuse), Len(d) <= KeyBound,
         \A o \in Principals \ {k} : CrowdedAt(o, g) \/ Booked(d, bk[o], o, now, quotas.abuse),
         CrowdedAt(k, g) \/ Booked(d, Entered(bk[k]), k, now, quotas.abuse)
  PROVE  GateHolds(d, [bk EXCEPT ![k] = Entered(@)], g)
<1> DEFINE x == [key |-> k, at |-> now]
           b == [bk EXCEPT ![k] = Entered(@)]
<1>1. /\ sg \in Seq(Signal) /\ (\A i \in DOMAIN sg : sg[i].at <= now)
      /\ x \in Signal /\ x.at = now /\ now <= now
      /\ bk \in [Principals -> Lock] /\ \A o \in Principals : Blank(bk[o])
  BY DEF GateHolds, Past, BookShape, TermsHold, Signal
<1> HIDE DEF x
<1>2. Past(g)
  <2>1. /\ g \in Seq(Signal) /\ DOMAIN sg = 1..Len(sg) /\ DOMAIN g = 1..(Len(sg) + 1) /\ Len(sg) \in Nat
        /\ (\A i \in 1..Len(sg) : g[i] = sg[i]) /\ g[Len(sg) + 1] = x
    BY <1>1, SignalAppended DEF x
  <2>2. \A i \in 1..(Len(sg) + 1) : i \in 1..Len(sg) \/ i = Len(sg) + 1
    BY <2>1
  <2> QED BY <1>1, <2>1, <2>2 DEF Past
<1>3. Entered(bk[k]) \in Lock /\ Blank(Entered(bk[k]))
  BY <1>1, EnteredLock
<1>4. b[k] = Entered(bk[k]) /\ \A o \in Principals \ {k} : b[o] = bk[o]
  BY <1>1
<1>5. BookShape(b)
  BY <1>1, <1>3, <1>4 DEF BookShape
<1> HIDE DEF b
<1>6. Together(d, b, g)
  BY <1>4 DEF Together
<1> QED BY <1>2, <1>5, <1>6 DEF GateHolds, b

\* One who was crowded out stays so, and one who was not is still booked.
LEMMA StandingOthers ==
  ASSUME TermsHold, NEW ds, NEW bk, NEW sg, GateHolds(ds, bk, sg), NEW k \in Principals,
         NEW o \in Principals
  PROVE  CrowdedAt(o, Append(sg, [key |-> k, at |-> now])) \/ Booked(ds, bk[o], o, now, quotas.abuse)
<1>1. sg \in Seq(Signal) /\ [key |-> k, at |-> now] \in Signal
  BY DEF GateHolds, Past, TermsHold, Signal
<1>2. CrowdedAt(o, sg) \/ Booked(ds, bk[o], o, now, quotas.abuse)
  BY DEF GateHolds, Together
<1> QED BY <1>1, <1>2, StaysCrowded

\* A denial of a principal that is locked.
LEMMA LockedHolds ==
  ASSUME TermsHold, NEW ds, NEW bk, NEW sg, GateHolds(ds, bk, sg), NEW k \in Principals,
         IsLocked(ds, k)
  PROVE  GateHolds(ds, [bk EXCEPT ![k] = Entered(@)], Append(sg, [key |-> k, at |-> now]))
<1> DEFINE x == [key |-> k, at |-> now]
           g == Append(sg, x)
           a == quotas.abuse
<1>1. sg \in Seq(Signal) /\ x \in Signal /\ a \in Terms
  BY DEF GateHolds, Past, TermsHold, Signal
<1>2. TableShape(ds, g, a) /\ Len(ds) <= KeyBound
  BY <1>1, ShapeStays DEF GateHolds
<1>3. \A o \in Principals : CrowdedAt(o, g) \/ Booked(ds, bk[o], o, now, a)
  BY StandingOthers
<1>4. CrowdedAt(k, g) \/ Booked(ds, Entered(bk[k]), k, now, a)
  <2>1. SUFFICES ASSUME Booked(ds, bk[k], k, now, a) PROVE Entered(bk[k]) = bk[k]
    BY <1>3
  <2>2. PICK p \in 1..Len(ds) : ds[p].key = k /\ Locked(ds[p])
    BY LenProperties DEF IsLocked, GateHolds, TableShape
  <2>3. bk[k].until = ds[p].until /\ ds[p].until > now /\ bk[k] \in Lock
    BY <2>1, <2>2 DEF Booked, SameLock, Locked, GateHolds, BookShape
  <2> QED BY <2>3, EnteredFields
<1> HIDE DEF g, a
<1>5. g = Append(sg, x)
  BY DEF g
<1> QED BY <1>2, <1>3, <1>4, <1>5, OthersStand DEF g, a

\* A denial of a principal that has an entry and is not locked.
LEMMA TrackedHolds ==
  ASSUME TermsHold, NEW ds, NEW bk, NEW sg, GateHolds(ds, bk, sg), NEW k \in Principals,
         Tracked(ds, k), \A p \in 1..Len(ds) : ds[p].key = k => Open(ds[p]),
         NEW d, d = [i \in DOMAIN ds |-> IF ds[i].key = k THEN Noted(ds[i]) ELSE ds[i]]
  PROVE  GateHolds(d, [bk EXCEPT ![k] = Entered(@)], Append(sg, [key |-> k, at |-> now]))
<1> DEFINE x == [key |-> k, at |-> now]
           g == Append(sg, x)
           a == quotas.abuse
<1>1. Past(sg) /\ TableShape(ds, sg, a) /\ Len(ds) <= KeyBound /\ bk \in [Principals -> Lock]
  BY DEF GateHolds, BookShape
<1>2. /\ TableShape(d, g, a) /\ Len(d) = Len(ds)
      /\ \A p \in 1..Len(ds) :
           d[p].key = ds[p].key /\ d[p] = IF ds[p].key = k THEN Noted(ds[p]) ELSE ds[p]
  BY <1>1, NotedTable
<1>3. \A o \in Principals : CrowdedAt(o, g) \/ Booked(ds, bk[o], o, now, a)
  BY StandingOthers
<1> HIDE DEF g, a
<1>4. ASSUME NEW o \in Principals \ {k}, Booked(ds, bk[o], o, now, a) PROVE Booked(d, bk[o], o, now, a)
  <2>1. \A p \in 1..Len(ds) : d[p].key = o => ds[p].key = o /\ d[p] = ds[p]
    BY <1>2
  <2>2. \A p \in 1..Len(ds) : ds[p].key = o => d[p].key = o
    BY <1>2
  <2> QED BY <1>2, <1>4, <2>1, <2>2 DEF Booked
<1>5. ASSUME Booked(ds, bk[k], k, now, a) PROVE Booked(d, Entered(bk[k]), k, now, a)
  <2>1. ASSUME NEW p \in 1..Len(ds), ds[p].key = k PROVE SameLock(d[p], Entered(bk[k]), now, a)
    <3>1. SameLock(ds[p], bk[k], now, a) /\ Open(ds[p]) /\ ds[p] \in Entry /\ bk[k] \in Lock
      BY <1>1, <1>5, <2>1, LenProperties DEF Booked, TableShape
    <3>2. Even(ds[p], bk[k])
      BY <3>1, SameIsEven DEF a
    <3>3. SameLock(Noted(ds[p]), Entered(bk[k]), now, a)
      BY <3>1, <3>2, NotedSame DEF a
    <3> QED BY <1>2, <2>1, <3>3
  <2>2. \E p \in 1..Len(ds) : ds[p].key = k
    BY <1>1, LenProperties DEF Tracked, TableShape
  <2>3. \A p \in 1..Len(d) : d[p].key = k => SameLock(d[p], Entered(bk[k]), now, a)
    BY <1>2, <2>1
  <2>4. ~ \A p \in 1..Len(d) : d[p].key # k
    BY <1>2, <2>2
  <2> QED BY <2>3, <2>4 DEF Booked
<1>6. g = Append(sg, x)
  BY DEF g
<1>7. Len(d) <= KeyBound
  BY <1>1, <1>2
<1>8. \A o \in Principals \ {k} : CrowdedAt(o, g) \/ Booked(d, bk[o], o, now, a)
  BY <1>3, <1>4
<1>9. CrowdedAt(k, g) \/ Booked(d, Entered(bk[k]), k, now, a)
  BY <1>3, <1>5
<1> QED BY <1>2, <1>6, <1>7, <1>8, <1>9, OthersStand DEF g, a

\* A denial of a principal without an entry.
LEMMA UntrackedHolds ==
  ASSUME TermsHold, NEW ds, NEW bk, NEW sg, GateHolds(ds, bk, sg), NEW k \in Principals,
         \A p \in 1..Len(ds) : ds[p].key # k,
         NEW room, room = IF Len(ds) >= KeyBound THEN Prune(ds) ELSE ds
  PROVE  GateHolds(Append(room, Noted(NewEntry(k))), [bk EXCEPT ![k] = Entered(@)],
                   Append(sg, [key |-> k, at |-> now]))
<1> DEFINE x == [key |-> k, at |-> now]
           g == Append(sg, x)
           a == quotas.abuse
           e == Noted(NewEntry(k))
           d == Append(room, e)
<1>1. Past(sg) /\ TableShape(ds, sg, a) /\ Len(ds) <= KeyBound /\ BookShape(bk)
  BY DEF GateHolds
<1>2. Len(ds) \in Nat /\ KeyBound \in Nat
  BY <1>1, LenProperties, GateAssumption DEF TableShape
<1>3. /\ TableShape(room, sg, a) /\ Len(room) \in Nat /\ Len(room) < KeyBound
      /\ \A p \in 1..Len(room) : room[p].key # k
  <2>1. CASE Len(ds) >= KeyBound
    <3>1. room = Prune(ds)
      BY <2>1
    <3>2. /\ TableShape(Prune(ds), sg, a) /\ Len(Prune(ds)) \in Nat /\ Len(Prune(ds)) < KeyBound
          /\ \A p \in 1..Len(Prune(ds)) : Prune(ds)[p].key # k
      BY <1>1, <2>1, PrunedTable
    <3> QED BY <3>1, <3>2
  <2>2. CASE ~(Len(ds) >= KeyBound)
    BY <1>1, <1>2, <2>2
  <2> QED BY <2>1, <2>2
<1>4. ASSUME NEW o \in Principals, Booked(ds, bk[o], o, now, a)
      PROVE  Booked(room, bk[o], o, now, a) \/ CrowdedAt(o, g)
  <2>1. bk[o] \in Lock /\ Blank(bk[o])
    BY <1>1 DEF BookShape
  <2>2. CASE Len(ds) >= KeyBound
    <3>1. room = Prune(ds)
      BY <2>2
    <3> QED BY <1>1, <1>4, <2>1, <3>1, PrunedTable
  <2>3. CASE ~(Len(ds) >= KeyBound)
    BY <1>4, <2>3
  <2> QED BY <2>2, <2>3
<1>5. /\ TableShape(d, g, a) /\ Len(d) = Len(room) + 1
      /\ (\A p \in 1..Len(room) : d[p] = room[p]) /\ d[Len(room) + 1] = e /\ e.key = k
  BY <1>1, <1>3, AppendedTable
<1>6. \A o \in Principals : CrowdedAt(o, g) \/ Booked(ds, bk[o], o, now, a)
  BY StandingOthers
<1>7. \A o \in Principals : CrowdedAt(o, g) \/ Booked(room, bk[o], o, now, a)
  BY <1>4, <1>6
<1>8. NewEntry(k) \in Entry /\ Open(NewEntry(k))
      /\ \A b : NoneLeft(b, now, a) => Even(NewEntry(k), b)
  BY NewIsOpen
<1> HIDE DEF g, a, e, d
<1>9. \A p \in 1..Len(d) : p \in 1..Len(room) \/ p = Len(room) + 1
  BY <1>3, <1>5
<1>10. ASSUME NEW o \in Principals \ {k}, Booked(room, bk[o], o, now, a)
       PROVE  Booked(d, bk[o], o, now, a)
  <2>1. \A p \in 1..Len(d) : d[p].key = o => p \in 1..Len(room) /\ d[p] = room[p]
    BY <1>5, <1>9
  <2>2. \A p \in 1..Len(room) : p \in 1..Len(d) /\ d[p] = room[p]
    BY <1>3, <1>5
  <2> QED BY <1>10, <2>1, <2>2 DEF Booked
<1>11. ASSUME Booked(room, bk[k], k, now, a) PROVE Booked(d, Entered(bk[k]), k, now, a)
  <2>1. NoneLeft(bk[k], now, a) /\ bk[k] \in Lock
    BY <1>1, <1>3, <1>11 DEF Booked, BookShape
  <2>2. Even(NewEntry(k), bk[k])
    BY <1>8, <2>1
  <2>3. SameLock(e, Entered(bk[k]), now, a)
    BY <1>8, <2>1, <2>2, NotedSame DEF e, a
  <2>4. \A p \in 1..Len(d) : d[p].key = k => d[p] = e
    BY <1>3, <1>5, <1>9
  <2>5. Len(room) + 1 \in 1..Len(d) /\ d[Len(room) + 1].key = k
    BY <1>3, <1>5
  <2> QED BY <2>3, <2>4, <2>5 DEF Booked
<1>12. g = Append(sg, x)
  BY DEF g
<1>13. Len(d) <= KeyBound
  BY <1>2, <1>3, <1>5
<1>14. \A o \in Principals \ {k} : CrowdedAt(o, g) \/ Booked(d, bk[o], o, now, a)
  BY <1>7, <1>10
<1>15. CrowdedAt(k, g) \/ Booked(d, Entered(bk[k]), k, now, a)
  BY <1>7, <1>11
<1>16. GateHolds(d, [bk EXCEPT ![k] = Entered(@)], g)
  BY <1>5, <1>12, <1>13, <1>14, <1>15, OthersStand DEF a
<1> QED BY <1>16 DEF d, e, g

\* noteDenial, and the entry in the book.
LEMMA NoteDenialHolds ==
  ASSUME TermsHold, Abusive(quotas), NEW ds, NEW bk, NEW sg, GateHolds(ds, bk, sg), NEW k \in Principals
  PROVE  GateHolds(NoteDenial(ds, k), [bk EXCEPT ![k] = Entered(@)],
                   Append(sg, [key |-> k, at |-> now]))
<1>1. PICK known : known = LockState(ds, k)
  OBVIOUS
<1>2. PICK room : room = IF Len(known) >= KeyBound THEN Prune(known) ELSE known
  OBVIOUS
<1>3. GateHolds(known, bk, sg)
  BY <1>1, LockStateHolds
<1>4. known \in Seq(Entry) /\ DOMAIN known = 1..Len(known)
  BY <1>3, LenProperties DEF GateHolds, TableShape
<1>5. CASE IsLocked(known, k)
  <2>1. NoteDenial(ds, k) = known
    BY <1>1, <1>5 DEF NoteDenial
  <2> QED BY <1>3, <1>5, <2>1, LockedHolds
<1>6. CASE ~IsLocked(known, k) /\ Tracked(known, k)
  <2>1. PICK d : d = [i \in DOMAIN known |-> IF known[i].key = k THEN Noted(known[i]) ELSE known[i]]
    OBVIOUS
  <2>2. NoteDenial(ds, k) = d
    BY <1>1, <1>6, <2>1 DEF NoteDenial
  <2>3. \A p \in 1..Len(known) : known[p].key = k => Open(known[p])
    <3>1. ASSUME NEW p \in 1..Len(known), known[p].key = k PROVE Open(known[p])
      <4>1. /\ LiveAt(known[p], now, quotas.abuse)
            /\ known[p].until = 0 =>
                 Fresh(known[p].times, now, quotas.abuse.window) = Len(known[p].times)
        <5>1. ds \in Seq(Entry)
          BY DEF GateHolds, TableShape
        <5> QED BY <1>1, <3>1, <5>1, LockStateThins
      <4>2. ~(known[p].until > now)
        BY <1>4, <1>6, <3>1 DEF IsLocked, Locked
      <4>3. known[p].until = 0
        BY <4>1, <4>2 DEF LiveAt
      <4> QED BY <4>1, <4>3 DEF Open
    <3> QED BY <3>1
  <2>4. GateHolds(d, [bk EXCEPT ![k] = Entered(@)], Append(sg, [key |-> k, at |-> now]))
    BY <1>3, <1>6, <2>1, <2>3, TrackedHolds
  <2> QED BY <2>2, <2>4
<1>7. CASE ~IsLocked(known, k) /\ ~Tracked(known, k)
  <2>1. NoteDenial(ds, k) = Append(room, Noted(NewEntry(k)))
    BY <1>1, <1>2, <1>7 DEF NoteDenial
  <2>2. \A p \in 1..Len(known) : known[p].key # k
    BY <1>4, <1>7 DEF Tracked
  <2>3. GateHolds(Append(room, Noted(NewEntry(k))), [bk EXCEPT ![k] = Entered(@)],
                  Append(sg, [key |-> k, at |-> now]))
    BY <1>2, <1>3, <2>2, UntrackedHolds
  <2> QED BY <2>1, <2>3
<1> QED BY <1>5, <1>6, <1>7

---------------------------------------------------------------------------
(* Steps of the edge *)

\* A call that is checked has a caller.
Callers ==
  \A r \in Requests :
    /\ req[r].ask.client \in Clients \cup {""}
    /\ req[r].pc = "checking" => req[r].ask.client # ""
GateInv ==
  /\ now \in Nat
  /\ Abusive(quotas) => TermsHold /\ GateHolds(denials, book, signals)
LockInv == GateInv /\ Callers

\* A gate that holds is what the step leaves.
LEMMA GateMoves ==
  ASSUME GateInv, UNCHANGED <<quotas, now>>, NEW d, NEW b, NEW g,
         denials' = d, book' = b, signals' = g,
         Abusive(quotas) => GateHolds(d, b, g)
  PROVE  GateInv'
<1>1. ASSUME Abusive(quotas), GateHolds(d, b, g) PROVE GateHolds(denials, book, signals)'
  <2>1. Past(g) /\ BookShape(b) /\ TableShape(d, g, quotas.abuse) /\ Len(d) <= KeyBound
        /\ Together(d, b, g)
    BY <1>1 DEF GateHolds
  <2>2. Past(signals)'
    BY <2>1 DEF Past
  <2>3. BookShape(book)' /\ TableShape(denials, signals, quotas.abuse)' /\ Len(denials') <= KeyBound
    BY <2>1
  <2>4. Together(denials, book, signals)'
    BY <2>1 DEF Together
  <2> QED BY <2>2, <2>3, <2>4 DEF GateHolds
<1>2. Abusive(quotas)' => Abusive(quotas)
  BY DEF Abusive
<1>3. ASSUME Abusive(quotas) PROVE TermsHold'
  BY <1>3 DEF GateInv, TermsHold
<1> QED BY <1>1, <1>2, <1>3 DEF GateInv

\* A step that leaves the gate alone.
LEMMA GateStandsStill ==
  ASSUME GateInv, UNCHANGED <<quotas, now, denials, book, signals>>
  PROVE  GateInv'
BY GateMoves DEF GateInv

\* What a check leaves of the table.
LEMMA AfterCheckHolds ==
  ASSUME GateInv, NEW k, Abusive(quotas)
  PROVE  GateHolds(AfterCheck(k), book, signals)
BY LockStateHolds DEF GateInv, AfterCheck

\* The codes and scopes of the edge's refusals tell a principal's own faults.
OwnOrNot(error, scope) == AbuseSignal(error, scope) <=> OwnFault(error, scope)

\* refuse: the table and the book count the same denials.
LEMMA RefuseHolds ==
  ASSUME GateInv, NEW r \in Requests, Key(r) \in Principals, NEW error, NEW scope,
         OwnOrNot(error, scope), NEW tenant, NEW policy, NEW ds,
         Abusive(quotas) => GateHolds(ds, book, signals),
         Refuse(r, error, scope, tenant, policy, ds), UNCHANGED <<quotas, now>>
  PROVE  GateInv'
<1> DEFINE k == Key(r)
<1>1. CASE AbuseSignal(error, scope) /\ Abusive(quotas)
  <2> DEFINE d == NoteDenial(ds, k)
             b == [book EXCEPT ![k] = Entered(@)]
             g == Append(signals, [key |-> k, at |-> now])
  <2>1. denials' = d /\ book' = b /\ signals' = g
    BY <1>1 DEF Refuse, OwnOrNot, EnterBook
  <2>2. GateHolds(d, b, g)
    BY <1>1, NoteDenialHolds DEF GateInv
  <2> HIDE DEF d, b, g
  <2> QED BY <2>1, <2>2, GateMoves
<1>2. CASE ~AbuseSignal(error, scope)
  <2>1. denials' = ds /\ book' = book /\ signals' = signals
    BY <1>2 DEF Refuse, OwnOrNot
  <2> QED BY <2>1, GateMoves
<1>3. CASE ~Abusive(quotas)
  BY <1>3 DEF GateInv, Abusive
<1> QED BY <1>1, <1>2, <1>3

\* A frame that crosses and a challenge leave the table as the check left it.
LEMMA TableHolds ==
  ASSUME GateInv, NEW ds, Abusive(quotas) => GateHolds(ds, book, signals),
         denials' = ds, UNCHANGED <<quotas, now, book, signals>>
  PROVE  GateInv'
BY GateMoves

\* Approval, tracking and the frame.
LEMMA DispatchHolds ==
  ASSUME GateInv, NEW r \in Requests, Key(r) \in Principals, NEW q, NEW ds,
         Abusive(quotas) => GateHolds(ds, book, signals), Dispatch(r, q, ds),
         UNCHANGED <<quotas, now>>
  PROVE  GateInv'
<1>1. \/ Challenge(r, q, ds) \/ Crosses(r, q, ds)
      \/ Refuse(r, "not_entitled", "", q.tenant, q.policy, ds)
      \/ Refuse(r, "no_agent", "", q.tenant, q.policy, ds)
  BY DEF Dispatch
<1>2. OwnOrNot("not_entitled", "") /\ OwnOrNot("no_agent", "")
  BY DEF OwnOrNot, AbuseSignal, OwnFault
<1>3. CASE Challenge(r, q, ds) \/ Crosses(r, q, ds)
  BY <1>3, TableHolds DEF Challenge, Crosses
<1> QED BY <1>1, <1>2, <1>3, RefuseHolds

\* Every verdict of the gate is a principal's own fault, or is not counted.
LEMMA VerdictIsOwnOrNot ==
  ASSUME NEW t, NEW k
  PROVE  OwnOrNot(Verdict(t, k).reason, Verdict(t, k).scope)
<1>1. <<Verdict(t, k).reason, Verdict(t, k).scope>> \in
        {<<"abuse_locked", "abuse">>, <<"not_entitled", "tenant">>, <<"quota_exceeded", "tenant">>,
         <<"not_entitled", "principal">>, <<"quota_exceeded", "principal">>, <<"", "">>}
  BY DEF Verdict
<1> QED BY <1>1 DEF OwnOrNot, AbuseSignal, OwnFault

\* The call of a tenant that is resolved.
LEMMA AdmittedHolds ==
  ASSUME GateInv, NEW r \in Requests, Key(r) \in Principals, NEW t, Admitted(r, t),
         UNCHANGED <<quotas, now>>
  PROVE  GateInv'
<1> DEFINE v == Verdict(t, Key(r))
           ds == AfterCheck(Key(r))
           q == [req[r] EXCEPT !.tenant = t, !.policy = PolicyOf[Client(r)], !.gen = agents[t].gen]
<1>1. \/ Refuse(r, v.reason, v.scope, t, q.policy, ds)
      \/ Refuse(r, "no_agent", "", t, q.policy, ds)
      \/ denials' = ds /\ UNCHANGED <<book, signals>>
      \/ Dispatch(r, q, ds)
  BY DEF Admitted
<1>2. Abusive(quotas) => GateHolds(ds, book, signals)
  BY AfterCheckHolds
<1>3. OwnOrNot(v.reason, v.scope) /\ OwnOrNot("no_agent", "")
  BY VerdictIsOwnOrNot DEF OwnOrNot, AbuseSignal, OwnFault
<1> HIDE DEF v, ds, q
<1>4. CASE denials' = ds /\ UNCHANGED <<book, signals>>
  BY <1>2, <1>4, TableHolds
<1>5. CASE Dispatch(r, q, ds)
  BY <1>2, <1>5, DispatchHolds
<1> QED BY <1>1, <1>2, <1>3, <1>4, <1>5, RefuseHolds

\* A caller has a key.
LEMMA CallerHasKey ==
  ASSUME Callers, NEW r \in Requests, req[r].ask.client # ""
  PROVE  Key(r) \in Principals
BY AccountingAssumption DEF Callers, Key, Client

\* A call arrives.
LEMMA ArriveHolds ==
  ASSUME LockInv, NEW r \in Requests, Arrive(r)
  PROVE  GateInv'
<1> DEFINE c == Client(r)
           t == RouteTenant(c, req[r].ask.hint)
<1>1. GateInv /\ Key(r) \in Principals /\ UNCHANGED <<quotas, now>>
  BY CallerHasKey DEF Arrive, LockInv
<1>2. \/ UNCHANGED <<denials, book, signals>>
      \/ Refuse(r, "offboarded", "", Attributed(c), "", denials)
      \/ Refuse(r, "not_entitled", "", Attributed(c), "", denials)
      \/ Refuse(r, "not_entitled", "", Attributed(c), PolicyOf[c], denials)
      \/ Admitted(r, t)
  BY DEF Arrive
<1>3. OwnOrNot("offboarded", "") /\ OwnOrNot("not_entitled", "")
  BY DEF OwnOrNot, AbuseSignal, OwnFault
<1>4. Abusive(quotas) => GateHolds(denials, book, signals)
  BY <1>1 DEF GateInv
<1> HIDE DEF c, t
<1>5. CASE UNCHANGED <<denials, book, signals>>
  BY <1>1, <1>5, GateStandsStill
<1>6. CASE Admitted(r, t)
  BY <1>1, <1>6, AdmittedHolds
<1> QED BY <1>1, <1>2, <1>3, <1>4, <1>5, <1>6, RefuseHolds

\* The live check of a call ends.
LEMMA CheckedHolds ==
  ASSUME LockInv, NEW r \in Requests, Checked(r)
  PROVE  GateInv'
<1>1. GateInv /\ Key(r) \in Principals /\ UNCHANGED <<quotas, now>>
  BY CallerHasKey DEF Checked, LockInv, Callers
<1>2. Dispatch(r, req[r], denials) \/ UNCHANGED <<denials, book, signals>>
  BY DEF Checked
<1>3. Abusive(quotas) => GateHolds(denials, book, signals)
  BY <1>1 DEF GateInv
<1>4. CASE UNCHANGED <<denials, book, signals>>
  BY <1>1, <1>4, GateStandsStill
<1>5. CASE Dispatch(r, req[r], denials)
  BY <1>1, <1>3, <1>5, DispatchHolds
<1> QED BY <1>2, <1>4, <1>5

---------------------------------------------------------------------------
(* Time *)

\* What table and book have in common they keep.
LEMMA BookedStays ==
  ASSUME NEW ds, NEW b \in Lock, NEW k, NEW t \in Nat, NEW a, Booked(ds, b, k, t, a)
  PROVE  Booked(ds, b, k, t + 1, a)
<1>1. \A u \in Nat : t + 1 <= u => t <= u
  OBVIOUS
<1>2. ASSUME NEW e, SameLock(e, b, t, a) PROVE SameLock(e, b, t + 1, a)
  BY <1>1, <1>2 DEF SameLock
<1>3. NoneLeft(b, t, a) => NoneLeft(b, t + 1, a)
  <2>1. b.until <= t => b.until <= t + 1
    BY DEF Lock
  <2> QED BY <1>1, <2>1 DEF NoneLeft
<1> QED BY <1>2, <1>3 DEF Booked

\* The clock moves on.
LEMMA TickHolds ==
  ASSUME GateInv, Tick
  PROVE  GateInv'
<1>1. now \in Nat /\ now' = now + 1 /\ UNCHANGED <<quotas, denials, book, signals>>
  BY DEF GateInv, Tick
<1>2. ASSUME Abusive(quotas) PROVE GateHolds(denials, book, signals)'
  <2>1. GateHolds(denials, book, signals)
    BY <1>2 DEF GateInv
  <2>2. Past(signals)'
    <3>1. signals \in Seq(Signal) /\ \A i \in DOMAIN signals : signals[i].at <= now
      BY <2>1 DEF GateHolds, Past
    <3>2. \A i \in DOMAIN signals : signals[i].at \in Nat
      <4>1. \A i \in DOMAIN signals : signals[i] \in Signal
        BY <3>1, ElementOfSeq, LenProperties
      <4> QED BY <4>1 DEF Signal
    <3>3. \A i \in DOMAIN signals : signals[i].at <= now + 1
      BY <1>1, <3>1, <3>2
    <3> QED BY <1>1, <3>1, <3>3 DEF Past
  <2>3. ASSUME NEW k \in Principals
        PROVE  CrowdedAt(k, signals) \/ Booked(denials, book[k], k, now + 1, quotas.abuse)
    <3>1. CrowdedAt(k, signals) \/ Booked(denials, book[k], k, now, quotas.abuse)
      BY <2>1 DEF GateHolds, Together
    <3>2. book[k] \in Lock
      BY <2>1 DEF GateHolds, BookShape
    <3> QED BY <1>1, <3>1, <3>2, BookedStays
  <2>4. Together(denials, book, signals)'
    <3>1. PICK u : u = now + 1
      OBVIOUS
    <3>2. \A k \in Principals : CrowdedAt(k, signals) \/ Booked(denials, book[k], k, u, quotas.abuse)
      BY <2>3, <3>1
    <3>3. now' = u
      BY <1>1, <3>1
    <3> QED BY <1>1, <3>2, <3>3 DEF Together
  <2>5. /\ BookShape(book)' /\ TableShape(denials, signals, quotas.abuse)'
        /\ Len(denials') <= KeyBound
    BY <1>1, <2>1 DEF GateHolds
  <2> QED BY <2>2, <2>4, <2>5 DEF GateHolds
<1>3. ASSUME Abusive(quotas) PROVE TermsHold'
  BY <1>1, <1>3 DEF GateInv, TermsHold
<1>4. Abusive(quotas)' => Abusive(quotas)
  BY <1>1 DEF Abusive
<1>5. now' \in Nat
  BY <1>1
<1> QED BY <1>2, <1>3, <1>4, <1>5 DEF GateInv

---------------------------------------------------------------------------
(* Callers *)

\* One call changes, and what it asks for does not.
LEMMA OneCaller ==
  ASSUME ExportInv, Callers, NEW r \in Requests, NEW q, q.ask = req[r].ask,
         q.pc = "checking" => req[r].ask.client # "", req' = [req EXCEPT ![r] = q]
  PROVE  Callers'
<1>1. DOMAIN req' = Requests /\ req'[r] = q /\ \A x \in Requests : x # r => req'[x] = req[x]
  BY DEF ExportInv
<1>2. ASSUME NEW x \in Requests
      PROVE  /\ req'[x].ask.client \in Clients \cup {""}
             /\ req'[x].pc = "checking" => req'[x].ask.client # ""
  BY <1>1 DEF Callers
<1> QED BY <1>2 DEF Callers

\* Waits are rejected.
LEMMA RejectedCallers ==
  ASSUME ExportInv, Callers, NEW R, Reject(R)
  PROVE  Callers'
<1>1. ASSUME NEW x \in Requests
      PROVE  req'[x].ask = req[x].ask /\ (req'[x].pc = "checking" => req[x].pc = "checking")
  BY DEF ExportInv, CallFields, Reject
<1> QED BY <1>1 DEF Callers

\* A refusal ends a call.
LEMMA RefuseCallers ==
  ASSUME ExportInv, Callers, NEW r \in Requests, NEW error, NEW scope, NEW tenant, NEW policy,
         NEW ds, Refuse(r, error, scope, tenant, policy, ds)
  PROVE  Callers'
<1> DEFINE q == [req[r] EXCEPT !.pc = "refused", !.tenant = tenant, !.policy = policy, !.why = error]
<1>1. req' = [req EXCEPT ![r] = q] /\ q.ask = req[r].ask /\ q.pc = "refused"
  BY DEF Refuse, ExportInv, CallFields
<1> HIDE DEF q
<1> QED BY <1>1, OneCaller

\* A call that is dispatched is not checked again.
LEMMA DispatchCallers ==
  ASSUME ExportInv, Callers, NEW r \in Requests, NEW q, DOMAIN q = CallFields,
         q.ask = req[r].ask, NEW ds, Dispatch(r, q, ds)
  PROVE  Callers'
<1>1. \/ Challenge(r, q, ds) \/ Crosses(r, q, ds)
      \/ Refuse(r, "not_entitled", "", q.tenant, q.policy, ds)
      \/ Refuse(r, "no_agent", "", q.tenant, q.policy, ds)
  BY DEF Dispatch
<1>2. CASE Challenge(r, q, ds)
  <2> DEFINE p == [q EXCEPT !.pc = "refused", !.why = "require_approval"]
  <2>1. req' = [req EXCEPT ![r] = p] /\ p.ask = req[r].ask /\ p.pc = "refused"
    BY <1>2 DEF Challenge, CallFields
  <2> HIDE DEF p
  <2> QED BY <2>1, OneCaller
<1>3. CASE Crosses(r, q, ds)
  <2> DEFINE p == [q EXCEPT !.pc = "sent"]
  <2>1. req' = [req EXCEPT ![r] = p] /\ p.ask = req[r].ask /\ p.pc = "sent"
    BY <1>3 DEF Crosses, CallFields
  <2> HIDE DEF p
  <2> QED BY <2>1, OneCaller
<1> QED BY <1>1, <1>2, <1>3, RefuseCallers

\* A call arrives.
LEMMA ArriveCallers ==
  ASSUME ExportInv, Callers, NEW r \in Requests, Arrive(r)
  PROVE  Callers'
<1>1. ASSUME NEW error, NEW scope, NEW tenant, NEW policy, NEW ds,
             Refuse(r, error, scope, tenant, policy, ds)
      PROVE  Callers'
  BY <1>1, RefuseCallers
<1>2. CASE req' = [req EXCEPT ![r].pc = "refused", ![r].why = "invalid_token"]
  <2> DEFINE p == [req[r] EXCEPT !.pc = "refused", !.why = "invalid_token"]
  <2>1. p.ask = req[r].ask /\ p.pc = "refused" /\ req' = [req EXCEPT ![r] = p]
    BY <1>2 DEF CallFields, ExportInv
  <2> HIDE DEF p
  <2> QED BY <2>1, OneCaller
<1>3. ASSUME NEW t, Admitted(r, t) PROVE Callers'
  <2> DEFINE v == Verdict(t, Key(r))
             ds == AfterCheck(Key(r))
             q == [req[r] EXCEPT !.tenant = t, !.policy = PolicyOf[Client(r)], !.gen = agents[t].gen]
  <2>1. DOMAIN q = CallFields /\ q.ask = req[r].ask
    BY DEF ExportInv, CallFields
  <2>2. \/ Refuse(r, v.reason, v.scope, t, q.policy, ds)
        \/ Refuse(r, "no_agent", "", t, q.policy, ds)
        \/ req' = [req EXCEPT ![r] = [q EXCEPT !.pc = "checking"]]
        \/ Dispatch(r, q, ds)
    BY <1>3 DEF Admitted
  <2> HIDE DEF q, v, ds
  <2>3. CASE req' = [req EXCEPT ![r] = [q EXCEPT !.pc = "checking"]]
    <3> DEFINE p == [q EXCEPT !.pc = "checking"]
    <3>1. p.ask = req[r].ask /\ req' = [req EXCEPT ![r] = p]
      BY <2>1, <2>3 DEF CallFields
    <3>2. req[r].ask.client # ""
      BY DEF Arrive
    <3> HIDE DEF p
    <3> QED BY <3>1, <3>2, OneCaller
  <2>4. CASE Dispatch(r, q, ds)
    BY <2>1, <2>4, DispatchCallers
  <2> QED BY <2>2, <2>3, <2>4, <1>1
<1>4. \/ req' = [req EXCEPT ![r].pc = "refused", ![r].why = "invalid_token"]
      \/ Refuse(r, "offboarded", "", Attributed(Client(r)), "", denials)
      \/ Refuse(r, "not_entitled", "", Attributed(Client(r)), "", denials)
      \/ Refuse(r, "not_entitled", "", Attributed(Client(r)), PolicyOf[Client(r)], denials)
      \/ Admitted(r, RouteTenant(Client(r), req[r].ask.hint))
  BY DEF Arrive
<1> QED BY <1>1, <1>2, <1>3, <1>4

\* Every other step of a call.
LEMMA CallStepCallers ==
  ASSUME ExportInv, Callers, NEW r \in Requests, Checked(r) \/ Settle(r)
  PROVE  Callers'
<1>1. DOMAIN req[r] = CallFields
  BY DEF ExportInv
<1>2. CASE Checked(r) /\ Dispatch(r, req[r], denials)
  BY <1>1, <1>2, DispatchCallers
<1>3. CASE Checked(r) /\ ~Dispatch(r, req[r], denials)
  <2> DEFINE q == [req[r] EXCEPT !.pc = "refused", !.why = "token"]
  <2>1. req' = [req EXCEPT ![r] = q] /\ q.ask = req[r].ask /\ q.pc = "refused"
    BY <1>1, <1>3 DEF Checked, CallFields, ExportInv
  <2> HIDE DEF q
  <2> QED BY <2>1, OneCaller
<1>4. CASE Settle(r)
  <2>1. PICK out : req' = [req EXCEPT ![r].pc = "done", ![r].out = out]
    BY <1>4 DEF Settle
  <2> DEFINE q == [req[r] EXCEPT !.pc = "done", !.out = out]
  <2>2. req' = [req EXCEPT ![r] = q] /\ q.ask = req[r].ask /\ q.pc = "done"
    BY <1>1, <2>1 DEF CallFields, ExportInv
  <2> HIDE DEF q
  <2> QED BY <2>2, OneCaller
<1> QED BY <1>2, <1>3, <1>4

\* A frame settles the call it names, or none.
LEMMA ResponseCallers ==
  ASSUME ExportInv, Callers, NEW t, NEW id, NEW status, Response(t, id, status)
  PROVE  Callers'
<1>1. CASE id \in PendingOf(t)
  <2> DEFINE q == [req[id] EXCEPT !.pc = "settled", !.status = status]
  <2>1. id \in Requests /\ req' = [req EXCEPT ![id] = q] /\ q.ask = req[id].ask /\ q.pc = "settled"
    BY <1>1 DEF Response, PendingOf, ExportInv, CallFields
  <2> HIDE DEF q
  <2> QED BY <2>1, OneCaller
<1>2. CASE id \notin PendingOf(t)
  BY <1>2 DEF Response, Callers
<1> QED BY <1>1, <1>2

---------------------------------------------------------------------------
(* The theorems of the gate *)

\* Nobody has been denied.
LEMMA InitLocks ==
  ASSUME Init
  PROVE  LockInv
<1>1. PICK s \in Scenarios :
        /\ Readable(s.quotas) /\ quotas = s.quotas /\ now = 1 /\ denials = <<>>
        /\ book = [k \in Principals |-> NoLock] /\ signals = <<>>
        /\ req = [r \in Requests |-> NewCall(s.calls[r])]
  BY DEF Init, GateInit
<1>2. ASSUME Abusive(quotas) PROVE TermsHold
  <2>1. quotas.abuse \in [denials : Nat, window : Nat, lock : Nat]
    BY <1>1, <1>2, AccountingAssumption
  <2>2. quotas.abuse.denials > 0 /\ quotas.abuse.window > 0 /\ quotas.abuse.lock > 0
    BY <1>1, <1>2 DEF Readable, PositiveAbuse
  <2> QED BY <1>1, <2>1, <2>2 DEF TermsHold, Terms
<1>3. <<>> \in Seq(Entry) /\ <<>> \in Seq(Signal) /\ <<>> \in Seq(Nat) /\ Len(<<>>) = 0
  BY EmptySeq
<1>4. 1..0 = {} /\ DOMAIN <<>> = {}
  BY <1>3, LenProperties
<1>5. Past(<<>>)
  BY <1>3, <1>4 DEF Past
<1>6. BookShape(book)
  <2>1. NoLock \in Lock /\ Blank(NoLock)
    BY <1>3 DEF NoLock, Lock, Blank
  <2> QED BY <1>1, <2>1 DEF BookShape
<1>7. TableShape(<<>>, <<>>, quotas.abuse)
  <2>1. InOrder(<<>>, <<>>)
    <3>1. PICK f : f = [p \in {} |-> p]
      OBVIOUS
    <3>2. f \in [{} -> {}]
      BY <3>1
    <3>3. f \in [1..Len(<<>>) -> 1..Len(<<>>)]
      BY <1>3, <1>4, <3>2
    <3> QED BY <1>3, <1>4, <3>3 DEF InOrder
  <2>2. OneEach(<<>>)
    BY <1>3, <1>4 DEF OneEach
  <2> QED BY <1>3, <1>4, <2>1, <2>2 DEF TableShape
<1>8. Len(<<>>) <= KeyBound
  BY <1>3, GateAssumption
<1>9. Together(<<>>, book, <<>>)
  <2>1. ASSUME NEW k \in Principals PROVE Booked(<<>>, book[k], k, now, quotas.abuse)
    <3>1. book[k].times = <<>> /\ book[k].until = 0
      BY <1>1 DEF NoLock
    <3>2. NoneLeft(book[k], now, quotas.abuse)
      BY <1>1, <3>1, EmptyIsStale DEF NoneLeft
    <3> QED BY <1>3, <1>4, <3>2 DEF Booked
  <2> QED BY <2>1 DEF Together
<1>10. GateInv
  BY <1>1, <1>2, <1>5, <1>6, <1>7, <1>8, <1>9 DEF GateInv, GateHolds
<1>11. Callers
  <2>1. ASSUME NEW r \in Requests PROVE req[r].ask = s.calls[r] /\ req[r].pc = "new"
    BY <1>1 DEF NewCall
  <2>2. \A r \in Requests : s.calls[r].client \in Clients \cup {""}
    BY AccountingAssumption
  <2> QED BY <2>1, <2>2 DEF Callers
<1> QED BY <1>10, <1>11 DEF LockInv

\* A step that leaves calls and gate alone.
LEMMA LocksStandStill ==
  ASSUME LockInv, UNCHANGED <<gateVars, req>>
  PROVE  LockInv'
<1>1. GateInv'
  BY GateStandsStill DEF LockInv, gateVars
<1>2. Callers'
  BY DEF LockInv, Callers
<1> QED BY <1>1, <1>2 DEF LockInv

\* Waits are rejected, and the gate stays.
LEMMA RejectedLocks ==
  ASSUME ExportInv, LockInv, NEW R, Reject(R), UNCHANGED gateVars
  PROVE  LockInv'
<1>1. GateInv'
  BY GateStandsStill DEF LockInv, gateVars
<1> QED BY <1>1, RejectedCallers DEF LockInv

\* Every step keeps the locks.
LEMMA StepLocks ==
  ASSUME ExportInv, LockInv, [Next]_vars
  PROVE  LockInv'
<1>1. ASSUME NEW r \in Requests, Arrive(r) PROVE LockInv'
  BY <1>1, ArriveHolds, ArriveCallers DEF LockInv
<1>2. ASSUME NEW r \in Requests, Checked(r) PROVE LockInv'
  BY <1>2, CheckedHolds, CallStepCallers DEF LockInv
<1>3. ASSUME NEW r \in Requests, Settle(r) PROVE LockInv'
  BY <1>3, GateStandsStill, CallStepCallers DEF Settle, gateVars, LockInv
<1>4. ASSUME NEW t, NEW id, NEW status, Response(t, id, status) PROVE LockInv'
  BY <1>4, GateStandsStill, ResponseCallers DEF Response, gateVars, LockInv
<1>5. ASSUME NEW r, Timeout(r) PROVE LockInv'
  BY <1>5, RejectedLocks DEF Timeout
<1>6. ASSUME NEW t, AgentLeaves(t) PROVE LockInv'
  BY <1>6, RejectedLocks DEF AgentLeaves
<1>7. ASSUME NEW o, OffboardDestroys(o) PROVE LockInv'
  BY <1>7, RejectedLocks DEF OffboardDestroys
<1>8. CASE CloseEdge
  BY <1>8, RejectedLocks DEF CloseEdge
<1>9. CASE TimePasses
  <2>1. GateInv'
    BY <1>9, TickHolds DEF TimePasses, LockInv
  <2>2. Callers'
    BY <1>9 DEF TimePasses, callVars, LockInv, Callers
  <2> QED BY <2>1, <2>2 DEF LockInv
<1>10. ASSUME NEW chain, NEW inclusion, NotaryAnswers(chain, inclusion) PROVE LockInv'
  BY <1>10, LocksStandStill DEF NotaryAnswers, callVars
<1>11. ASSUME NEW t, AgentComes(t) PROVE LockInv'
  BY <1>11, LocksStandStill DEF AgentComes, callVars
<1>12. ASSUME NEW o, OffboardRefused(o) \/ OffboardGoesOn(o) \/ OffboardEnds(o) PROVE LockInv'
  BY <1>12, LocksStandStill DEF OffboardRefused, OffboardGoesOn, OffboardEnds, callVars
<1>13. CASE UNCHANGED vars
  BY <1>13, LocksStandStill DEF vars, callVars
<1> QED BY <1>1, <1>2, <1>3, <1>4, <1>5, <1>6, <1>7, <1>8, <1>9, <1>10, <1>11, <1>12, <1>13 DEF Next

\* usage.js:251.  The bounded table and an unbounded one agree, now and whatever
\* time passes, on every principal that was not crowded out; each time an entry
\* holds is of a denial of its own, and each lock of as many as lock.
THEOREM LockInvariant == Spec => []LockInv
<1>1. Init => LockInv
  BY InitLocks
<1>2. ExportInv /\ LockInv /\ [Next]_vars => LockInv'
  BY StepLocks
<1> QED BY <1>1, <1>2, ExportInvariant, PTL DEF Spec

\* usage.js:251.  Whatever the order of denials, checks and evictions, a lock was
\* earned by its own principal's denials within one window, the table keeps its
\* bound, and one who was not crowded out is locked exactly when it should be.
THEOREM LocksAreTrue == Spec => []LocksAreEarnedAndKept
<1>1. ASSUME LockInv PROVE LocksAreEarnedAndKept
  <2>1. SUFFICES ASSUME Abusive(quotas)
                 PROVE  /\ Len(denials) <= KeyBound
                        /\ \A i \in DOMAIN denials : Earned(denials[i])
                        /\ \A k \in Principals :
                             ~Crowded(k) => (IsLocked(denials, k) <=> Locked(book[k]))
    BY DEF LocksAreEarnedAndKept
  <2>2. GateHolds(denials, book, signals) /\ now \in Nat
    BY <1>1, <2>1 DEF LockInv, GateInv
  <2>3. TableShape(denials, signals, quotas.abuse) /\ DOMAIN denials = 1..Len(denials)
        /\ Len(denials) <= KeyBound
    BY <2>2, LenProperties DEF GateHolds, TableShape
  <2>4. ASSUME NEW i \in DOMAIN denials PROVE Earned(denials[i])
    <3>1. EarnedBy(denials[i], signals, quotas.abuse)
      BY <2>3 DEF TableShape
    <3> QED BY <3>1 DEF EarnedBy, Earned, Causes
  <2>5. ASSUME NEW k \in Principals, ~Crowded(k) PROVE IsLocked(denials, k) <=> Locked(book[k])
    <3>1. ~CrowdedAt(k, signals)
      BY <2>5 DEF Crowded, CrowdedAt, Others
    <3>2. Booked(denials, book[k], k, now, quotas.abuse)
      BY <2>2, <3>1 DEF GateHolds, Together
    <3>3. book[k].until \in Nat
      BY <2>2 DEF GateHolds, BookShape, Lock
    <3>4. CASE \E p \in 1..Len(denials) : denials[p].key = k
      BY <2>3, <3>2, <3>4 DEF Booked, SameLock, IsLocked, Locked
    <3>5. CASE ~\E p \in 1..Len(denials) : denials[p].key = k
      <4>1. book[k].until <= now
        BY <3>2, <3>5 DEF Booked, NoneLeft
      <4>2. ~Locked(book[k])
        BY <2>2, <3>3, <4>1 DEF Locked
      <4> QED BY <2>3, <3>5, <4>2 DEF IsLocked
    <3> QED BY <3>4, <3>5
  <2> QED BY <2>3, <2>4, <2>5
<1> QED BY <1>1, LockInvariant, PTL
=============================================================================
