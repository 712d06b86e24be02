--------------------------- MODULE EdgeAccounting ---------------------------
(***************************************************************************)
(* What the relay edge keeps of its calls: every decision and receipt      *)
(* passes the quota gate, the usage ledger and the evidence ledger, while  *)
(* agents answer late or twice, notaries are slow or wrong, tenants are    *)
(* offboarded and enrolled again, and the edge closes.                     *)
(*                                                                         *)
(* The module RelayEdge has the same fan-down with its routing, bindings   *)
(* and attestations in detail; here they are what a call asks for.         *)
(***************************************************************************)
EXTENDS Evidence

CONSTANTS
  Clients,    \* northbound clients
  KeyOf,      \* usagePrincipalKey of each
  PolicyOf,   \* the policy digest each is bound to
  Grants,     \* auth.tenantGrants
  Requests,   \* calls: bounds the model
  Offboards,  \* calls of offboardTenant: bounds the model
  MaxStrays,  \* responses nobody waits for: bounds the model
  MaxHellos,  \* times an agent connects: bounds the model
  Scenarios

ASSUME AccountingAssumption ==
  /\ Requests \subseteq Ids /\ KeyOf \in [Clients -> Principals]
  /\ Grants \in [Clients -> SUBSET Tenants]
  /\ \A s \in Scenarios :
       /\ s.offboards \in [Offboards -> Clients \cup {""}]
       /\ \A r \in Requests : s.calls[r].client \in Clients \cup {""}
       /\ Abusive(s.quotas) => s.quotas.abuse \in [denials : Nat, window : Nat, lock : Nat]

VARIABLES
  setup,    \* which ledgers the edge has, and what happens around it
  req,      \* each call
  grants,   \* tenantGrantTable, which an offboarding changes
  agents,   \* the session of each tenant's agent: up, and which one it is
  creds,    \* tenants with a channel credential
  tickets,  \* approvals issued and not consumed, by the call that was challenged
  revoked,  \* clients whose token was revoked
  tombs,    \* clients that were offboarded
  off,      \* each call of offboardTenant
  torn,     \* history: tenants an offboarding has torn down
  strays    \* history: responses nobody waited for, numbered

callVars == <<req, tickets, strays>>
edgeVars == <<grants, agents, creds, revoked, tombs, off, torn>>
vars == <<setup, gateVars, ledgerVars, evidenceVars, callVars, edgeVars>>

NewCall(a) == [ask |-> a, pc |-> "new", tenant |-> "", policy |-> "", gen |-> 0,
               status |-> "none", out |-> "none", why |-> ""]
NewOffboard(a) == [ask |-> a, pc |-> "new", tenant |-> "", result |-> "none"]

Init ==
  \E s \in Scenarios :
    /\ setup = [usage |-> s.usage, evidence |-> s.evidence, env |-> s.env]
    /\ GateInit(s.quotas) /\ LedgerInit /\ EvidenceInit
    /\ req = [r \in Requests |-> NewCall(s.calls[r])]
    /\ grants = Grants
    /\ agents = [t \in Tenants |-> [up |-> TRUE, gen |-> 1]]
    /\ creds = Tenants
    /\ tickets = {} /\ revoked = {} /\ tombs = {} /\ torn = {} /\ strays = {}
    /\ off = [o \in Offboards |-> NewOffboard(s.offboards[o])]

Happens(event) == event \in setup.env
Client(r) == req[r].ask.client
Key(r) == KeyOf[Client(r)]

---------------------------------------------------------------------------
(* Metering *)

Meter(row) == IF setup.usage THEN Record(row) ELSE UNCHANGED ledgerVars

Submit(chain) ==
  /\ submitted' = IF setup.evidence THEN submitted \cup {chain} ELSE submitted
  /\ UNCHANGED <<evidence, included>>

CallChain(r, what, tenant, policy, outcome) ==
  ExecutionChain(r, what, tenant, Client(r), policy, req[r].ask.ticket, r, outcome)

\* Denials that feed the principal's lock: not those of a shared window.
AbuseSignalM1(error, scope) == error \in {"not_entitled", "quota_exceeded"}

AbuseSignal(error, scope) ==
  error \in {"not_entitled", "quota_exceeded"} /\ scope \notin {"tenant", "config"}
OwnFault(error, scope) ==
  \/ error = "not_entitled" /\ scope \in {"", "principal"}
  \/ error = "quota_exceeded" /\ scope = "principal"

\* refuse: the denial counts, is metered and remembered, and is answered.  ds is
\* the denial table the quota check has left.
Refuse(r, error, scope, tenant, policy, ds) ==
  /\ denials' = IF AbuseSignal(error, scope) THEN NoteDenial(ds, Key(r)) ELSE ds
  /\ IF OwnFault(error, scope) THEN EnterBook(Key(r)) ELSE UNCHANGED <<book, signals>>
  /\ Meter(Decision("deny", "", tenant, Key(r)))
  /\ Submit([CallChain(r, "refused", tenant, policy, "denied") EXCEPT !.approval = ""])
  /\ req' = [req EXCEPT ![r].pc = "refused", ![r].tenant = tenant, ![r].policy = policy,
                        ![r].why = error]

---------------------------------------------------------------------------
(* fanDown *)

\* attributedTenant, and the tenant a call is routed to.
Attributed(c) == IF Cardinality(grants[c]) = 1 THEN CHOOSE t \in grants[c] : TRUE ELSE ""
RouteTenant(c, hint) ==
  IF hint = "" THEN Attributed(c) ELSE IF hint \in grants[c] THEN hint ELSE ""

Crosses(r, q, ds) ==
  /\ Meter(Decision("allow", r, q.tenant, Key(r)))
  /\ req' = [req EXCEPT ![r] = [q EXCEPT !.pc = "sent"]]
  /\ denials' = ds
  /\ UNCHANGED <<book, signals, evidenceVars>>

Challenge(r, q, ds) ==
  /\ tickets' = tickets \cup {r}
  /\ Meter(Decision("deny", "", q.tenant, Key(r)))
  /\ Submit([CallChain(r, "challenged", q.tenant, q.policy, "require_approval")
               EXCEPT !.approval = r])
  /\ req' = [req EXCEPT ![r] = [q EXCEPT !.pc = "refused", !.why = "require_approval"]]
  /\ denials' = ds
  /\ UNCHANGED <<book, signals>>

\* Approval, broker.track and the frame.  A session that has ended since it was
\* selected is not written to, and the approval is spent all the same.
Dispatch(r, q, ds) ==
  LET gated == q.ask.tool \in {"gated", "gated_write"}
      held  == q.ask.ticket \in tickets /\ Client(q.ask.ticket) = q.ask.client
      open  == agents[q.tenant].up /\ agents[q.tenant].gen = q.gen
      write == /\ tickets' = tickets \ {q.ask.ticket}
               /\ IF open THEN Crosses(r, q, ds)
                  ELSE Refuse(r, "no_agent", "", q.tenant, q.policy, ds)
  IN  CASE gated /\ q.ask.ticket = "" -> Challenge(r, q, ds)
        [] gated /\ q.ask.ticket # "" /\ ~held ->
             UNCHANGED tickets /\ Refuse(r, "not_entitled", "", q.tenant, q.policy, ds)
        [] OTHER -> write

\* fanDown once the tenant is resolved: the quota check, and the session.
Admitted(r, t) ==
  LET c == Client(r)
      v == Verdict(t, Key(r))
      ds == AfterCheck(Key(r))
      q == [req[r] EXCEPT !.tenant = t, !.policy = PolicyOf[c], !.gen = agents[t].gen]
  IN  /\ windows' = Charge(Charged(t, Key(r)))
      /\ CASE v.reason # "" ->
                Refuse(r, v.reason, v.scope, t, q.policy, ds) /\ UNCHANGED tickets
           [] v.reason = "" /\ ~agents[t].up ->
                Refuse(r, "no_agent", "", t, q.policy, ds) /\ UNCHANGED tickets
           [] v.reason = "" /\ agents[t].up /\ q.ask.tool \in {"write", "gated_write"} ->
                /\ req' = [req EXCEPT ![r] = [q EXCEPT !.pc = "checking"]]
                /\ denials' = ds
                /\ UNCHANGED <<book, signals, ledgerVars, evidenceVars, tickets>>
           [] OTHER -> Dispatch(r, q, ds)

\* A call arrives.  A revoked token is refused before the edge meters anything.
Arrive(r) ==
  LET c == Client(r)
      t == RouteTenant(c, req[r].ask.hint)
  IN  /\ req[r].pc = "new" /\ req[r].ask.client # ""
      /\ CASE c \in revoked ->
                /\ req' = [req EXCEPT ![r].pc = "refused", ![r].why = "invalid_token"]
                /\ UNCHANGED <<windows, denials, book, signals, ledgerVars, evidenceVars, tickets>>
           [] c \notin revoked /\ (c \in tombs \/ ~req[r].ask.entitled) ->
                /\ Refuse(r, IF c \in tombs THEN "offboarded" ELSE "not_entitled", "",
                          Attributed(c), "", denials)
                /\ UNCHANGED <<windows, tickets>>
           [] c \notin revoked /\ c \notin tombs /\ req[r].ask.entitled /\ t = "" ->
                /\ Refuse(r, "not_entitled", "", Attributed(c), PolicyOf[c], denials)
                /\ UNCHANGED <<windows, tickets>>
           [] OTHER -> Admitted(r, t)
      /\ UNCHANGED <<setup, quotas, now, strays, edgeVars>>

\* The live check of a write-like call ends.
Checked(r) ==
  /\ req[r].pc = "checking"
  /\ \/ Dispatch(r, req[r], denials)
     \/ /\ Meter(Decision("deny", "", req[r].tenant, Key(r)))
        /\ Submit([CallChain(r, "refused", req[r].tenant, req[r].policy, "denied")
                     EXCEPT !.approval = ""])
        /\ req' = [req EXCEPT ![r].pc = "refused", ![r].why = "token"]
        /\ UNCHANGED <<denials, book, signals, tickets>>
  /\ UNCHANGED <<setup, quotas, now, windows, strays, edgeVars>>

Reject(R) == req' = [r \in Requests |-> IF r \in R THEN [req[r] EXCEPT !.pc = "rejected"] ELSE req[r]]
PendingOf(t) == {r \in Requests : req[r].pc = "sent" /\ req[r].tenant = t}

Timeout(r) ==
  /\ req[r].pc = "sent"
  /\ Reject({r})
  /\ UNCHANGED <<setup, gateVars, ledgerVars, evidenceVars, tickets, strays, edgeVars>>

\* What a response may name: a frame id, or none.
FrameIds == Ids \cup {""}

\* A frame of tenant t's agent: it settles the call it names, or it is metered
\* against the sending tunnel, as often as it comes.  A frame id is a random UUID,
\* so no agent names a call before the call's own frame was written.
Response(t, id, status) ==
  /\ agents[t].up
  /\ IF id \in PendingOf(t)
     THEN /\ req' = [req EXCEPT ![id].pc = "settled", ![id].status = status]
          /\ UNCHANGED <<ledgerVars, strays>>
     ELSE LET n == Cardinality(strays) + 1
          IN  /\ Happens("strays") /\ n <= MaxStrays
              /\ id \in Requests => req[id].pc \in {"sent", "settled", "rejected", "done"}
              /\ Meter(Receipt(n, "unknown", id, "", t, ""))
              /\ strays' = strays \cup {[tenant |-> t, id |-> id, no |-> n]} /\ UNCHANGED req
  /\ UNCHANGED <<setup, gateVars, evidenceVars, tickets, edgeVars>>

\* The wait of a call is over: its receipt.  A status or a header that the
\* northbound response cannot carry is a failure.
Outcomes(r) ==
  CASE req[r].pc = "rejected" -> {"unknown"}
    [] req[r].pc = "settled" /\ req[r].status = "ok" -> {"ok", "failed"}
    [] OTHER -> {"failed"}

Settle(r) ==
  /\ req[r].pc \in {"settled", "rejected"}
  /\ \E out \in Outcomes(r) :
       /\ Meter(Receipt(0, out, r, r, req[r].tenant, Key(r)))
       /\ Submit(CallChain(r, "receipt", req[r].tenant, req[r].policy, out))
       /\ req' = [req EXCEPT ![r].pc = "done", ![r].out = out]
  /\ UNCHANGED <<setup, gateVars, tickets, strays, edgeVars>>

NotaryAnswers(chain, inclusion) ==
  /\ chain \in submitted /\ inclusion \in Replies(chain)
  /\ Remember(chain, inclusion)
  /\ UNCHANGED <<setup, gateVars, ledgerVars, callVars, edgeVars>>

---------------------------------------------------------------------------
(* Agents and offboarding *)

AgentLeaves(t) ==
  /\ Happens("agents") /\ agents[t].up
  /\ agents' = [agents EXCEPT ![t].up = FALSE]
  /\ Reject(PendingOf(t))
  /\ UNCHANGED <<setup, gateVars, ledgerVars, evidenceVars, tickets, strays,
                 grants, creds, revoked, tombs, off, torn>>

\* An agent says hello; the operator may have enrolled it again.
AgentComes(t) ==
  /\ Happens("agents") /\ ~agents[t].up /\ agents[t].gen < MaxHellos
  /\ creds' = creds \cup {t}
  /\ agents' = [agents EXCEPT ![t] = [up |-> TRUE, gen |-> @.gen + 1]]
  /\ UNCHANGED <<setup, gateVars, ledgerVars, evidenceVars, callVars,
                 grants, revoked, tombs, off, torn>>

OffChain(o, outcome) ==
  LET c == off[o].ask
  IN  ExecutionChain(o, outcome, off[o].tenant, c, PolicyOf[c], "", "", outcome)

OffResult(o, result) == off' = [off EXCEPT ![o].pc = "done", ![o].result = result]

\* offboardTenant up to its teardown: who is asked for, and what may fail.  A
\* token is revoked before the credential is destroyed, and stays revoked.
OffboardRefused(o) ==
  LET c == off[o].ask
  IN  /\ off[o].pc = "new" /\ c # ""
      /\ \/ c \in tombs /\ OffResult(o, "already") /\ UNCHANGED revoked
         \/ c \notin tombs /\ ~setup.evidence
            /\ OffResult(o, "export_unavailable") /\ UNCHANGED revoked
         \/ c \notin tombs /\ setup.evidence /\ Cardinality(grants[c]) # 1
            /\ OffResult(o, "not_entitled") /\ UNCHANGED revoked
         \/ c \notin tombs /\ setup.evidence /\ Cardinality(grants[c]) = 1 /\ Happens("faults")
            /\ OffResult(o, "destroy_failed")
            /\ revoked' \in {revoked, revoked \cup {c}}
      /\ UNCHANGED <<setup, gateVars, ledgerVars, evidenceVars, callVars,
                     grants, agents, creds, tombs, torn>>

\* The teardown, and the first of its two rows.
OffboardDestroys(o) ==
  LET c == off[o].ask
      t == Attributed(c)
  IN  /\ off[o].pc = "new" /\ c # "" /\ setup.evidence
      /\ c \notin tombs /\ t # ""
      /\ revoked' \in {revoked \cup {c}} \cup IF Happens("no_jti") THEN {revoked} ELSE {}
      /\ creds' = creds \ {t}
      /\ agents' = [agents EXCEPT ![t].up = FALSE]
      /\ Reject(PendingOf(t))
      /\ tickets' = {} /\ torn' = torn \cup {t}
      /\ Submit(ExecutionChain(o, "revoked", t, c, PolicyOf[c], "", "", "revoked"))
      /\ off' = [off EXCEPT ![o].pc = "revoking", ![o].tenant = t]
      /\ UNCHANGED <<setup, gateVars, ledgerVars, strays, grants, tombs>>

OffboardGoesOn(o) ==
  /\ off[o].pc = "revoking" /\ OffChain(o, "revoked") \notin submitted
  /\ Submit(OffChain(o, "destroyed"))
  /\ off' = [off EXCEPT ![o].pc = "destroying"]
  /\ UNCHANGED <<setup, gateVars, ledgerVars, callVars, grants, agents, creds, revoked, tombs, torn>>

\* The last export, and then the grants go.  It fails if they have gone already.
OffboardEnds(o) ==
  LET c == off[o].ask
      granted == off[o].tenant \in grants[c]
  IN  /\ off[o].pc = "destroying" /\ OffChain(o, "destroyed") \notin submitted
      /\ OffResult(o, IF granted THEN "ok" ELSE "export_unavailable")
      /\ grants' = IF granted THEN [grants EXCEPT ![c] = {}] ELSE grants
      /\ tombs' = IF granted THEN tombs \cup {c} ELSE tombs
      /\ UNCHANGED <<setup, gateVars, ledgerVars, evidenceVars, callVars,
                     agents, creds, revoked, torn>>

\* edge.close: the sessions go and every wait is rejected; the northbound server
\* still answers until the channel server is closed.
CloseEdge ==
  /\ Happens("close") /\ \E t \in Tenants : agents[t].up
  /\ agents' = [t \in Tenants |-> [agents[t] EXCEPT !.up = FALSE]]
  /\ Reject({r \in Requests : req[r].pc = "sent"})
  /\ UNCHANGED <<setup, gateVars, ledgerVars, evidenceVars, tickets, strays,
                 grants, creds, revoked, tombs, off, torn>>

TimePasses ==
  /\ Happens("clock") /\ Tick
  /\ UNCHANGED <<setup, ledgerVars, evidenceVars, callVars, edgeVars>>

Next ==
  \/ \E r \in Requests : Arrive(r) \/ Checked(r) \/ Timeout(r) \/ Settle(r)
  \/ \E t \in Tenants, id \in FrameIds, status \in {"ok", "error"} : Response(t, id, status)
  \/ \E chain \in submitted : \E inclusion \in Replies(chain) : NotaryAnswers(chain, inclusion)
  \/ \E t \in Tenants : AgentLeaves(t) \/ AgentComes(t)
  \/ \E o \in Offboards :
       OffboardRefused(o) \/ OffboardDestroys(o) \/ OffboardGoesOn(o) \/ OffboardEnds(o)
  \/ CloseEdge \/ TimePasses

Spec == Init /\ [][Next]_vars

---------------------------------------------------------------------------
(* Properties *)

\* Every lock was earned: as many denials of that principal's own making as the
\* table says lie within one window before it.
Earned(e) ==
  e.until # 0 =>
    LET at == e.until - quotas.abuse.lock
    IN  Cardinality({i \in DOMAIN signals :
                       /\ signals[i].key = e.key /\ signals[i].at <= at
                       /\ at - signals[i].at < quotas.abuse.window}) >= quotas.abuse.denials

\* usage.js:251.  The bounded table of denials locks whom an unbounded one would,
\* for as long, unless so many others were denied since that it was crowded out;
\* nobody is locked for the faults of others, and the table keeps its bound.
LocksAreEarnedAndKept ==
  Abusive(quotas) =>
    /\ Len(denials) <= KeyBound
    /\ \A i \in DOMAIN denials : Earned(denials[i])
    /\ \A k \in Principals : ~Crowded(k) => (IsLocked(denials, k) <=> Locked(book[k]))

\* Calls whose frame crossed to a tenant, of one principal if one is named.
Crossed(t, key) ==
  {r \in Requests : /\ req[r].pc \in {"sent", "settled", "rejected", "done"}
                    /\ req[r].tenant = t /\ key \in {"", Key(r)}}

\* Responses of tenant t that name a frame id and that nobody waited for: nobody
\* is their principal, so they are none of a named one's.
Strayed(id, t, key) == {s \in strays : key = "" /\ s.tenant = t /\ s.id = id}

\* What the tenant's own reader should be told of a frame id: what became of the
\* call, unless its agent said more of it than the answer somebody waited for.
Truth(id, t, key) ==
  LET answers == Strayed(id, t, key)
      crossed == id \in Crossed(t, key)
      done    == crossed /\ req[id].pc = "done"
  IN  CASE Several(answers) \/ (done /\ answers # {}) -> "duplicate"
        [] crossed /\ ~done /\ answers # {} /\ ~Several(answers) -> "uncertain"
        [] done /\ answers = {} -> IF req[id].out = "unknown" THEN "uncertain" ELSE "settled"
        [] OTHER -> "missing"

Readers == {c \in Clients : c \notin tombs \cup revoked}
ReadBy(c) == {ReadTenant(grants[c], hint) : hint \in Tenants \cup {""}} \ {""}

\* usage.js:508.  However late or often agents answer, for calls of their own or
\* of others or for none, a reader's reconciliation tells of each frame id what
\* became of it in that tenant, and of each call to the tenant; a chain it calls
\* settled really is, even when rows were dropped, and a report that lacks rows
\* says that it is truncated.
ReconciliationIsTrue ==
  setup.usage =>
    \A c \in Readers : \A t \in ReadBy(c), key \in Principals \cup {""} :
      LET list == Query(t, key)
      IN  /\ \A id \in Chained(list) :
               Chain(list, id) = "settled" =>
                 id \in Crossed(t, key) /\ Truth(id, t, key) = "settled"
          /\ ~Truncated =>
               /\ Crossed(t, key) \subseteq Chained(list)
               /\ \A id \in Chained(list) : Chain(list, id) = Truth(id, t, key)

\* What a whole onboarding cites.
Onboarded(t, policy) ==
  LET mine == {r \in Requests : req[r].tenant = t /\ req[r].policy = policy}
      ok(r) == req[r].pc = "done" /\ req[r].out = "ok"
      challenged(r) == req[r].pc = "refused" /\ req[r].why = "require_approval"
  IN  /\ \E r \in mine : ok(r) /\ req[r].ask.ticket = ""
      /\ \E r \in mine : req[r].pc = "refused" /\ ~challenged(r)
      /\ \E r \in mine : challenged(r) \/ (ok(r) /\ req[r].ask.ticket # "")

\* edge.js:898, edge.js:1749.  A pack cites as anchored only rows whose own digest
\* the notary signed, and evidences an onboarding or an offboarding only if it
\* happened to that tenant; an offboarding that got past its teardown leaves the
\* client without grant and entombed, even one that reports a failure.
ExportIsTrue ==
  /\ \A i \in DOMAIN evidence : evidence[i].anchored => evidence[i].chain \in included
  /\ \A c \in Readers : \A t \in ReadBy(c) :
       LET cited == Controls(t, PolicyOf[c])
       IN  /\ "offboarded" \in cited => t \in torn
           /\ "onboarded" \in cited => Onboarded(t, PolicyOf[c])
  /\ \A o \in Offboards :
       off[o].pc = "done" /\ off[o].tenant # "" =>
         off[o].ask \in tombs /\ grants[off[o].ask] = {} /\ off[o].tenant \in torn
=============================================================================
