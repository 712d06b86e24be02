----------------------------- MODULE RelayEdge -----------------------------
(***************************************************************************)
(* The relay edge: northbound requests fanned down to tenant agents over   *)
(* the sessions of AgentChannel (src/lib/relay/edge.js), the broker that   *)
(* correlates responses (frames.js), the one-use approval ledger           *)
(* (contracts/approval.js), the agent that serves the frames (agent.js),   *)
(* and the offboarding of a tenant.                                        *)
(*                                                                         *)
(* fanDown has one suspension point before a frame is written: the live    *)
(* token check of a write-like call.  What it read before that point (the  *)
(* selected session) is used after it, whatever happened in between.       *)
(***************************************************************************)
EXTENDS AgentChannel

CONSTANTS
  Clients,       \* northbound principals
  Requests,      \* northbound requests: bounds the model
  Tickets,       \* approval ids that can ever be issued: bounds the model
  Tools,
  WriteTools,    \* write-like calls: the token is checked again
  GatedTools,    \* approvalRequiredTools
  GovernedTools, \* calls that are not diagnostic
  MaxOffboards,  \* offboard calls of a client at once: bounds the model
  ByGrant,       \* TRUE when auth.tenantGrants is configured
  TenantGrants,  \* client -> tenants it may reach (auth.tenantGrants)
  SiteGrants,    \* client -> sites it may reach (the grant table)
  PolicyOf       \* client -> the document of its policy digest, or None

\* A ticket is bound to its actor and to the digest of <<tool, tenant>>; the
\* policy digest in it is a function of the client.
Ticket == [client : Clients, tenant : Agents, tool : Tools, used : BOOLEAN]

ASSUME RelayAssumption ==
  /\ WriteTools \cup GatedTools \cup GovernedTools \subseteq Tools
  /\ MaxOffboards \in Nat
  /\ ByGrant \in BOOLEAN
  /\ TenantGrants \in [Clients -> SUBSET Agents]
  /\ SiteGrants \in [Clients -> SUBSET Catalog]
  /\ PolicyOf \in [Clients -> Digests \cup {None}]
  /\ None \notin Clients \cup Tickets /\ None \notin Ticket

VARIABLES
  req,       \* each request's progress through fanDown
  tickets,   \* approval ledger: ticket -> what it is bound to, or None
  toAgent,   \* mcp-request frames in flight, as <<socket, request>>
  serving,   \* frames an agent received and has not answered
  ranOn,     \* history: the agents that executed each request
  tombs,     \* clients whose offboarding completed
  offCalls,  \* number of offboard calls of each client that await the evidence rows
  retired    \* history: the <<agent, token>> records an offboarding destroyed
             \* and no operator issued again

requestVars == <<req, tickets, toAgent, serving, ranOn, tombs, offCalls, retired>>
vars == <<channelVars, requestVars>>

\* "checking": suspended in the live token check.  "sent": tracked by the
\* broker, frame written.  "refused": answered without a frame.  "done":
\* answered after one, with the receipt's outcome.
Request ==
  [st : {"idle", "checking", "sent", "refused", "done"},
   client : Clients \cup {None}, tool : Tools \cup {None},
   agent : Agents \cup {None}, sock : Sockets \cup {None},
   ticket : Tickets \cup {None},
   outcome : {"none", "ok", "failed", "unknown"}]

Idle == [st |-> "idle", client |-> None, tool |-> None, agent |-> None,
         sock |-> None, ticket |-> None, outcome |-> "none"]

Issued == {t \in Tickets : tickets[t] # None}

---------------------------------------------------------------------------
(* resolveTenantRoute *)

GrantedTenantM1(c, hint) ==
  IF hint # None THEN hint
  ELSE IF TenantGrants[c] # {} THEN CHOOSE a \in TenantGrants[c] : TRUE
  ELSE None

\* The tenant a grant names; a caller hint only picks inside the grant.
GrantedTenant(c, hint) ==
  LET tenants == TenantGrants[c] IN
  IF hint # None THEN IF hint \in tenants THEN hint ELSE None
  ELSE IF Cardinality(tenants) = 1 THEN CHOOSE a \in tenants : TRUE
  ELSE None

\* The granted sites a session serves; an unscoped session serves them all.
Allowed(c, a) ==
  IF sessions[a].sites = {} THEN SiteGrants[c]
  ELSE SiteGrants[c] \cap sessions[a].sites

TargetAllowed(c, a, target) ==
  IF target # None THEN target \in Allowed(c, a) ELSE Allowed(c, a) # {}

\* selectTenantSession: the unique agent that covers the sites needed, or a
\* lone unscoped one.
CoveringTenant(c, target) ==
  LET needed   == IF target # None THEN {target} ELSE SiteGrants[c]
      unscoped == {a \in Connected : sessions[a].sites = {}}
      matches  == {a \in Connected : needed \subseteq sessions[a].sites}
      fit      == IF unscoped # {} THEN Connected ELSE matches
  IN IF Cardinality(fit) = 1 THEN CHOOSE a \in fit : TRUE ELSE None

\* The connected tenant a request is routed to, None when it is refused.
Route(c, hint, target) ==
  LET a == IF ByGrant THEN GrantedTenant(c, hint) ELSE CoveringTenant(c, target)
  IN IF a \in Connected /\ (ByGrant => TargetAllowed(c, a, target))
     THEN a ELSE None

---------------------------------------------------------------------------
(* fanDown, from its start to the dispatch or the live token check *)

\* The client is entitled to the target, and its tenant's session attested
\* its policy where the call is governed.
Entitled(c, tool, hint, target) ==
  /\ c \notin tombs
  /\ SiteGrants[c] # {}
  /\ target # None => target \in SiteGrants[c]
  /\ LET a == Route(c, hint, target) IN
       /\ a # None
       /\ Digests # {} /\ tool \in GovernedTools =>
            /\ PolicyOf[c] # None
            /\ PolicyOf[c] \in sessions[a].attested

\* The credential the session said hello with is still live.
Credentialed(a) ==
  LET holder == Lookup(sessions[a].token) IN
    holder # None /\ ~creds[holder].revoked

\* siteBindingKey: the record's bind against the one kept at hello.
BindUnchanged(a) ==
  creds[Lookup(sessions[a].token)].sites = sessions[a].sites

Finish(r, fields) == req' = [req EXCEPT ![r] = fields]

Refused(c, tool) ==
  [Idle EXCEPT !.st = "refused", !.client = c, !.tool = tool]

\* Any check refuses.  The quota gate's verdict is an input here.
Refuse(r, c, tool, hint, target, quotaOk) ==
  /\ req[r].st = "idle"
  /\ ~(/\ quotaOk
       /\ Entitled(c, tool, hint, target)
       /\ Credentialed(Route(c, hint, target)))
  /\ Finish(r, Refused(c, tool))
  /\ UNCHANGED <<channelVars, tickets, toAgent, serving, ranOn, tombs, offCalls, retired>>

\* The bind was changed under the session: drop the tunnel and refuse.
Rebound(r, c, tool, hint, target) ==
  /\ req[r].st = "idle"
  /\ Entitled(c, tool, hint, target)
  /\ LET a == Route(c, hint, target) IN
       /\ Credentialed(a) /\ ~BindUnchanged(a)
       /\ sock' = [sock EXCEPT ![sessions[a].sock].st = "destroyed"]
  /\ Finish(r, Refused(c, tool))
  /\ UNCHANGED <<creds, readable, edits, sessions, enforced, tickets, toAgent,
                 serving, ranOn, tombs, offCalls, retired>>

---------------------------------------------------------------------------
(* fanDown, the dispatch: approval, broker.track and the frame *)

Bound(q) == [client |-> q.client, tenant |-> q.agent, tool |-> q.tool, used |-> FALSE]

ConsumableM1(q) ==
  q.ticket \in Issued /\ [tickets[q.ticket] EXCEPT !.used = FALSE] = Bound(q)

\* consume: the ticket is unused and bound to this actor, tenant and tool.
Consumable(q) == q.ticket \in Issued /\ tickets[q.ticket] = Bound(q)

Gated(q) == q.tool \in GatedTools

\* No approval presented: a ticket is issued and the call is not dispatched.
Challenge(r, q) ==
  /\ Gated(q) /\ q.ticket = None
  /\ \E t \in Tickets \ Issued : tickets' = [tickets EXCEPT ![t] = Bound(q)]
  /\ Finish(r, Refused(q.client, q.tool))
  /\ UNCHANGED toAgent

\* An approval that is unknown, used or bound to something else.
RefuseTicket(r, q) ==
  /\ Gated(q) /\ q.ticket # None /\ ~Consumable(q)
  /\ Finish(r, Refused(q.client, q.tool))
  /\ UNCHANGED <<tickets, toAgent>>

\* The approval is spent before the write, so a failed write loses it.
Spend(q) ==
  tickets' = IF Gated(q) THEN [tickets EXCEPT ![q.ticket].used = TRUE] ELSE tickets

\* The frame a write leaves on the wire: none reaches an agent that is gone.
FramesAfterWrite(r, q) ==
  IF sock[q.sock].st = "open" THEN toAgent \cup {<<q.sock, r>>} ELSE toAgent

WriteFrame(r, q) ==
  /\ Gated(q) => q.ticket # None /\ Consumable(q)
  /\ Spend(q)
  /\ IF Writable(q.sock)
     THEN Finish(r, [q EXCEPT !.st = "sent"]) /\ toAgent' = FramesAfterWrite(r, q)
     ELSE Finish(r, Refused(q.client, q.tool)) /\ UNCHANGED toAgent

Dispatch(r, q) == Challenge(r, q) \/ RefuseTicket(r, q) \/ WriteFrame(r, q)

\* A request that passes every check: dispatched at once, or suspended in
\* the live token check with the session it selected.
Start(r, c, tool, hint, target, ticket) ==
  /\ req[r].st = "idle"
  /\ Entitled(c, tool, hint, target)
  /\ LET a == Route(c, hint, target)
         q == [Idle EXCEPT !.st = "checking", !.client = c, !.tool = tool,
                 !.agent = a, !.sock = sessions[a].sock, !.ticket = ticket]
     IN /\ Credentialed(a) /\ BindUnchanged(a)
        /\ IF tool \in WriteTools
           THEN Finish(r, q) /\ UNCHANGED <<tickets, toAgent>>
           ELSE Dispatch(r, q)
  /\ UNCHANGED <<channelVars, serving, ranOn, tombs, offCalls, retired>>

\* The issuer answers that the token is live; or that it is not, or fails.
TokenLive(r) ==
  /\ req[r].st = "checking"
  /\ Dispatch(r, req[r])
  /\ UNCHANGED <<channelVars, serving, ranOn, tombs, offCalls, retired>>

TokenDead(r) ==
  /\ req[r].st = "checking"
  /\ Finish(r, Refused(req[r].client, req[r].tool))
  /\ UNCHANGED <<channelVars, tickets, toAgent, serving, ranOn, tombs, offCalls, retired>>

---------------------------------------------------------------------------
(* The agent serves a frame, and the broker settles the wait *)

\* A frame already written reaches the agent even after the edge destroyed
\* its own end of the socket.
Serve(s, r) ==
  /\ <<s, r>> \in toAgent
  /\ toAgent' = toAgent \ {<<s, r>>}
  /\ serving' = serving \cup {<<s, r>>}
  /\ ranOn' = [ranOn EXCEPT ![r] = @ \cup {sock[s].owner}]
  /\ UNCHANGED <<channelVars, req, tickets, tombs, offCalls, retired>>

SettlesM1(s, r) == req[r].st = "sent"

SettlesM2(s, r) == req[r].agent = sock[s].owner

SettlesM3(s, r) == TRUE

\* settle(frame, {owner}): the request is pending and the sending tunnel is
\* the one it was sent to.
Settles(s, r) == req[r].st = "sent" /\ req[r].agent = sock[s].owner

\* An mcp-response for request r arrives on s: the agent's answer, or one
\* nobody waits for (late, repeated, or from another tenant's tunnel).
McpResponse(s, r, outcome) ==
  /\ Writable(s) /\ sock[s].owner # None
  /\ <<s, r>> \in serving \/ req[r].agent # sock[s].owner
  /\ req' = IF Settles(s, r)
            THEN [req EXCEPT ![r].st = "done", ![r].outcome = outcome] ELSE req
  /\ serving' = serving \ {<<s, r>>}
  /\ UNCHANGED <<channelVars, tickets, toAgent, ranOn, tombs, offCalls, retired>>

\* The wait ends without a response: the tenant may have executed the call.
GiveUp(R) ==
  req' = [r \in Requests |->
            IF r \in R THEN [req[r] EXCEPT !.st = "done", !.outcome = "unknown"]
            ELSE req[r]]

TimeoutM1(r) ==
  /\ req[r].st = "sent"
  /\ \E a \in Connected : sessions[a].sock = req[r].sock
  /\ GiveUp({r})
  /\ UNCHANGED <<channelVars, tickets, toAgent, serving, ranOn, tombs, offCalls, retired>>

TimeoutM2(r) ==
  /\ req[r].st = "sent"
  /\ Finish(r, Refused(req[r].client, req[r].tool))
  /\ UNCHANGED <<channelVars, tickets, toAgent, serving, ranOn, tombs, offCalls, retired>>

Timeout(r) ==
  /\ req[r].st = "sent"
  /\ GiveUp({r})
  /\ UNCHANGED <<channelVars, tickets, toAgent, serving, ranOn, tombs, offCalls, retired>>

PendingOfM1(a) ==
  {r \in Requests : /\ req[r].st = "sent" /\ req[r].agent = a
                    /\ a \in Connected /\ req[r].sock = sessions[a].sock}

\* rejectByOwner: every wait for the tenant, whichever of its sockets carried
\* the frame.
PendingOf(a) == {r \in Requests : req[r].st = "sent" /\ req[r].agent = a}

---------------------------------------------------------------------------
(* The channel's steps that touch requests *)

CredentialEdited(a, rec) ==
  /\ EditCredential(a, rec)
  /\ retired' = IF rec = None THEN retired ELSE retired \ {<<a, rec.token>>}
  /\ UNCHANGED <<req, tickets, toAgent, serving, ranOn, tombs, offCalls>>

\* The agent goes with the frames it had not received.
AgentGone(s) ==
  /\ AgentLost(s)
  /\ toAgent' = {f \in toAgent : f[1] # s}
  /\ UNCHANGED <<req, tickets, serving, ranOn, tombs, offCalls, retired>>

\* rejectByOwner: only when the close ends the session.
ChannelCloses(s) ==
  /\ SocketCloses(s)
  /\ IF EndsSession(s) THEN GiveUp(PendingOf(sock[s].owner)) ELSE UNCHANGED req
  /\ UNCHANGED <<tickets, toAgent, serving, ranOn, tombs, offCalls, retired>>

---------------------------------------------------------------------------
(* offboardTenant *)

\* The tenant an offboarding destroys: the only one the client is granted.
TenantOf(c) == CHOOSE a \in TenantGrants[c] : TRUE

CutSocketsM1(a) == {}

CutSockets(a) == IF a \in Connected THEN {sessions[a].sock} ELSE {}

\* Up to its first await: the credential is destroyed, the waits rejected, the
\* session cut and the approval ledger purged.  (A missing record, an export
\* that fails and an unreadable file end the call earlier, without a trace.)
OffboardDestroys(c) ==
  /\ ByGrant /\ c \notin tombs
  /\ Cardinality(TenantGrants[c]) = 1
  /\ offCalls[c] < MaxOffboards
  /\ readable
  /\ LET a == TenantOf(c) IN
       /\ creds' = [creds EXCEPT ![a] = None]
       /\ retired' = IF creds[a] = None THEN retired
                     ELSE retired \cup {<<a, creds[a].token>>}
       /\ sock' = [s \in Sockets |->
            IF s \in CutSockets(a) THEN [sock[s] EXCEPT !.st = "destroyed"] ELSE sock[s]]
       /\ sessions' = [sessions EXCEPT ![a] = None]
       /\ IF a \in Connected THEN GiveUp(PendingOf(a)) ELSE UNCHANGED req
  /\ tickets' = [t \in Tickets |->
       IF tickets[t] = None THEN None ELSE [tickets[t] EXCEPT !.used = TRUE]]
  /\ offCalls' = [offCalls EXCEPT ![c] = @ + 1]
  /\ UNCHANGED <<readable, edits, enforced, toAgent, serving, ranOn, tombs>>

\* After the evidence rows: the grants go and the tombstone stands; or the
\* notary or the export failed and the call reports export_unavailable.
OffboardEnds(c, exported) ==
  /\ offCalls[c] > 0
  /\ offCalls' = [offCalls EXCEPT ![c] = @ - 1]
  /\ tombs' = IF exported THEN tombs \cup {c} ELSE tombs
  /\ UNCHANGED <<channelVars, req, tickets, toAgent, serving, ranOn, retired>>

---------------------------------------------------------------------------
(* Specification *)

Init ==
  /\ ChannelInit
  /\ req = [r \in Requests |-> Idle]
  /\ tickets = [t \in Tickets |-> None]
  /\ toAgent = {} /\ serving = {}
  /\ ranOn = [r \in Requests |-> {}]
  /\ tombs = {}
  /\ offCalls = [c \in Clients |-> 0]
  /\ retired = {}

\* A northbound request: any client, tool, tenant hint and target.
Northbound(r) ==
  \E c \in Clients, tool \in Tools, hint \in Agents \cup {None},
     target \in Catalog \cup {None} :
    \/ \E quotaOk \in BOOLEAN : Refuse(r, c, tool, hint, target, quotaOk)
    \/ Rebound(r, c, tool, hint, target)
    \/ \E ticket \in Issued \cup {None} : Start(r, c, tool, hint, target, ticket)

Next ==
  \/ ChannelQuiet /\ UNCHANGED requestVars
  \/ \E a \in Agents, rec \in Record \cup {None} : CredentialEdited(a, rec)
  \/ \E s \in Sockets : AgentGone(s) \/ ChannelCloses(s)
  \/ \E r \in Requests : Northbound(r) \/ TokenLive(r) \/ TokenDead(r) \/ Timeout(r)
  \/ \E s \in Sockets, r \in Requests :
       \/ Serve(s, r)
       \/ \E outcome \in {"ok", "failed"} : McpResponse(s, r, outcome)
  \/ \E c \in Clients : OffboardDestroys(c)
  \/ \E c \in Clients, exported \in BOOLEAN : OffboardEnds(c, exported)

Spec == Init /\ [][Next]_vars

\* Timers fire, and the bounded fetch that asks the issuer ends one way or the
\* other.  Nothing is assumed of agents, operators or clients, nor of the close
\* of a socket: the channel has no keepalive and no idle timeout, so the edge
\* may never hear of an agent that was cut off.
Fairness ==
  \A r \in Requests :
    /\ WF_vars(Timeout(r))
    /\ WF_vars(TokenLive(r) \/ TokenDead(r))

FairSpec == Spec /\ Fairness

---------------------------------------------------------------------------
(* Properties *)

\* Every variable of the edge keeps its type.
RelayTypeOK ==
  /\ ChannelTypeOK
  /\ req \in [Requests -> Request]
  /\ tickets \in [Tickets -> Ticket \cup {None}]
  /\ toAgent \subseteq Sockets \X Requests
  /\ serving \subseteq Sockets \X Requests
  /\ ranOn \in [Requests -> SUBSET Agents]
  /\ tombs \subseteq Clients
  /\ offCalls \in [Clients -> 0..MaxOffboards]
  /\ retired \subseteq Agents \X Tokens

\* A call executes at most on the tenant it was routed to, and that tenant is
\* one the client is granted: whatever sessions are replaced, dropped or
\* offboarded between the routing and the frame.
RunsOnGrantedTenant ==
  \A r \in Requests :
    /\ ranOn[r] \subseteq {req[r].agent}
    /\ ByGrant => ranOn[r] \subseteq (IF req[r].client = None THEN {}
                                      ELSE TenantGrants[req[r].client])

\* A refused call leaves no frame and never executes, also when its approval
\* was spent or its channel died under it: only a receipt may say "unknown".
RefusedNeverRuns ==
  \A r \in Requests : req[r].st \in {"idle", "checking", "refused"} =>
    /\ ranOn[r] = {}
    /\ \A s \in Sockets : <<s, r>> \notin toAgent

\* A response settles the wait only if the routed tenant executed the call:
\* another tenant's tunnel cannot complete it, nor a request it never got.
AnsweredByOwner ==
  \A r \in Requests : req[r].outcome \in {"ok", "failed"} => ranOn[r] = {req[r].agent}

\* A gated call that crossed spent a ticket issued to its own client for this
\* tenant and tool, and no two calls crossed on the same ticket, also when
\* both were suspended with it in the live token check.
OneCallPerTicket ==
  LET crossed == {r \in Requests : req[r].st \in {"sent", "done"}
                                     /\ req[r].tool \in GatedTools} IN
  /\ \A r \in crossed :
       /\ req[r].ticket \in Issued
       /\ tickets[req[r].ticket] = [Bound(req[r]) EXCEPT !.used = TRUE]
  /\ \A r1, r2 \in crossed : r1 # r2 => req[r1].ticket # req[r2].ticket

\* A governed call crosses only on a channel whose agent activated the policy
\* its client is bound to, also when it was suspended while the agent
\* reconnected: an attestation is never carried to another connection.
GovernedCallsAttested ==
  \A r \in Requests :
    Digests # {} /\ req[r].st \in {"sent", "done"} /\ req[r].tool \in GovernedTools
      => PolicyOf[req[r].client] \in enforced[req[r].sock]

\* Once an offboarding destroyed a tenant's credential, no tunnel the tenant
\* opened with it can carry a frame, also for a call suspended before the
\* offboarding, until an operator issues that credential to it again.
RetiredTokenIsCut ==
  \A s \in Sockets : <<sock[s].owner, sock[s].token>> \in retired => ~Writable(s)

\* A call waits only for a tenant that is connected: when its session ends, by
\* the close of its socket or by an offboarding, every wait for it ends in the
\* same step, also that of a call sent over a socket the tenant has since
\* replaced, whose own close ends nothing.  The one way to wait for a tenant
\* that has gone is the hello whose bundles cannot be written: it takes the
\* session of its tenant out of the table and rejects nothing.
WaitsHaveASession ==
  \A r \in Requests : req[r].st = "sent" =>
    \/ req[r].agent \in Connected
    \/ /\ Digests # {}
       /\ \E s \in Sockets : sock[s].greeted /\ sock[s].owner = None

\* Every request that is being handled is answered, also when the agent is lost
\* without a close, its session is replaced, ended by a hello that fails, or
\* offboarded: what no handler rejects ends with the fan-down timeout.
EveryCallAnswered ==
  \A r \in Requests :
    req[r].st \in {"checking", "sent"} ~> req[r].st \in {"refused", "done"}

\* A request drops a tunnel only because the site bind of its credential was
\* edited after the hello: a bind that an unedited record states is kept.
OnlyAnEditDropsTheTunnel ==
  [][\A r \in Requests, a \in Connected :
       req'[r].st = "refused" /\ req[r].st = "idle"
       /\ sock[sessions[a].sock].st = "open" /\ sock'[sessions[a].sock].st = "destroyed"
         => edits > 0]_vars

---------------------------------------------------------------------------
(* The contract the edge implements *)

\* Where the contract sees a request: a suspended call is still "received".
PhaseOf(q) ==
  CASE q.st \in {"idle", "checking"} -> "received"
    [] q.st = "done" -> IF q.outcome = "unknown" THEN "unknown" ELSE "answered"
    [] OTHER -> q.st

TenantSeen(q) == IF q.st \in {"sent", "done"} THEN q.agent ELSE None

Contract == INSTANCE RelayContract WITH
  phase <- [r \in Requests |-> PhaseOf(req[r])],
  tenant <- [r \in Requests |-> TenantSeen(req[r])],
  ran <- [r \in Requests |-> ranOn[r] # {}]

\* Whatever the channels, credentials, approvals and offboardings do, each
\* request goes through the phases of RelayContract and no others.
ContractSpec == Contract!ContractSpec

============================================================================
