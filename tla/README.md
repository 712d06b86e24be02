# A TLA+ model of drupal-mcp-connector

The connector is a Node.js MCP server for Drupal: it serves MCP clients over
stdio or HTTPS, talks to Drupal sites over JSON:API or GraphQL, and can run
behind a relay in which tenant agents dial out to an edge that fans requests
down to them. It runs on one event loop, so a handler is atomic up to its next
`await`. What is hard in it is what happens between a handler's awaits, between
the close of a socket and the event that reports it, and between two answers of
the same remote party.

This directory holds TLA+ modules for the parts where that matters, TLC
configurations that check them on small instances, and proofs, checked with
TLAPS, for instances of any size. Paths below are relative to the repository.

## The system

| Part | Code | State | What makes it correct | Module |
| --- | --- | --- | --- | --- |
| Process | `src/index.js`, `https-startup.js`, `ops-*.js`, `http-audit.js` | listeners, readiness cache, audit row of an exchange | it serves only whom its launch checks allow; operators read what happened | `ConnectorProcess` |
| HTTPS front | `http-handler.js`, `http-auth.js`, `principal.js` | identity and hold of a request | every check, in the code's order, before any session or tool | `Admission` |
| Rate limiter | `rate-limit.js`, `http-handler.js` | buckets, overflow bucket, holds | charges and holds stay within the limit, the map within its cap | `RateLimiter` |
| Legacy sessions | `http-handler.js` `createLegacySessionHandler` | session map | no request reaches a closing session; the cap | `LegacySessions` |
| Dispatch | `dispatch.js`, `in-flight.js`, `write-introspect.js`, `data-flow.js` | calls in flight, windows | a killed token stops writing; caps | `ToolCalls` |
| Security policy | `security.js`, `principal.js` | none | a write goes where the policy allows it | `CallPolicy` |
| Governance cache | `governance.js`, `dispatch.js` | verdict, probe in flight | a verdict is used only while it is fresh | `SourceGovernance` |
| Drupal client | `oauth.js`, `drupal-fetch.js` | token or promise per site | no dead promise; a rejected token stays out | `OAuthTokens` |
| Governed writes | `nested-draft.js`, `canonical-draft.js`, `component-draft.js`, `sentinel-draft.js`, `patch-preflight.js`, `tools/nodes.js`, `tools/bulk.js` | what a call has written so far | no lost draft, no accidental publication, a truthful result | `NestedDraft`, `GuardedPatch`, `CanonicalDraft`, `Drafts` |
| Reports | `tools/reports*.js`, `tools/audit-composite.js`, `backends/jsonapi.js` | none | a defect listed is one; incompleteness is admitted | `Reports` |
| Server tools, catalog | `server-tools.js`, `site-catalog.js`, `catalog-notify.js` | sessions, handshakes, snapshots, walks, waiters | one expiry fails no call; every change is announced | `SourceSessions`, `SiteCatalog` |
| Operator tools | `verify.js`, `doctor.js`, `scripts/hosted-acceptance.js` | the steps taken | green means proven | `LiveVerification`, `Doctor`, `HostedAcceptance`, `OperatorChecks` |
| Agent channel | `relay/edge.js`, `frames.js`, `agent.js` | credential file, sockets, session table, attested documents | a site has one tenant; attestations end with their connection | `AgentChannel` |
| Fan-down, approvals | `edge.js` `fanDown`, `frames.js` broker, `contracts/approval.js` | requests in flight, tickets | a refused call never executes, an answered one did, on its tenant; a ticket serves one call | `RelayEdge`, `RelayContract` |
| Quota gate, usage ledger | `usage.js` | windows, denial table, rows | locks are earned and kept; a truncated ledger never looks clean | `QuotaGate`, `UsageLedger`, `EdgeAccounting` |
| Evidence, offboarding | `evidence.js`, `anchor.js`, `edge.js` | rows, inclusions, tombstones | a citation rests on its own row's inclusion | `Evidence`, `EdgeAccounting` |

They interact by calls on one event loop (front, dispatch, tools, backend,
`drupalFetch`, token cache), by shared maps (caches, sessions, buckets), by
frames over sockets (edge and agent) and by HTTP with the token issuer, the
notary and Drupal. `PROJECT.json` lists every part with its status, and under
`hazards` the places where an order nobody tested would bite.

## The modules

One action is one stretch of code between two awaits, named for what it does.
Operators named `...M1`, `...M2` are faulty variants of the operator that
follows them, one or more for each property: the property fails when the
variant takes its place.

### The relay

* `AgentChannel`: `Dial`, `HelloAccepted`, `HelloDenied`, `HelloOfferFails`,
  `BundleAck`, `SocketCloses`; with the agent's `Activate`, the operator's
  `EditCredential` and `FileFlips`, and the environment's `AgentLost` and
  `ProtocolViolation`. `sessions` is the `sessions` map, `sock[s].owner` the
  `agentId` of the handler's closure, `creds` and `readable` the file behind
  `createChannelCredentialStore`. A socket that was destroyed emits its close
  later (`destroyed`, then `closed`); one whose agent is gone still accepts
  writes (`lost`).
* `RelayEdge` extends it with the requests. `Start`, `Refuse` and `Rebound` are
  `fanDown` up to its first suspension; `TokenLive` and `TokenDead` follow the
  live token check of a write; `Dispatch` is approval, `broker.track` and
  `writeFrame`. `Serve` is the agent executing a frame, `McpResponse` any
  response frame, also one nobody waits for or from another tenant, `Timeout`
  the broker's timer, `ChannelCloses` the close with `rejectByOwner`.
  `OffboardDestroys` is `offboardTenant` up to its first await, `OffboardEnds`
  the rest. `ranOn` and `retired` are history variables; `retired` holds the
  token an offboarding destroyed with the agent whose record had it.
* `RelayContract` is the promise of the edge about one call: refused and never
  executed, or sent to one tenant, executed at most once and answered once.
  `RelayEdge` has the refinement mapping (`PhaseOf`, `TenantSeen`).
* `QuotaGate` has `check`, `noteDenial` and the bounded table of denials,
  `UsageLedger` the rows and `reconcileUsage`, `Evidence` the ledger with its
  notary and `exportAssessor`. They are synchronous in the code, so their
  operations are operators.
* `EdgeAccounting` composes the three under the calls of the edge: `Arrive`,
  `Checked`, `Response`, `Timeout` and `Settle` are `fanDown` as the ledgers see
  it; `NotaryAnswers` is an anchor that comes late, wrong or not at all;
  `OffboardRefused`, `OffboardDestroys`, `OffboardGoesOn` and `OffboardEnds` are
  `offboardTenant` at each of its awaits; `CloseEdge` is the shutdown. Here
  routing, bindings and attestations are only what a call asks for; `RelayEdge`
  has them in detail. `book` and `signals` are the unbounded table of denials
  and the history it is compared with.

### The HTTPS side

* `Admission` and `CallPolicy` are decisions, one operator per check: the
  startup mode, host and origin, the bearer with its shape, issuer, claims and
  introspection, asked afresh; the scope table, the grants, the site's preset
  and the rules an operator adds to it by type (operations, denied and allowed
  bundles); and the checks for writes, deletes, publication and GraphQL. The
  code keeps no positive introspection cache (`http-auth.js:9`), and neither
  does the model.
* `RequestHost` declares what the requests share (`sessions`, `transport`,
  `flights`, `gov`, `spent`) and the environment: kills of tokens, issuer and
  source going down, idleness, the clock, the shutdown.
* `LegacySessions` is `createLegacySessionHandler`. `Route` finds a session or
  refuses; `StartEviction`, `Closed` and `EvictNext` are the eviction around the
  close it awaits; `StartBuild` and `Initialized` are the two halves of an
  initialize.
* `SourceGovernance` is the verdict with its two lifetimes and the one probe that
  all who need a verdict join. `ToolCalls` is a call: `BeginCall`, `Govern`,
  `Admit`, `LiveCheck`, `Handle`, `Send`, `Answered`, with `DenyAndCancel` for
  the kill that one denied write sends to its fellows. `Report` is
  `drupal_governance_status`, which the governance gate never holds up
  (`Diagnostic`) and which joins the probe itself.
* `HttpRequests` composes them, from `Arrive` to the last write.
* `ConnectorProcess` is the process around them: `Launch`, `Discover`, `Bound`
  and `OpsBound` start it, `Signal`, `CloseOps`, `CloseTransports`, `ClosePublic`
  and `ExitClean` end it. `BeginExchange` to `Closes` are one exchange in the
  events of its response, with the row (`attachHttpAudit`, on
  the events `finish` and `close`) and the count of the metrics; `AskReady`, `IssuerSays` and
  `ReadyProbeEnds` are `/ready`. `life`, `exch` and `ready` do not touch the
  state of `HttpRequests`: which answer an exchange gets is an input.
* `RateLimiter`: a bucket holds the time left in place of `resetAt`; every
  operation is one action, with the hold of a bearer request open over any
  number of others.

### Towards Drupal

* `OAuthTokens`: the cache of one site under concurrent `drupalFetch` calls.
  `Begin` reads the cache, `Resume` is the code after
  `await Promise.resolve(cached)`, `Granted` and `AcquireFails` settle a request
  and everybody who joined it, `FetchRejected` is the 401 with `clearToken` and
  the replay.
* `DraftHost` is one moderated host in Drupal, with its revisions `revs`, and one
  request in flight per call in `wire`: `Handle` is Drupal getting to it, `Lose`
  the client giving up, before or after. `Environment` is the editor.
* `NestedDraft`, `CanonicalDraft` and `GuardedPatch` are the write tools at each
  of their requests: the inventory, the creation of paragraphs, the preflight,
  the one save, and the confirmation reads. A nested draft pins its paragraph in
  the revision it was prepared in (`rev`), also when it confirms. `Drafts` composes them.
* `SourceSessions` is `server-tools.js`: `Issue`, `Establish`, `ShakeFails`,
  `Serve`, `Refresh` (the replay on 401), `Reinit` (the replay on an expired
  session). `SiteCatalog` adds the walk (`Load`, `Governed`, `Send`, `ToolsIn`,
  `PromptsIn`, `WalkFails`), the listings (`List`, `GiveUp`, `Prefetch`), the
  invalidation by an invocation (`Invoke`, `Expire`) and `Flush`, which sends
  `list_changed`.
* `Reports` has one record for each reporting tool, of the choices its function
  makes (what it pages, how it checks a row, what it says at a cap), and the
  actions all of them share: `ReadPage`, `CheckRow`, `CheckAll`, `Finish`, with
  `Edit` for editors and `PageFails` for Drupal. `NextSection` is the composite.

### The operator's checks

* `LiveVerification`, `Doctor` and `HostedAcceptance` are three plans of probes
  with what each answer is scored (two static findings of `verify`, about the
  default site's name and the process's own inbound authentication, are left
  out: each could only turn a 0 into a 1); `OperatorChecks` runs one of them against an
  installation (`SiteCatalog` is its catalog) of which one thing is wrong.

### Model checking

* `MC...` give the constants their values. `MCRequests` and `MCCatalog` host more
  than one subject: an initial state is a scene of one of them, and the variables
  of the others stand still. `Catalog` runs `MCSpec`, the `Spec` of
  `OperatorChecks` with its scenes for initial states.
* `RelayEdgeProofs` (the agent channel's and the edge's), `RateLimiterProofs`,
  `OAuthTokensProofs`, `DraftsProofs`, `ConnectorProcessProofs`,
  `HttpRequestsProofs`, `CatalogProofs` and `EdgeAccountingProofs` hold the
  theorems.

## The runs

| Run | Instance | Properties |
| --- | --- | --- |
| `AgentChannel` | 2 agents, 3 connections, 2 edits, binds to one site, both, none or an unknown one | `ChannelTypeOK`, `SitesPartitioned`, `OwnerIsCurrent`, `AttestedOnThisChannel`, `SessionEndsWithItsSocket` |
| `RelayChannels` | 2 clients, 2 write calls, 2 connections, 1 edit, offboarding, routing by grant | `RunsOnGrantedTenant`, `AnsweredByOwner`, `RetiredTokenIsCut`, `ContractSpec` (the refinement) |
| `RelayApprovals` | 3 gated calls, 1 ticket, 1 policy document, routing by site | `OneCallPerTicket`, `GovernedCallsAttested` |
| `RelayLive` | 2 calls, a write and a read tool, routing by grant, 1 policy document, offboarding, fairness | `WaitsHaveASession`, `EveryCallAnswered` |
| `RelayRebind` | a record that names an unknown site | violation: `OnlyAnEditDropsTheTunnel` |
| `Accounting` | 2 tenants, 4 clients of 3 principals, 5 calls, 2 offboardings | `LocksAreEarnedAndKept`, `ReconciliationIsTrue`, `ExportIsTrue` |
| `RateLimiter` | 4 addresses, map of 2, limit 2, window 2, 3 holds | `TypeOK`, `WithinLimit`, `BoundedState`, `OnlyChargedKeysAreKept`, `DeniedUntilReset` |
| `OAuthTokens` | 3 calls, 3 tokens, 2 revoked, fairness | `NoSettledPromise`, `ClearedTokenStaysOut`, `EveryCallEnds` |
| `OAuthBurst` | 3 calls, tokens that expire | violation: `OneTokenRequest` |
| `Requests` | 3 requests on 3 sites; or a report over 3 rows; or one exchange of a process | `NeverHandedToClosing`, `SessionsBounded`, `KillStopsWrites`, `EvidenceIsFresh`, `WrittenSiteAllowsIt`; `ReportIsTrue`; `ServesOnlyAsAllowed`, `OperatorsAreToldTheTruth` |
| `Drafts` | 2 calls and an editor on a host with 2 components | `AgentNeverPublishes`, `NoLostDraft`, `FinishedMeansLanded`, `EveryPreparedReported`, `RefusedWroteNothing` |
| `Catalog` | 2 clients, 3 calls of their own, 2 walks, 2 drops, 1 session kept; or one operator check | `ListedOrTold`, `OneExpiryIsSurvived`; `GreenIsProven` |

What they show beyond the names:

* `WaitsHaveASession`: the end of a session, by a close or an offboarding, ends
  every wait for its tenant in the same step, also one for a frame that went over
  a socket the tenant has since replaced. The one exception is the hello whose
  bundles cannot be written (`edge.js:993`): it takes away a session and rejects
  nothing. `EveryCallAnswered`: so no order of cuts, reconnects, failed hellos and
  offboardings leaves a call that nothing ends, and its timer ends the rest.
* `LocksAreEarnedAndKept`: the bounded denial table locks whom an unbounded one
  would, for as long, unless so many other principals were denied since that a
  key was crowded out. `ReconciliationIsTrue`: a reader is told of each call to
  the tenant, and of each frame id that agents answered under, what became of it
  in that tenant, however late or often agents answer, for calls of their own, of
  others or of nobody. `ExportIsTrue`: an assessor's pack cites as anchored only rows
  whose own digest was signed, and an onboarding or an offboarding only where it
  happened.
* `NeverHandedToClosing`, `SessionsBounded`: the eviction awaits, and meanwhile
  others use, close and create sessions; the map may exceed its cap by the
  initializes that passed the eviction together, less one, and no more.
  `KillStopsWrites`: a killed token writes at most once more in each call.
  `EvidenceIsFresh`: no call passes on a verdict older than its lifetime, also
  when it joined an older probe. `WrittenSiteAllowsIt`: whatever the gates let
  through satisfies the written site's policy, stated apart from the gates.
* `ReportIsTrue`: what a report lists as a defect is one, and a report that does
  not admit to be incomplete lists every defect there was to see.
* `ServesOnlyAsAllowed`: who can reach the process is whom its launch allows.
  `OperatorsAreToldTheTruth`: the row of an exchange tells the status the client
  was sent, or that it left, and who it was; the metrics count the same; "ready"
  is never older than the cache and one probe, and the issuer is not asked more
  often than the cache allows.
* `NoLostDraft`: a save keeps every component of the working copy it lands on,
  also when it lands after its call gave up. `AgentNeverPublishes`,
  `FinishedMeansLanded`, `EveryPreparedReported` and `RefusedWroteNothing`: what
  a call reports, and what it did, agree.
* `ListedOrTold`: once nothing is under way, a client was last answered what the
  catalog now advertises, or was told of a change since, also when the catalog was
  invalidated under the walk it waited for. `OneExpiryIsSurvived`:
  one drop of the source's sessions fails no call that may be replayed, unless
  the cap pushed out a session of its key.
  `GreenIsProven`: a check that exits 0 asked everything it vouches for.

### Bounds

* `AgentChannel`: three connections let an agent be replaced while another
  tenant is connected and the replaced socket's close is still to come; two
  edits take a bind from one record and give it to another. Two connections
  suffice for the calls of `RelayEdge`, whose hazards need one reconnect. Three
  calls on a ticket are one that spends it and two suspended with it.
* `Accounting`: `KeyBound = 2` under three principals crowds the denial table;
  `MaxRows = 4` and `MaxEvidence = 3` drop rows of five calls; `MaxStrays = 2`
  lets an answer be late and repeated, and one agent name a frame id of another's
  twice, or none; `MaxHellos = 2` lets a tenant be enrolled
  again after an offboarding; `MaxTime = 4` ends a window and a lock.
* `RateLimiter`: more keys than places, so the overflow bucket fills, rolls and
  frees; three holds exceed the limit of two.
* `OAuthTokens`: three tokens let a request be granted, expire or be revoked,
  and be replaced twice.
* `Requests`: `MaxSessions = 1` makes each initialize evict; `MaxFlights = 3` and
  `MaxPerPrincipal = 2` are reached by three requests; `MaxChained = 2` in
  `ChainWindow = 3` is exhausted; `OkTtl = 2`, `ProbeTime = 2` and `MaxTime = 5`
  let a verdict age past its life while a probe runs; `MaxTurns = 2` lets the
  source go and come back. The sites are one governed and edited, one read-only
  and one wide open, with bundles denied on one and allowed on another by rule;
  the tokens are five good ones and one of each bad kind. The
  scenes are sessions, kills, governance, every call alone and every refusal. A
  report has `PageSize = 1`, `SampleSize = 2`, `MaxLinks = 1` over three rows, so
  that it pages, samples and caps, with one edit and two faults (the composite
  with one fault and no edits). A process varies every setting; `CacheTime = 3`,
  `ProbeTimeout = 2` and `EndTime = 8` hold two caches; exchanges do not touch
  each other, so one is enough.
* `Drafts`: two calls of nine pairs of tools, on one component or two,
  `MaxEdits = 1` and `MaxRevs = 4`: a call can lose a race to a call and to the
  editor, and each can save.
* `Catalog`: one site, a network principal and the stdio operator, whose budget
  key is not its catalog key; `MaxWalks = 2`, `MaxDrops = 2`, `MaxTokens = 2`,
  `SessionCap = 1`, so that every session of one principal pushes out the other's:
  in one scene (`Crowd`) while two calls still use it and the source drops it. An
  operator check meets one wrong thing in its configuration, target or catalog
  and `MaxFaults = 1` on the way.

`CHECK_DEADLOCK` is off wherever the bounds on sockets, edits, calls or time end
a behaviour; the rate limiter never stops.

### Fairness

`RelayLive`: `Timeout`, because Node fires a timer that is due; `TokenLive` or
`TokenDead`, one of the two, because the live check has an abort timeout. The
close of a channel's socket is *not* assumed: the edge sets no keepalive and no
idle timeout (`edge.js:951-1048`), so it may never hear of an agent that was cut
off. `OAuthTokens`: `Resume`, the resumption of a settled
promise; `RefreshFails`, `AcquireFails`, `FetchEnds` and `FetchRejected`,
because each of these fetches has an abort timeout. Nothing is assumed of
clients, agents, operators, nor that a fetch succeeds. The other runs check
safety and assume none; where such a property speaks of the end (`Quiet`,
`Done`) it is about the states in which nothing is under way.

### Two violated properties

* `OnlyAnEditDropsTheTunnel`. At hello the edge keeps the sites of the record
  that its catalog has (`edge.js:226-229`); at each request it compares that
  list with the unfiltered one of the record (`edge.js:1216`). A record that
  names one more site connects and then loses its tunnel on every request,
  although `CHANGELOG.md` speaks of a reload that changes the bind.
* `OneTokenRequest`. `oauth.js` says that concurrent callers share a token
  request. Callers that find an expired entry each await it
  (`oauth.js:160`) and then each start a request. The tokens are all good; the
  cost is a burst at the issuer.

## What the models leave out

Abstractions that hold in every module: bodies, headers and texts; hashes,
signatures and random tokens are ideal, so two are never equal by chance; a timer
may fire at any moment while it is armed, except where a module has a clock.

* Relay: an agent is `agent.js`, which says hello once per connection and
  acknowledges a bundle only after its enforcement point activated it. The
  credential file is read afresh on every lookup; the code rereads it when its
  mtime changes. `edge.close()` waits for connections that never said hello
  (`edge.js:1815`); a model of it would only restate the code. A frame id is a
  random UUID, so no agent names a call before the call's own frame was written.
* HTTPS: the redaction of fields, `core.extension` and the protected modules, and
  the row, byte and request budgets of `data-flow.js`. One governed site. Kills
  are checked at writes: a killed token's call in flight reads on.
* Process: validation of `config.json`, the lifetime of a stdio process, the
  sanitising of rows, labels and the text of the metrics.
* Drafts: dry runs, deletions, and unmoderated canonical entities; the tools that
  set a moderation state, revert a revision or schedule a publication
  (`moderation.js`, `revisions.js`, `scheduler.js`) are single requests.
* Reports: chains and loops of redirects, relations between entities, the cache
  of probed links, URL safety, severities, the data normalisers. JSON:API leaves
  no row out by itself.
* Not modelled at all: the wizard and the entry points (dialogues with one
  operator), the GraphQL backend and the translation of entities, prompts and
  the validation of arguments (one check per call), the laboratory harness and
  the service files.

### What the properties except

Each exception is written in the property or in an operator it names, and is
what the code does.

* `AgentNeverPublishes`: a call whose own first read did not show a published
  host updates in place, because `moderation-default.js` fails open on a host it
  cannot read.
* `EveryPreparedReported`: a site that loses its draft route between the
  inventory and the save gets an error without the prepared paragraphs
  (`nested-draft.js:266`), although `docs/tools-reference.md:873` says that a
  failed host write names them.
* `FinishedMeansLanded`: a canonical update names the draft it finds afterwards,
  which after a discard may be another call's. A path-less update of a node pins
  the alias it read earlier (`nodes.js:538`).
* A save whose answer is lost is reported as partial though it may land later;
  an atomic edit over an existing draft ends uncertain, because its
  confirmation compares the other components with the published ones.
* `KillStopsWrites`: on loopback without authentication the local operator's
  config writes over the bridge skip the live check, although the comment at
  `write-introspect.js:148` says that a network local operator's writes never
  do; writes over ssh do not see the abort.
* A session whose agent was cut off without a close keeps its sites until the
  agent dials again, its bind changes or it is offboarded. No property says that
  it ends by itself.
* `LocksAreEarnedAndKept`: a crowded table ends a lock early (`Crowded`).
* `ExportIsTrue`: a denial that proves a control may be any refusal, also one for
  a missing agent; a pack does not say that evidence rows were dropped; an
  offboarding whose notary failed ends "ok".
* `OperatorsAreToldTheTruth`: the metrics count 200 for a client that left before
  an answer, and for a handler that threw outside its `try` (`late`). Exchanges
  the shutdown cuts may leave no row. A response destroyed after its head has the
  row of its head.
* `ListedOrTold`: a listing that gave up on a walk over an existing entry is not
  told (`excused`), although `docs/module-tools.md:161` promises the rest. A
  catalog that has its tools, and whose hops for the prompts failed, has no
  prompts to tell of (`Satisfies`): a client that listed prompts before an
  invalidation learns of them again with the next walk that is complete. The
  expiry of a stdio session never invalidates the catalog, because
  `data-flow.js:96` and `site-catalog.js:229` name that principal differently.
* `OneExpiryIsSurvived`: a replay may join a handshake answered before a second
  drop, and then fails. The same after one drop, when the cap (128 sessions,
  `server-tools.js:431`) pushed out a session that calls still used (`evicted`):
  the next call of its key starts a handshake beside them, which the source may
  answer before the drop and a replay may join after it.
* `GreenIsProven` (`Misread`, `Overlooked`, `Mistaken`): `verify` takes a
  collection that merely has few items, a 429, a 401 of its own dead token, or a
  404 for its anonymous request for a refusal; `doctor` scores a 5xx as an accepted credential; the acceptance
  probe counts one observed gate of two.
* `ReportIsTrue` (`Excused`): reports that page by offset miss rows when earlier
  ones go; `contentByAuthor`, `taxonomyUsage`, `revisionHotspots`,
  `userActivity` and the 404 log end at their limit without a word; `seoAudit`
  and `accessibilityAudit` call a capped result exact; `recentlyPublished` slices
  silently; `userActivity` and `moduleAudit` take a failed list for an empty one;
  `contentSummary` counts types the policy denies. The site health grade may be
  an A when every section failed (`audit-composite.js:73`).

Hazards without a property, with the reason, are in `PROJECT.json`: agents cut
off without a close, two edits of
the credential file in one mtime tick, connections without a hello at the close,
and counters of rows and bytes that belong to a context.

## The theorems

They hold for every value of the constants that satisfies the assumption of the
module: `ChannelAssumption`, `RelayAssumption`, `LimiterAssumption`,
`TokenAssumption`, `HostAssumption`, `ScenarioAssumption`, `ProcessAssumption`,
`PolicyAssumption`, `RequestAssumption`, `WritesAssumption`, `SessionAssumption`,
`CatalogAssumption`, `OperatorAssumption`, `EvidenceAssumption`,
`LedgerAssumption`, `AccountingAssumption` and `ReportAssumption` (a row is of
one content type). Most say what kind of thing a
constant is (a bound is a number, a launch has the settings the checks read, the
sites are finitely many, the terms of a lock are the whole numbers that
`positiveInt` lets through, `usage.js:48`). Two say something of the code. `RequestAssumption`
takes a probe to end within the time a passing verdict is kept: the fetch times
out after 30 s, the verdict lives for 60 (`governance.js:29`,
`governance.js:32`). `WritesAssumption` is about the tools, which `HttpRequests`
takes from its scenarios: only a write-like call writes, and one over the bridge
or drush writes once. TLC evaluates each of them in a run.

* `RelayEdgeProofs`, of the channel: `ChannelTypeCorrect`, `SitesStayPartitioned`,
  `OwnersStayCurrent`, `AttestationsAreFresh`, `SessionsEndWithTheirSocket`.
  The invariant is `ChannelInv`. Partitioned sites alone are not inductive: the
  hello compares its bind with the sessions on *other sockets*
  (`edge.js:963`), which are all the other tenants' sessions only if no
  session sits on a socket whose hello is still pending. That is
  `OwnerIsCurrent` with `OwnersGreeted` (an owner is set by a hello).
  An acknowledgement lands on the session of the *agent*; that it belongs to
  this connection is `OwnerIsCurrent` again, and so `AttestedOnThisChannel`
  needs it too. `HelloAcceptedStep` carries the weight; the steps that neither
  add nor change a session go through `NoNewSession` and `SocketStep`.
* `RateLimiterProofs`: `LimiterTypeCorrect`, `HoldsStayWithinLimit`,
  `LimiterStateStaysBounded`, `VerifiedKeysLeaveNoTrace`, `DeniedKeysStayDenied`.
  `LimiterInv` adds `HeldIsCounted` (the in-flight counter of a target is the
  number of holds on it) and `HoldsOnOwnKey` (a hold is on its own key or on
  the overflow bucket), which make a settle find its bucket and its count. The
  proof splits the invariant into what it says of buckets (`BucketsFit`) and of
  holds (`HoldsFit`), with one lemma for each way an operation changes the map.
* `RelayEdgeProofs`, of the edge: `RunsWhereGranted`, `RefusedCallsNeverRun`,
  `AnswersAreTheOwners`, `TicketsAreSpentOnce`, `GovernedCallsStayAttested`,
  `RetiredTokensAreCut`, `WaitsAreServed`, and `EdgeImplementsContract`, the refinement of
  `RelayContract`. `EdgeKeepsChannel` lifts `ChannelInv` from the channel to the
  whole edge: every step of the edge is a step of the channel, leaves its
  variables alone, or is one of `Rebound` and `OffboardDestroys`, which end
  sessions. `fanDown` keeps the session it selected across the live token check,
  while hellos, closes, edits and offboardings replace that session. What
  survives is that a socket never changes its owner and its agent never forgets
  a document it activated on it (`ChannelGrows`). So what was checked of the
  socket when the request was routed (`Routed`) still holds when its frame is
  written, and a frame, wherever it is, is its own request's only one
  (`FramesInOrder`). The refinement is proved step by step: each action of the
  edge is an action of the contract for its call, or stutters.
* `OAuthTokensProofs`: `PromisesAreRunning`, `ClearedTokensStayOut`. Each handler
  that ends a request settles the calls that joined it and overwrites the cache,
  so `NoSettledPromise` needs only that entries have their shape (`EntryShape`,
  `ReadShape`). A cleared token stays out because a grant stores a token that is
  new, and the cleared ones were granted before (`TokensGranted`).
* `DraftsProofs`: `AgentsNeverPublish`, `DraftsAreKept`, `RefusalsAreClean`,
  `PreparedIsReported`, `FinishedWorkIsThere`. `DraftsInv` rests on three facts:
  a revision never changes and revisions are only added; what a request carries
  is fixed when it is sent; a call sends one save, under the `If-Match` of the
  working copy its pins were read from. So a save that succeeds lands on the
  revision its call saw. What a call reports follows from where it is in its
  tool (`ReplyIsTrue`, `Bookkept`, `Landed`), with lemmas for the stages of each
  tool.
* `ConnectorProcessProofs`: `ServesWhomItMay`, `OperatorsLearnTheTruth`.
  `ProcessInv` has three parts. The stage of the process tells what was checked
  (`LifeInv`), so an open listener means that no check refused. A row is
  written once, when the end of its response or connection is noticed, and until
  then the outcome is the worst of the tool calls (`ExchangeInv`). The probes
  are a cache time apart: while one runs, it started after as many cache times
  as were sent before it; while none runs, the cache ends after as many as were
  sent (`ProbesApart`).
* `ConnectorProcessProofs`, of the reports: `ReportInvariant`, `ReportsAreTrue`.
  A report is judged at its end, by a site that editors changed while it read.
  `ReportInv` says what it may rely on until then. A row it holds that nobody
  touched is the site's, in the bundle it was read from (`RowsRead`). A row that
  was asked about is found out, has nothing wrong, or is admitted (`RowsAsked`).
  And nothing was missed, or the report will admit it, or it is a known exception
  (`NothingMissed`): of a bundle that was read to its end every row is known, and
  of the one that is being read those before the offset (`Covered`). An edit moves
  rows under the offset; those that slip past it unread are exactly what
  `shifted` records. That a page which is the last one with more to come is told
  needs the arithmetic of limits and ends (`PageFacts`). Which report makes which
  choices matters in few places, and what the 36 of them have in common is one
  lemma (`ReportsAreSound`): a report that guesses reads one bundle, so if it is
  blind it knows; one that asks about rows takes only the answer that a target
  does not exist, or is bad, for a defect.
* `HttpRequestsProofs`: `HandedToOpenSessions`, `SessionsStayBounded`,
  `KilledTokensStopWriting`, `EvidenceStaysFresh`, `WritesGoWhereAllowed`.
  `RequestsInv` has three parts. `SessionsInv`: the map holds each session once,
  its transport is open, and none belongs to a request that is still on its way;
  so an initialize adds a new id, and a removal removes one. The initializes past
  the eviction are counted by `crowd`, which gives the bound. `CallsInv` follows a
  call: what it has left and what it has sent add up to its writes, before it
  first sends it is `Allowed`, and a running call with a key is in the in-flight
  registry or has been aborted. So what a denial stops is aborted: the tenant of
  the call that was denied is known, since an unknown one fails closed (`Frozen`),
  and the calls it covers are in the registry, since callers with a key and the
  local operator never share a process (`OneMode`). `GovInv` bounds ages: a
  verdict that passes is kept from the time its probe began, and the source was
  ready since.
* `CatalogProofs`: `SourceInvariant`, `OneDropIsSurvived`, for the sessions under
  any catalog walks, calls and operator checks. That a replay works is about the
  handshake it may join, so `DropInv` says when one can be older than the drop. A
  key has a session in the table or a handshake, never both (`Keyed`). Before the
  first drop the table has the session of each call that uses one, so no
  handshake of its key is under way (`CallHolds`); every handshake the call can
  meet after the drop was therefore answered after it (`ShakesAlive`), and so is
  the session it is replayed in (`Replayed`). A session pushed out by the cap
  breaks the second step, and the property excepts its key.
* `CatalogProofs`, of the listings: `ListingInvariant`, `ChangesAreAnnounced`. A
  walk runs for long, and under it its entry expires, is invalidated, or is
  stored in part; clients are answered from each of these. `ListingInv` measures
  them all by one thing, what `Stands` for the principal: the entry, or while a
  walk runs, what that walk will compare its result with (`prev` until the tools
  are in; then the entry it stored, or `prev` again if that was invalidated).
  What stands moves only with a notification of that kind (`Follows`), or to
  nothing; and from nothing whatever is enabled comes back as a change, since no
  source answers with nothing (`HopHolds`). A client is asking, was or will be
  told, or was last answered what stands (`Knows`). That a waiting listing waits
  for the walk that runs, and only while the entry does not serve it (`Waits`),
  makes the answer of a listing that gives up the right one.
* `CatalogProofs`, of the operator's checks: `OperatorInvariant`,
  `GreenChecksAreProven`. A verdict is read at the end, from answers given one by
  one while the token died and requests failed. `OpInv` says of each answer,
  since it was noted, what it proves: an answer that only a target gives which
  does as it should was given by such a target (`AnswerHolds`), and so a failed
  request or one throttled to the end proves nothing. The config write is a call
  of the bridge, with sessions, replays and drops under it; `BridgeHolds` says
  that it runs only in a verification, only once the catalog told its name, and
  that it comes back with what the source makes of it. Whatever else the process
  does leaves such a call as it was (`NextQuiet`). At the end every step of the
  plan was asked that had to be (`AllAsked`), the exit code has looked at each,
  and the write that ran where nothing refuses it has been heard of as served, or
  as no answer, neither of which is green (`GreenChangesNothing`). The subjects
  and targets are whatever they are, any number of requests fail, and the
  inventory has any number of clients.
* `EdgeAccountingProofs`: `ExportInvariant`, `ExportsAreTrue`, for the edge with
  its quota gate, usage ledger and evidence. `ExportInv` says of each chain that
  what it tells is so (`ChainHolds`). It is when the chain is submitted, since
  the call or the offboarding comes to its end in that very step; and it stays
  so, since a call that is over does not change (`CallsGoOn`) and a tenant torn
  down stays torn down (`TruthStays`). So it does not matter how late the notary
  answers and which rows the cap has dropped by then: a row is a submitted
  chain, with the stamp of its inclusion or none (`RowHolds`). An offboarding
  that finds the client entombed by another one is covered by `GrantHolds`: a
  grant goes when its client is entombed and at no other time. From `ExportInv`,
  `PacksTellTheTruth` reads off what a pack cites.
* `EdgeAccountingProofs`, of the usage ledger: `UsageInvariant`,
  `ReconciliationsAreTrue`. `UsageInv` says that a row is recorded in the very
  step it tells of (the quota's decision, the agent's answer, the answer nobody
  waited for), that what it tells stays so, and that nothing is told twice; and
  that a call whose decision is still in the ledger has every later row of its
  own there too, since the cap drops rows from the front and the decision came
  first (`StraysAfter`). So a chain that was cut has lost its decision, and
  `Chain` does not read it as settled; one that has its decision has an answer
  if the agent gave one, and every stray answer beside it. A repeated answer is a
  row of its own, told apart by its number (`OneStray`), and one that names no
  frame is in no chain. That the ids of calls are not empty is an assumption
  (`LedgerAssumption`).
* `EdgeAccountingProofs`, of the quota gate: `LockInvariant`, `LocksAreTrue`. That
  the bounded table and the book agree on who is locked is not inductive: two
  entries may agree now and differ at the next denial, or once the window has
  moved on. `LockInv` says that they have as many fresh denials at every *later*
  moment (`SameLock`), and that a principal without an entry has none left
  (`NoneLeft`); so it does not matter when `lockState` drops a denial or `prune`
  an entry that is over. Each time in an entry is of a signal of its own
  (`Backed`), so the entry that locks had as many causes as lock it
  (`NotedEarned`); and the entries stand in the order of their first signals
  (`InOrder`), so what `prune` takes from the front has every other entry's
  principal behind it, and the one that asks for room: as many as the table
  holds (`OldestIsCrowded`). The refusals of the edge count in the book exactly
  where `AbuseSignal` counts them (`VerdictIsOwnOrNot`).

What the proofs changed in the models. `RetiredTokenIsCut` once spoke of the
token alone. That is not invariant: an operator may move a credential to another
agent's record, and offboarding that agent destroys a token which the first
agent's tunnel was opened with, and does not close the tunnel. It now says that
the agent that was offboarded keeps no tunnel with the token it lost; two edits
are needed to see the difference, and the run has one. In
`GovernedCallsAttested` and `OnlyAnEditDropsTheTunnel` an implication bound more
than it should have. `CASE` with overlapping arms leaves its value open; where
the order of the code's checks decides, the models now have `IF`: so in `Route`,
where a session id decides before the kind of the message does
(`http-handler.js:310`). In `SourceTurns` a source that was ready for less than a
tick kept its older readiness, and evidence that was fresh looked old; the model
now notes the moment. `OneExpiryIsSurvived` did not except what the cap pushes
out: it held only because the run never filled the table. The proof asked what
keeps a handshake from running beside a session in use, and nothing does once
the cap has taken that session; with a cap of one the run reaches such a call.
`ListedOrTold` spoke of every catalog that is not a failure. It was false for
the prompts of a catalog whose hops for them failed after an invalidation: no
change is told, since the walk compares with nothing. It now speaks of a catalog
that would serve the listing, and a scene of the run (drops and faults
together) has the case. The provers know nothing of `SelectSeq`, so
`UsageLedger` reads the ledger in sets of places, as `reconcileUsage` reads it
with one counter per kind; `ClientPlan`, which flattened a sequence of
sequences, says by its index what a step of the acceptance probe is; and
`Reports` filters by the places of what it keeps (`Kept`), as the denial table
of `QuotaGate` does (`Filtered`).

Only model-checked: liveness (`EveryCallAnswered`, `EveryCallEnds`), which the
prover does not cover. What they show holds for the instances above.

## The plan

Every safety property of the passing runs is a theorem; what is left is to model
more.

To model: moderation, reverting and scheduling as further tools of
`GuardedPatch`; budgets across the requests of one context; the GraphQL backend.
