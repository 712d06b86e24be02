----------------------------- MODULE Admission -----------------------------
(***************************************************************************)
(* What the HTTPS front of the connector decides about one request: the    *)
(* mode it may start in, whether a bearer is admitted, and the checks of   *)
(* the request's headers, in the order the handler makes them.             *)
(*                                                                         *)
(* A host or origin is a name; a token is the claims of its signed form    *)
(* and what the issuer answers about it.  Times are small numbers around   *)
(* Now.  The counting of the two rate limiters is the module RateLimiter.  *)
(***************************************************************************)
EXTENDS Naturals, FiniteSets, TLC

CONSTANTS
  Resource,       \* the audience: this server's own origin
  Origins,        \* further origins the operator lists
  Hosts,          \* further hosts the operator lists
  RequiredScopes  \* scopes every token must carry

Now == 10
Skew == 1         \* clockTolerance
MaxLifetime == 5  \* maxTokenLifetime

---------------------------------------------------------------------------
(* Starting up *)

Introspection == {"introspectionUrl", "clientId", "clientSecret"}
CompleteServer == {"issuer", "audience"} \cup Introspection

\* cfg.set: the resource-server settings that are present.
InboundMode(cfg) ==
  IF cfg.sharedToken THEN "fatal"
  ELSE IF CompleteServer \subseteq cfg.set THEN "resource_server"
  ELSE IF cfg.loopback /\ cfg.set # {} THEN "fatal"
  ELSE IF cfg.allowUnauth /\ ~cfg.loopback THEN "fatal"
  ELSE IF cfg.allowUnauth \/ cfg.loopback THEN "unauthenticated"
  ELSE "fatal"

\* createInboundHttpsAuth refuses, before it listens, settings that do not name
\* one https issuer and resource, and an issuer whose metadata it cannot read.
AuthenticatorBuilds(cfg) ==
  /\ cfg.https
  /\ cfg.resource \in {"", Resource}
  /\ cfg.discovered

---------------------------------------------------------------------------
(* A bearer *)

InTime(c) ==
  /\ {"exp", "iat"} \subseteq DOMAIN c
  /\ c.exp > Now - Skew
  /\ "nbf" \in DOMAIN c => c.nbf <= Now + Skew
  /\ c.iat <= Now + Skew
  /\ c.exp <= c.iat + MaxLifetime
  /\ Now <= c.iat + MaxLifetime + Skew

\* The signed claims are preferred to the issuer's answer when they verify.  A
\* signed token whose keys cannot be fetched falls back to the answer.
Claims(t) == IF t.jwt = "verifies" THEN t.signed ELSE t.answered

\* allowedPrincipals names exact pairs of verified claims; without the list
\* (none) everyone is admitted.
PairAllowed(c, list) == list.none \/ <<c.azp, c.sub>> \in list.pairs

\* createResourceAuthenticator with requireIntrospection.  answer is what the
\* issuer says of the token: it does not look at the kill flag of an active one.
Authenticate(t, answer, allowed) ==
  IF ~t.bearer \/ t.badAlgorithm THEN 401
  ELSE IF answer = "outage" THEN 503
  ELSE IF answer = "inactive" THEN 401
  ELSE IF t.jwt = "other_plane" THEN 401
  ELSE IF ~InTime(Claims(t)) \/ ~Claims(t).iss \/ Resource \notin Claims(t).aud THEN 401
  ELSE IF ~(RequiredScopes \subseteq Claims(t).scopes) THEN 403
  ELSE IF ~PairAllowed(Claims(t), allowed) THEN 403
  ELSE 200

\* buildIdentity, fromIdentity: the identity keeps the raw claims the principal
\* key is made of.  A claim that is missing leaves it without a key.
Identity(t) ==
  LET c == Claims(t)
  IN  [key |-> IF c.azp = "" \/ c.sub = "" THEN <<>> ELSE <<c.sub, c.azp>>,
       human |-> c.sub, tenant |-> c.tenant, client |-> c.azp,
       scopes |-> c.scopes, sites |-> c.sites, local |-> FALSE]

\* The identity of an unauthenticated loopback listener.
LocalOperator ==
  [key |-> <<"local-operator">>, human |-> "", tenant |-> "", client |-> "",
   scopes |-> {}, sites |-> {}, local |-> TRUE]

---------------------------------------------------------------------------
(* The headers of a request *)

PublicPaths == {"/health", "/.well-known"}
IsPublic(h) == h.method = "GET" /\ h.path \in PublicPaths

\* The well-known document exists only with a resource server.
PublicStatus(h, mode) ==
  IF h.path = "/health" \/ mode = "resource_server" THEN 200 ELSE 404

\* A host without a port in the list allows every port.
AllowedHosts(loopback) ==
  Hosts \cup {<<Resource, "">>} \cup IF loopback THEN {<<"localhost", "">>} ELSE {}
HostAllowed(host, loopback) ==
  \E entry \in AllowedHosts(loopback) : entry[1] = host[1] /\ entry[2] \in {"", host[2]}

OriginAllowed(origin) == origin = "" \/ origin \in Origins \cup {Resource}

\* mcpAcceptOk: no header accepts everything; GET needs the event stream, POST
\* the event stream or JSON; a range with q=0 excludes its type.
AcceptOk(method, accept) ==
  \/ "absent" \in accept \/ method \notin {"GET", "POST"}
  \/ accept \cap ({"events"} \cup IF method = "POST" THEN {"json"} ELSE {}) # {}

Sessionless(h) == h.method \in {"GET", "DELETE"} /\ h.sid = ""

\* The checks between the principal's rate limit and the reading of the body.
\* 0 lets the request pass.
ScreenHeaders(h, loopback) ==
  IF h.path # "/mcp" THEN 404
  ELSE IF ~HostAllowed(h.host, loopback) \/ ~OriginAllowed(h.origin) THEN 403
  ELSE IF ~h.version THEN 400
  ELSE IF ~AcceptOk(h.method, h.accept) THEN 406
  ELSE IF Sessionless(h) THEN 405
  ELSE IF h.method \in {"GET", "DELETE"} THEN 0
  ELSE IF h.method # "POST" THEN 404
  ELSE IF ~h.json THEN 415
  ELSE 0

\* readJsonBody and the batch check.
ScreenBody(b) ==
  CASE b = "large" -> 413 [] b = "malformed" -> 400 [] b = "batch" -> 400 [] OTHER -> 0
=============================================================================
