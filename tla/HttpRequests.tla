---------------------------- MODULE HttpRequests ----------------------------
(***************************************************************************)
(* The connector's HTTPS side as a whole: requests are admitted, routed to *)
(* a session or to a handler of their own, and their tool calls governed,  *)
(* while tokens are killed, the issuer and the source fail, sessions grow  *)
(* idle and time passes.                                                   *)
(***************************************************************************)
EXTENDS LegacySessions, ToolCalls

CONSTANT Scenarios  \* what each request asks for, and what happens around them

\* How often a tool writes: only one that counts as a write does, and over the
\* bridge or drush a call is a single write.
ASSUME WritesAssumption ==
  \A s \in Scenarios, r \in Requests :
    LET k == s.asks[r].call
    IN  k.tool \in DOMAIN ToolTable =>
          /\ k.writes \in Nat
          /\ k.writes > 0 => WriteLike(k)
          /\ ToolTable[k.tool].via # "http" => k.writes <= 1

\* The process listens only in a mode that the startup checks allow.
Init ==
  /\ \E s \in Scenarios :
       LET mode == InboundMode(s.cfg)
       IN  /\ mode # "fatal" /\ (mode = "resource_server" => AuthenticatorBuilds(s.cfg))
           /\ setup = [mode |-> mode, loopback |-> s.cfg.loopback, allowed |-> s.cfg.allowed,
                       legacy |-> s.legacy, owner |-> s.owner, env |-> s.env]
           /\ req = [r \in Requests |-> NewRequest(s.asks[r])]
  /\ killed = {} /\ issuer = "up"
  /\ SessionsInit /\ CallsInit /\ GovernanceInit

---------------------------------------------------------------------------
(* The pipeline of one request *)

Status(r, code) == Ends(r, ToString(code))
Headers(r) == Ask(r).head

\* From the verified principal to the body: nothing in it waits.
Screen(r) ==
  LET code == ScreenHeaders(Headers(r), setup.loopback)
  IN  IF Ask(r).limited = "principal" THEN Status(r, 429)
      ELSE IF code # 0 THEN Status(r, code)
      ELSE Goes(r, IF Headers(r).method = "POST" THEN "body" ELSE "enter")

\* dispatchPublic up to its first await.
Arrive(r) ==
  /\ At(r, "new") /\ Ask(r).verb # "none"
  /\ IF Ask(r).verb = "shutdown" THEN Goes(r, "enter")
     ELSE IF IsPublic(Headers(r)) THEN Status(r, PublicStatus(Headers(r), setup.mode))
     ELSE IF Ask(r).limited = "address" THEN Status(r, 429)
     ELSE IF setup.mode = "unauthenticated" THEN Screen(r)
     ELSE Goes(r, "auth")
  /\ UNCHANGED <<setup, sessionVars, callVars, world, gov>>

\* gateAuth: what the issuer answers now decides.  The kill flag does not.
Authenticated(r) ==
  LET answer == IF Answer(Who(r)) = "killed" THEN "active" ELSE Answer(Who(r))
      code == Authenticate(Token[Who(r)], answer, setup.allowed)
  IN  /\ At(r, "auth")
      /\ IF code = 200 THEN Screen(r) ELSE Status(r, code)
      /\ UNCHANGED <<setup, sessionVars, callVars, world, gov>>

\* The body is read and classified: the session arm, or a handler of its own.
ReadBody(r) ==
  LET code == ScreenBody(Ask(r).body)
  IN  /\ At(r, "body")
      /\ IF code # 0 THEN Status(r, code)
         ELSE Goes(r, IF Ask(r).era = "legacy" THEN "enter" ELSE "handed")
      /\ UNCHANGED <<setup, sessionVars, callVars, world, gov>>

\* A GET of a session opens its event stream.
OpenStream(r) ==
  /\ At(r, "handed") /\ Ask(r).verb = "stream"
  /\ Ends(r, "stream")
  /\ UNCHANGED <<setup, sessionVars, callVars, world, gov>>

Environment ==
  \/ \E r \in Requests : Kill(Who(r))
  \/ IssuerTurns
  \/ \E s \in Transports : GrowsIdle(s)
  \/ SourceTurns \/ Tick
  \/ SourceAnswers \/ ProbeEnds

Next ==
  \/ \E r \in Requests : Arrive(r) \/ Authenticated(r) \/ ReadBody(r) \/ OpenStream(r)
  \/ \E r \in Requests : LegacyNext(r)
  \/ \E r \in Requests : CallNext(r)
  \/ Environment

Spec == Init /\ [][Next]_vars

---------------------------------------------------------------------------
(* Properties *)

\* A request is handed only to a transport that is open: the session a request
\* found in the map is not one that an eviction, a DELETE or the shutdown has
\* begun to close.  (http-handler.js:250)
NeverHandedToClosing == \A r \in Requests : req[r].handed \in {"none", "open"}

\* The session map exceeds its cap by no more than the initializes that were
\* past the eviction together, less one.  (http-handler.js:271)
SessionsBounded ==
  Len(sessions) + Cardinality(Builders) <= MaxSessions + IF crowd = 0 THEN 0 ELSE crowd - 1

\* A killed token writes at most once more, in every call that uses it: the
\* write whose check had just passed.  A call that runs when a denial covers its
\* human or its tenant sends nothing more, except over ssh.  The network's local
\* operator never writes over JSON:API.  (in-flight.js:143, drupal-fetch.js:150)
KillStopsWrites ==
  \A r \in Requests :
    /\ req[r].afterKill <= 1
    /\ req[r].afterStop > 0 => Via(r) = "drush"
    /\ Unkeyed(r) /\ req[r].sent > 0 => Via(r) # "http"

\* Evidence of a governed site is used while it is at most as old as a passing
\* verdict may get: the source was ready within that time when the call passed,
\* also when the call had joined an older probe.  (governance.js:84)
EvidenceIsFresh == \A r \in Requests : req[r].lag <= OkTtl

\* A write goes to a site the principal is granted, the one it named if several
\* are configured, and one whose policy allows it: it is not read-only, a delete
\* may be destructive, config writes are open, and neither the type nor the
\* bundle is denied or outside its list.  (dispatch.js:232, principal.js:560,
\* entities.js:114)
WrittenSiteAllowsIt ==
  \A r \in Requests : req[r].sent > 0 =>
    LET p == Policy(req[r].site)
        k == Call(r)
        verb == ToolTable[k.tool].verb
    IN  /\ req[r].site \in Granted(Id(r))
        /\ Unkeyed(r) \/ Cardinality(Sites) = 1 \/ k.hint = req[r].site
             \/ Cardinality(Granted(Id(r))) = 1
        /\ ~p.readOnly
        /\ verb = "delete" => p.allowDestructive
        /\ verb = "config" => p.allowConfigWrite
        /\ verb \in {"update", "delete"} =>
             k.type \in p.allowed \ p.denied /\ BundleAllowed(p, k.type, k.bundle)
        /\ verb = "update" /\ k.publish => p.allowPublish
=============================================================================
