-------------------------- MODULE HostedAcceptance --------------------------
(***************************************************************************)
(* scripts/hosted-acceptance.js: a hosted endpoint and its issuer are      *)
(* probed from outside, one step after the other; a step is ok, failed or  *)
(* skipped.                                                                *)
(***************************************************************************)
EXTENDS Naturals, Sequences

CONSTANT Inventory   \* the declared clients: whether the realm always has them, and their CIMD

Probe(family, who) == <<"hosted", family, who>>

\* The steps of one client, in order; its gates are read from the first page.
ClientSteps == <<"accept", "reject", "cimd accept", "cimd reject", "gates">>
ClientPlan(clients) ==
  [i \in 1..(5 * Len(clients)) |-> Probe(ClientSteps[((i - 1) % 5) + 1], clients[((i - 1) \div 5) + 1])]

HostedPlan(clients) ==
  <<Probe("health", ""), Probe("protected resource", ""), Probe("as metadata", ""), Probe("no token", ""),
    Probe("junk token", ""), Probe("allowed origin", ""), Probe("allowed preflight", ""),
    Probe("denied origin", ""), Probe("denied preflight", "")>>
  \o ClientPlan(clients)
  \o <<Probe("dcr", ""), Probe("grok cimd", ""), Probe("exchange", ""), Probe("signed in", "initialize"),
       Probe("signed in", "tools/list"), Probe("signed in", "tools/call"), Probe("deny token", "wrong-audience"),
       Probe("deny token", "expired"), Probe("deny token", "insufficient-scope")>>

---------------------------------------------------------------------------
(* What the inventory expects *)

InRealm(c, provisioned) == Inventory[c].always \/ provisioned
CimdInRealm(c, provisioned) == Inventory[c].cimd /\ provisioned

Expected(step, provisioned) ==
  LET c == step[3]
      when(present, page) == IF present THEN page ELSE "client_not_found"
  IN  CASE step[2] = "accept"      -> when(InRealm(c, provisioned), "login")
        [] step[2] = "reject"      -> when(InRealm(c, provisioned), "invalid_redirect")
        [] step[2] = "cimd accept" -> when(CimdInRealm(c, provisioned), "login")
        [] step[2] = "cimd reject" -> when(CimdInRealm(c, provisioned), "invalid_redirect")

Authorizes == {"accept", "reject", "cimd accept", "cimd reject"}

---------------------------------------------------------------------------
(* The probe of one host.  o: the operator's flags and tokens.             *)

HasToken(o, seen) ==
  \/ o.token
  \/ Probe("exchange", "") \in DOMAIN seen /\ seen[Probe("exchange", "")] = "token"

\* Steps that send a request; the others are judged on what is there.
HostedAsks(o, seen, step) ==
  CASE step[2] \in {"cimd accept", "cimd reject"} -> Inventory[step[3]].cimd
    [] step[2] = "gates"      -> FALSE
    [] step[2] = "exchange"   -> ~o.token /\ o.secret
    [] step[2] = "signed in"  -> HasToken(o, seen)
    [] step[2] = "deny token" -> step[3] \in o.denied
    [] OTHER -> TRUE

\* The pages of the issuer: a login page may say whether consent and the staff
\* gate are required, and seldom does without a login.
LoginPages == {"login", "login+gated", "login+consent", "login+ungated"}
PagesOf(page) == IF page = "login" THEN LoginPages ELSE {page}
Shown(page, gated) == PagesOf(page) \ {IF gated THEN "login+ungated" ELSE "login+gated"}
OtherPages(page) == {"login", "invalid_redirect", "client_not_found", "deny page"} \ {page}

HostedAnswers(step, holds, live, o, seen) ==
  LET enforced == step \in holds
  IN  CASE step[2] = "accept" /\ enforced -> Shown(Expected(step, o.provisioned), Probe("gates", step[3]) \in holds)
        [] step[2] \in Authorizes \ {"accept"} /\ enforced -> {Expected(step, o.provisioned)}
        [] step[2] \in Authorizes /\ ~enforced -> OtherPages(Expected(step, o.provisioned))
        [] step[2] = "exchange"   -> IF enforced THEN {"token"} ELSE {"401", "200 no token"}
        [] step[2] = "signed in"  -> IF ~live THEN {"401"}
                                     ELSE IF enforced THEN {"expected"}
                                     ELSE IF step[3] = "tools/list" THEN {"writes advertised", "rpc error"} ELSE {"rpc error"}
        [] step[2] = "deny token" -> IF enforced THEN {"401"} ELSE {"401 stale", "200"}
        [] OTHER                  -> IF enforced THEN {"expected"} ELSE {"other"}

\* classifyAuthorize.
AuthorizedAsExpected(o, seen, step) == seen[step] \in PagesOf(Expected(step, o.provisioned))

\* classifyUnauthenticatedMcp and the origins: a refusal is what is expected, and
\* its reason is not looked at.
Guarded == {"no token", "junk token", "denied origin", "denied preflight", "deny token"}
RefusedAsExpected(answer) == answer \in {"expected", "401", "401 stale"}

\* The others: ok where the answer is the one expected.
AnsweredAsExpected(o, seen, step) ==
  CASE step[2] \in Authorizes -> AuthorizedAsExpected(o, seen, step)
    [] step[2] \in Guarded    -> RefusedAsExpected(seen[step])
    [] step[2] = "exchange"   -> seen[step] = "token"
    [] OTHER                  -> seen[step] = "expected"

\* classifyAuthorizeGates, from the first page of the client.
GatesOf(seen, c) ==
  LET page == seen[Probe("accept", c)]
  IN  CASE page \in {"login+gated", "login+consent", "deny page"} -> "ok"
        [] page = "login+ungated" -> "failed"
        [] OTHER                  -> "skipped"

\* finish: what a step comes to.
Finished(o, seen, step) ==
  IF step[2] = "gates" THEN GatesOf(seen, step[3])
  ELSE IF step \in DOMAIN seen THEN IF AnsweredAsExpected(o, seen, step) THEN "ok" ELSE "failed"
  ELSE "skipped"

\* Steps that are not applicable leave no row.
Rows(o, clients) ==
  {step \in {HostedPlan(clients)[i] : i \in DOMAIN HostedPlan(clients)} :
     /\ step[2] \in {"cimd accept", "cimd reject"} => Inventory[step[3]].cimd
     /\ step[2] = "exchange" => ~o.token /\ o.secret}

IsRequiredSignedIn(step) == step[2] \in {"signed in", "gates"}

\* The exit code.  A request that failed without an answer ends the run at once.
HostedExit(o, clients, seen) ==
  IF \E step \in DOMAIN seen : seen[step] = "none" THEN 1
  ELSE IF \E step \in Rows(o, clients) : Finished(o, seen, step) = "failed" THEN 1
  ELSE IF o.require /\ \E step \in Rows(o, clients) : IsRequiredSignedIn(step) /\ Finished(o, seen, step) = "skipped"
       THEN 2 ELSE 0

\* What exit 0 says: the endpoint and the issuer in any case, and what was asked
\* with a token; the signed-in steps and the gates where the operator requires them.
HostedClaims(o, clients) ==
  {step \in Rows(o, clients) :
     /\ step[2] = "gates" => o.require
     /\ step[2] = "signed in" => o.require \/ o.token
     /\ step[2] = "deny token" => step[3] \in o.denied}

\* A token that is refused for another reason, a page that shows one gate of two.
Mistaken(step) ==
  CASE step[2] = "deny token" -> {"401 stale"}
    [] step[2] = "gates"      -> {"login+consent"}
    [] OTHER -> {}
=============================================================================
