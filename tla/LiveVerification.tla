-------------------------- MODULE LiveVerification --------------------------
(***************************************************************************)
(* bin/drupal-mcp-verify.js: the configuration is judged as it stands, and *)
(* with --live a target is asked, one request at a time, for what it must  *)
(* refuse.  A step is a request; `seen` maps each step that was made to    *)
(* the answer it had.                                                      *)
(***************************************************************************)
EXTENDS Naturals, Sequences

Step(name) == <<"verify", name>>

VerifyPlan == <<Step("health"), Step("mint"), Step("anonymous"), Step("readiness"), Step("catalog"),
                Step("write"), Step("write2"), Step("context"), Step("mass"), Step("edit")>>

---------------------------------------------------------------------------
(* The static half.  A configuration is a function from the names of its   *)
(* sites.                                                                  *)

IsGoverned(s) == s.governed \/ s.login = "oauth"
IsLocalDevelopment(s) == s.url = "loopback" /\ s.preset = "development"

\* principal_auth.
Unnamed(s) ==
  \/ s.login = "oauth" /\ (s.client = "" \/ s.secret # "env")
  \/ s.login = "token" /\ s.secret # "env"
  \/ s.login = "none"
  \/ IsGoverned(s) /\ ~s.secureAuth

\* The findings a site has of its own.
SiteFindings(s) ==
  {check \in {"transport", "principal_auth", "scope_grant", "source_governance", "entitlement",
              "target_resolution", "tenant_neutrality"} :
     CASE check = "transport"         -> s.url \notin {"https", "loopback"}
       [] check = "principal_auth"    -> Unnamed(s)
       [] check = "scope_grant"       -> s.login = "oauth" /\ s.scopes = {}
       [] check = "source_governance" -> IsGoverned(s) /\ ~IsLocalDevelopment(s) /\ ~s.governed
       [] check = "entitlement"       -> s.preset = "none" \/ (s.preset = "development" /\ s.url # "loopback")
       [] check = "target_resolution" -> s.url = "none"
       [] check = "tenant_neutrality" -> ~s.neutral}

\* role_separation: two OAuth sites with one client.  A client has one secret
\* variable here, so that sites share a variable just when they share a client.
Shared(cfg) ==
  {pair \in (DOMAIN cfg) \X (DOMAIN cfg) :
     LET a == cfg[pair[1]]
         b == cfg[pair[2]]
     IN  /\ pair[1] # pair[2] /\ a.login = "oauth" /\ b.login = "oauth"
         /\ a.client = b.client /\ a.client # ""}

\* Without a site there is nothing to check, and that is no evidence.  Two more
\* findings, about the default site's name and about the process's own inbound
\* authentication, are left out: each can only turn an exit of 0 into one of 1.
StaticOk(cfg) ==
  /\ DOMAIN cfg # {}
  /\ \A name \in DOMAIN cfg : SiteFindings(cfg[name]) = {}
  /\ Shared(cfg) = {}

---------------------------------------------------------------------------
(* The live half of one site *)

Was(seen, name, answers) == Step(name) \in DOMAIN seen /\ seen[Step(name)] \in answers

HasPrincipal(s) == s.login = "oauth" /\ s.client # "" /\ s.secret # "none"
NoToken(s, seen) == HasPrincipal(s) /\ ~Was(seen, "mint", {"token"})
HoldsConfig(s) == "mcp_config" \in s.scopes
MayWrite(s) == s.scopes = {} \/ s.scopes \cap {"mcp_write", "mcp_config"} # {}
ProbesConfig(s) == ~HoldsConfig(s) /\ s.bridge

\* The names in the source's catalog, of the two a bridge may use.
Advertised(seen) == Was(seen, "catalog", {"first", "second"})
Written(seen) == Was(seen, "write", {"served"}) \/ Was(seen, "write2", {"served"})

\* Whether a step is made once those before it have their answers.
VerifyAsks(s, seen, step) ==
  LET name == step[2]
  IN  CASE name = "health"              -> s.url \in {"https", "loopback"}
        [] name \in {"mint", "anonymous"} -> HasPrincipal(s)
        [] name = "readiness"           -> ~NoToken(s, seen) /\ s.governed
        [] name \in {"catalog", "write"} -> ~NoToken(s, seen) /\ ProbesConfig(s)
        [] name = "write2"              -> ~NoToken(s, seen) /\ ProbesConfig(s)
                                           /\ ~Advertised(seen) /\ ~Written(seen)
        [] name \in {"context", "mass"} -> ~NoToken(s, seen)
        [] name = "edit"                -> ~NoToken(s, seen) /\ MayWrite(s) /\ s.target

\* What a target may answer: it enforces what is in `holds`, `live` is whether it
\* still takes the token that was minted.
VerifyAnswers(step, holds, live, s, seen) ==
  LET name == step[2]
      enforced == step \in holds
      accepted == live \/ ~HasPrincipal(s)
      denied == IF accepted THEN {} ELSE {"401"}
  IN  CASE name = "health"    -> {"any"}
        [] name = "mint"      -> IF enforced THEN {"token"} ELSE {"401", "empty"}
        [] name = "anonymous" -> IF enforced THEN {"401"} ELSE {"200", "404"}
        [] name \in {"readiness", "context"} ->
             IF ~accepted THEN denied ELSE IF enforced THEN {"200"} ELSE {"403"}
        [] name = "mass"      ->
             IF ~accepted THEN denied
             ELSE IF enforced THEN {"403", "4xx+code", "429", "fewer"} ELSE {"unbounded", "unsized", "429", "few exist", "404"}
        [] name = "edit"      ->
             IF ~accepted THEN denied ELSE IF enforced THEN {"403", "404"} ELSE {"200", "404"}

---------------------------------------------------------------------------
(* What an answer is worth *)

ClassifyBridgeErrorM1(answer) == IF answer # "served" THEN "refused" ELSE "unexercised"

\* Only a decision of the source is a refusal.
ClassifyBridgeError(answer) ==
  IF answer \in {"tool_error", "rpc_policy", "401", "403"} THEN "refused" ELSE "unexercised"

IsMassReadRefusal(answer) == answer \in {"401", "403", "429", "4xx+code"}
IsClientError(answer) == answer \in {"401", "403", "404", "429", "4xx+code"}

\* attemptConfigWrite.
ConfigOutcome(seen) ==
  IF Written(seen) THEN "served"
  ELSE IF Advertised(seen) THEN ClassifyBridgeError(seen[Step("write")]) ELSE "unexercised"

Verdict(fails, skips) == IF fails THEN "fail" ELSE IF skips THEN "skipped" ELSE "pass"

\* With no usable token what needs one is skipped, whatever it would be worth.
Gated(s, seen, verdict) == IF NoToken(s, seen) THEN "skipped" ELSE verdict

PrincipalAuth(s, seen) ==
  IF ~HasPrincipal(s) THEN "skipped"
  ELSE Verdict(NoToken(s, seen) \/ Was(seen, "anonymous", {"200"}),
               ~IsClientError(seen[Step("anonymous")]))

MassRead(seen) ==
  LET answer == seen[Step("mass")]
  IN  Verdict(answer = "unbounded", ~IsMassReadRefusal(answer) /\ answer \notin {"fewer", "few exist"})

ConfigChange(s, seen) ==
  IF ~ProbesConfig(s) THEN "n/a"
  ELSE Verdict(ConfigOutcome(seen) = "served", ConfigOutcome(seen) = "unexercised")

ContentEdit(s, seen) ==
  IF ~MayWrite(s) THEN "n/a"
  ELSE IF ~s.target THEN "skipped"
  ELSE Verdict(Was(seen, "edit", {"200"}), ~Was(seen, "edit", {"401", "403"}))

LiveChecks(s, seen) ==
  [transport             |-> Verdict(~Was(seen, "health", {"any", "500"}), FALSE),
   principal_auth        |-> PrincipalAuth(s, seen),
   source_governance     |-> Gated(s, seen, IF ~s.governed THEN "n/a"
                                            ELSE Verdict(~Was(seen, "readiness", {"200"}), FALSE)),
   entitlement_filtering |-> Gated(s, seen, ConfigChange(s, seen)),
   target_resolution     |-> Gated(s, seen, Verdict(~Was(seen, "context", {"200"}), FALSE)),
   probe_mass_read       |-> Gated(s, seen, MassRead(seen)),
   probe_config_change   |-> Gated(s, seen, ConfigChange(s, seen)),
   probe_content_edit    |-> Gated(s, seen, ContentEdit(s, seen))]

LiveOk(s, seen) == \A check \in DOMAIN LiveChecks(s, seen) : LiveChecks(s, seen)[check] \in {"pass", "n/a"}

\* Every document must be in order.
VerifyExit(cfg, site, seen) == IF StaticOk(cfg) /\ LiveOk(cfg[site], seen) THEN 0 ELSE 1

\* What a green run says of the target, and the answers that also make it green.
VerifyClaims(s) ==
  {Step("mint"), Step("anonymous"), Step("context"), Step("mass")}
  \cup (IF s.governed THEN {Step("readiness")} ELSE {})
  \cup (IF ProbesConfig(s) THEN {Step("write")} ELSE {})
  \cup (IF MayWrite(s) THEN {Step("edit")} ELSE {})
Misread(step) ==
  CASE step = Step("anonymous") -> {"404"}
    [] step = Step("mass") -> {"401", "429", "few exist"}
    [] step \in {Step("edit"), Step("write")} -> {"401"}
    [] OTHER -> {}
=============================================================================
