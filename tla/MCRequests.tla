----------------------------- MODULE MCRequests -----------------------------
(* Three requests, three sites, five good tokens and one of each bad kind; and   *)
(* each report on its own, and the site health over some, on three rows.          *)
EXTENDS HttpRequests, Reports, ConnectorProcess

CONSTANTS r1, r2, r3, s0, e1

\* One governed site that agents edit, one that is read-only, one wide open.
Site(preset, security, governed) ==
  [preset |-> preset, security |-> security, governed |-> governed,
   oauth |-> governed, scopes |-> IF governed THEN {"mcp_write"} ELSE {}]

MCSiteConfig ==
  [main |-> Site("config-editor",
                 [allowDestructive |-> TRUE,
                  rules |-> ("structural" :> [operations |-> {"read", "update", "delete"}])
                            @@ ("content" :> [deniedBundles |-> {"memo"}])], TRUE),
   blog |-> Site("auditor", [allowDestructive |-> TRUE], FALSE),
   dev |-> Site("development", [denied |-> {"secret"},
                                rules |-> "structural" :> [allowedBundles |-> {"hero"}]], FALSE)]

MCGrants == [set |-> TRUE, of |-> ("app" :> {"main", "blog", "dev"}) @@ ("bot" :> {"dev"})
                                    @@ ("reader" :> {"blog"})]

Scopes == {"mcp_read", "mcp_write", "mcp_config"}
Claim(sub, azp, tenant) ==
  [exp |-> 12, iat |-> 9, iss |-> TRUE, aud |-> {Resource}, scopes |-> Scopes, sub |-> sub,
   azp |-> azp, tenant |-> tenant, sites |-> {}]
Token0(c, jwt) == [bearer |-> TRUE, badAlgorithm |-> FALSE, active |-> TRUE, jwt |-> jwt,
                  signed |-> c, answered |-> c]

\* Two clients of one person, a colleague, a stranger; and a token whose signed
\* claims are another principal's than the issuer's answer.
Ann == Claim("ann", "app", "red")
Good == Token0(Ann, "verifies")
\* Ann's token with one thing wrong.
BadClaims == ("expired" :> [Ann EXCEPT !.exp = 9]) @@ ("old" :> [Ann EXCEPT !.iat = 3])
             @@ ("issuer" :> [Ann EXCEPT !.iss = FALSE]) @@ ("audience" :> [Ann EXCEPT !.aud = {}])
             @@ ("scope" :> [Ann EXCEPT !.scopes = {}]) @@ ("tenant" :> [Ann EXCEPT !.tenant = ""])
             @@ ("client" :> [Ann EXCEPT !.azp = ""])
BadTokens == ("absent" :> [Good EXCEPT !.bearer = FALSE])
             @@ ("algorithm" :> [Good EXCEPT !.badAlgorithm = TRUE])
             @@ ("inactive" :> [Good EXCEPT !.active = FALSE])
             @@ ("plane" :> [Good EXCEPT !.jwt = "other_plane"])
             @@ [n \in DOMAIN BadClaims |-> [Good EXCEPT !.signed = BadClaims[n]]]
MCToken == BadTokens @@
           [t1 |-> Good,
            t2 |-> Token0(Claim("ann", "bot", "red"), "opaque"),
            t3 |-> Token0(Claim("bob", "app", "red"), "unverifiable"),
            t4 |-> Token0(Claim("eve", "app", "blue"), "opaque"),
            t5 |-> [Token0(Claim("bob", "reader", "red"), "verifies")
                      EXCEPT !.answered = Claim("eve", "app", "blue")]]

Cfg == [loopback |-> FALSE, allowUnauth |-> FALSE, sharedToken |-> FALSE, https |-> TRUE,
        resource |-> Resource, discovered |-> TRUE, set |-> CompleteServer,
        allowed |-> [none |-> TRUE, pairs |-> {}]]
Loopback == [Cfg EXCEPT !.loopback = TRUE, !.set = {}]

Plain == [method |-> "POST", path |-> "/mcp", host |-> <<Resource, "">>, origin |-> "",
          version |-> TRUE, accept |-> {"json", "events"}, json |-> TRUE, sid |-> ""]
NoCall == [tool |-> "drupal_list_sites", hint |-> "", type |-> "content", bundle |-> "page",
           mutation |-> FALSE, publish |-> FALSE, writes |-> 0]
Asks(verb, who, era, sid, call) ==
  [verb |-> verb, who |-> who, era |-> era, head |-> [Plain EXCEPT !.sid = sid],
   body |-> "single", limited |-> "", call |-> call]
None == Asks("none", "t1", "modern", "", NoCall)
Calls(who, tool, hint, writes) ==
  Asks("call", who, "modern", "", [NoCall EXCEPT !.tool = tool, !.hint = hint, !.writes = writes])
Opens(who) == Asks("init", who, "legacy", "", NoCall)
Uses(who, sid) == Asks("call", who, "legacy", sid, NoCall)
Method(a, m) == [a EXCEPT !.head.method = m]
Ends0 == Method(Asks("end", "t1", "legacy", s0, NoCall), "DELETE")

Scene(cfg, a1, a2, a3, env) ==
  [cfg |-> cfg, legacy |-> TRUE, owner |-> <<"ann", "app">>, env |-> env,
   asks |-> [r \in Requests |-> IF r = r1 THEN a1 ELSE IF r = r2 THEN a2 ELSE a3]]
Alone(a) == Scene(Cfg, a, None, None, {})

\* Sessions: the cap, the idle eviction, DELETE and the shutdown against users.
SessionScenes ==
  {Scene(Cfg, Opens("t1"), Opens("t2"), Opens("t3"), {}),
   Scene(Cfg, Opens("t1"), Uses("t1", s0), Opens("t3"), {"age"}),
   Scene(Cfg, Uses("t1", s0), Ends0, Uses("t1", s0), {"age"}),
   Scene(Cfg, Uses("t1", s0), Asks("shutdown", "t1", "legacy", "", NoCall), Opens("t1"), {}),
   Scene(Cfg, Uses("t3", s0), Uses("t1", r3), Opens("t1"), {"age"}),
   Scene(Cfg, Method(Asks("stream", "t1", "legacy", s0, NoCall), "GET"), Ends0,
         Asks("list", "t1", "legacy", s0, NoCall), {})}

\* Kills: a bulk update against calls of the same human, the same tenant and a
\* stranger, over each way to Drupal; and the issuer's outage.
Bulk == Calls("t1", "drupal_update_node", "dev", 2)
KillScenes ==
  {Scene(Cfg, Bulk, Calls("t2", "drupal_config_set", "dev", 1),
         Calls("t4", "drupal_update_node", "dev", 1), {"kill"}),
   Scene(Cfg, Bulk, Calls("t3", "drupal_drush_cron", "dev", 1),
         Calls("t1", "drupal_update_node", "dev", 1), {"kill"}),
   Scene(Cfg, Bulk, Calls("t3", "drupal_update_node", "dev", 2), None, {"kill", "outage"})}

\* Governance: two calls, or a call and a listing or a report, around the age of
\* a verdict.
GovernanceScenes ==
  {Scene(Cfg, Calls("t1", "drupal_get_node", "main", 0), a, None, {"clock"}) :
     a \in {Calls("t3", "drupal_update_node", "main", 1), Asks("list", "t1", "modern", "", NoCall),
            Calls("t1", "drupal_governance_status", "", 0)}}

\* Every kind of call, on its own: reads of content with and without a bundle, the
\* node tools on bundles of content, the generic ones on bundles of every type.
Bundled(tool) ==
  CASE tool \in Generic -> {<<"content", "memo">>, <<"structural", "hero">>, <<"structural", "menu">>,
                            <<"file", "file">>, <<"secret", "key">>}
    [] tool = "drupal_get_node" -> {"content"} \X {"page", "memo", ""}
    [] OTHER -> {"content"} \X {"page", "memo"}
KindsOfCall(tool) ==
  {[NoCall EXCEPT !.tool = tool, !.hint = hint, !.type = of[1], !.bundle = of[2],
                  !.mutation = other, !.publish = other] :
     hint \in {"", "main", "blog", "dev"}, of \in Bundled(tool), other \in BOOLEAN}
PolicyScenes ==
  {Alone(Asks("call", t, "modern", "", [k EXCEPT !.writes = IF WriteLike(k) THEN 1 ELSE 0])) :
     t \in {"t1", "t2", "t5"},
     k \in UNION {KindsOfCall(tool) : tool \in DOMAIN ToolTable \ {"drupal_list_sites"}}}
  \cup {Scene(Loopback, Calls("t1", tool, "dev", 1), None, None, {}) :
          tool \in {"drupal_update_node", "drupal_config_set"}}

\* Every way to be refused before that.
WithHead(h) == Alone([Calls("t1", "drupal_get_node", "dev", 0) EXCEPT !.head = h])
RefusalScenes ==
  {Alone(Calls(t, "drupal_get_node", "dev", 0)) : t \in DOMAIN BadTokens}
  \cup {WithHead(h) : h \in {[Plain EXCEPT !.path = "/health", !.method = "GET"],
                             [Plain EXCEPT !.path = "/other"], [Plain EXCEPT !.host = <<"other", "">>],
                             [Plain EXCEPT !.origin = "other"], [Plain EXCEPT !.version = FALSE],
                             [Plain EXCEPT !.accept = {"text"}], [Plain EXCEPT !.method = "GET"],
                             [Plain EXCEPT !.json = FALSE]}}
  \cup {Alone([Calls("t1", "drupal_get_node", "dev", 0) EXCEPT !.limited = l, !.body = b]) :
          l \in {"", "address", "principal"}, b \in {"large", "batch"}}
  \cup {[Alone(Opens("t1")) EXCEPT !.legacy = FALSE],
        [Alone(Opens("t1")) EXCEPT !.cfg.allowed = [none |-> FALSE, pairs |-> {}]],
        [Alone(Opens("t1")) EXCEPT !.cfg.set = {"issuer"}]}

MCScenarios == {Alone(None)} \cup SessionScenes \cup KillScenes \cup GovernanceScenes \cup PolicyScenes \cup RefusalScenes

---------------------------------------------------------------------------
(* Reports *)

Ids == {"x", "y", "z", "w", "n"}
RowsWith(bad, hidden, drafts, closed) ==
  [id \in Ids |-> [pub |-> id \notin drafts, bad |-> id \in bad \cup {"w"},
                   shown |-> id \notin hidden, open |-> id \notin closed]]
RowSets ==
  {RowsWith({"y"}, {}, {}, {}), RowsWith({"x", "y", "z"}, {}, {"z"}, {}),
   RowsWith({"x", "y"}, {"z"}, {}, {}), RowsWith({"x"}, {"x", "y", "z", "w"}, {}, {}),
   RowsWith({"y"}, {}, {}, {"x", "y"})}
Layouts ==
  {("a" :> <<"x", "y", "z">>) @@ ("b" :> << >>) @@ ("d" :> <<"w">>),
   ("a" :> <<"x", "y">>) @@ ("b" :> <<"z">>) @@ ("d" :> <<"w">>)}
ReportScene(plan, content0, rows0, type, lacks) ==
  [plan |-> plan, health |-> Len(plan) > 1, type |-> type, content |-> content0, rows |-> rows0,
   lacks |-> lacks, faults |-> IF Len(plan) > 1 THEN 1 ELSE 2, edits |-> IF Len(plan) > 1 THEN 0 ELSE 1]
MCBundles == <<"a", "b", "d">>
Features == {"revisions", "login", "inventory", "source", "drush"}
OneReport ==
  {ReportScene(<<name>>, c, s, type, {}) :
     name \in DOMAIN ReportOf, c \in Layouts, s \in RowSets, type \in {"", "a"}}
OddReport ==
  {ReportScene(<<name>>, CHOOSE c \in Layouts : TRUE, CHOOSE s \in RowSets : TRUE, type, lacks) :
     name \in DOMAIN ReportOf, type \in {"a", "d"}, lacks \in {{}} \cup {{f} : f \in Features}}
Health ==
  {ReportScene(<<"contentSummary", "seoAudit", "piiExposure", "moduleAudit">>, c, s, type, {}) :
     c \in Layouts, s \in RowSets, type \in {"", "a"}}
NothingAsked == ReportScene(<< >>, CHOOSE c \in Layouts : TRUE, CHOOSE s \in RowSets : TRUE, "", {})
MCReportScenes == OneReport \cup OddReport \cup Health

---------------------------------------------------------------------------
(* The process *)

\* How an exchange goes: who is verified, what is answered, what it may meet.
WayOf(modes, bound, bearer, status, refusal) ==
  [modes |-> modes, bound |-> bound, bearer |-> bearer, status |-> status, refusal |-> refusal,
   tool |-> FALSE, stream |-> FALSE, fails |-> ""]
Served == {"resource_server"}
ToolWay == [WayOf(Served, "user", TRUE, 200, "") EXCEPT !.tool = TRUE, !.fails = "inside"]
MCWays ==
  {WayOf(Served \cup {"unauthenticated"}, "", FALSE, 200, ""),
   WayOf(Served, "", FALSE, 401, ""), WayOf(Served, "", TRUE, 401, ""), WayOf(Served, "", TRUE, 429, ""),
   WayOf(Served, "user", TRUE, 429, ""), WayOf(Served, "user", TRUE, 403, "bad_host"),
   WayOf({"unauthenticated"}, "operator", FALSE, 403, "bad_origin"),
   [WayOf(Served, "", TRUE, 401, "") EXCEPT !.fails = "outside"],
   ToolWay, [ToolWay EXCEPT !.stream = TRUE], [ToolWay EXCEPT !.modes = {"unauthenticated"}, !.bound = "operator"]}

\* A hosted server with its operators' listener; and each setting varied.
Hosted ==
  [transport |-> "https", scoped |-> TRUE, allowlists |-> TRUE, tls |-> "good", allowHttp |-> FALSE,
   bindHost |-> "", auth |-> Cfg, named |-> {"k1", "k2"}, exported |-> {"k1"}, table |-> {"k2"},
   keychain |-> {}, opsEnv |-> "unset", opsConfig |-> "mesh", taken |-> {}, env |-> {}]
Launched ==
  {[Hosted EXCEPT !.tls = tls, !.bindHost = host, !.auth = auth, !.allowHttp = plain, !.opsEnv = ops] :
     tls \in {"none", "good", "unreadable"}, host \in {"", "loopback", "mesh"}, plain \in BOOLEAN,
     ops \in {"unset", "", "loopback", "public", "malformed"},
     auth \in {Cfg, Loopback, [Cfg EXCEPT !.set = {"issuer"}], [Loopback EXCEPT !.allowUnauth = TRUE],
               [Cfg EXCEPT !.discovered = FALSE], [Cfg EXCEPT !.sharedToken = TRUE]}}
  \cup {[Hosted EXCEPT !.transport = t, !.scoped = scoped, !.exported = set, !.keychain = kept, !.taken = taken] :
          t \in {"stdio", "http", "other"}, scoped \in BOOLEAN, set \in {{}, {"k1"}}, kept \in {{}, {"k2"}},
          taken \in {{}, {"public"}, {"ops"}}}
Plainly == [Hosted EXCEPT !.tls = "none", !.allowHttp = TRUE, !.auth = Loopback]
MCLaunches ==
  {[l EXCEPT !.env = {"signals"}] : l \in Launched}
  \cup {[l EXCEPT !.env = {"exchanges", "signals"}] : l \in {Hosted, Plainly}}
  \cup {[l EXCEPT !.env = {"probes", "signals"}] :
          l \in {Hosted, Plainly, [Hosted EXCEPT !.allowlists = FALSE]}}
NotLaunched == [Hosted EXCEPT !.transport = "other"]

---------------------------------------------------------------------------

\* The requests of a scene; or, while no request comes, a report or a process.
NoRequests == setup.env = {} /\ \A r \in Requests : req[r].ask.verb = "none"
MCInit ==
  /\ Init
  /\ \/ ~NoRequests /\ ReportCall(NothingAsked) /\ ProcessStarts(NotLaunched)
     \/ NoRequests /\ ReportInit /\ ProcessStarts(NotLaunched)
     \/ NoRequests /\ ReportCall(NothingAsked) /\ ProcessInit
ProcessRuns == life.launch # NotLaunched
MCNext == \/ Next /\ UNCHANGED <<reportVars, processVars>>
          \/ ReportNext /\ UNCHANGED <<vars, processVars>>
          \/ ProcessRuns /\ ProcessNext /\ UNCHANGED <<vars, reportVars>>
MCSpec == MCInit /\ [][MCNext]_<<vars, reportVars, processVars>>
=============================================================================
