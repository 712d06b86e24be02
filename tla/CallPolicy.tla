----------------------------- MODULE CallPolicy -----------------------------
(***************************************************************************)
(* Which site a tool call goes to and whether the connector lets it: the   *)
(* scope table, the principal's grants, the site's security policy, and    *)
(* the checks the handlers make themselves.                                *)
(*                                                                         *)
(* The tools are one of each kind the code treats differently; entity      *)
(* types are the groups security.js puts them in.                          *)
(***************************************************************************)
EXTENDS Admission

CONSTANTS
  Sites,        \* configured sites
  SiteConfig,   \* what the operator configured for each
  DefaultSite,
  GrantTable    \* grants by client; without a table the token's claim counts

ASSUME PolicyAssumption ==
  IsFiniteSet(Sites) /\ DefaultSite \in Sites /\ Sites \subseteq DOMAIN SiteConfig

---------------------------------------------------------------------------
(* The security policy of a site *)

\* node, media, taxonomy_term; CONTENT_STRUCTURAL without the files; file;
\* SITE_BUILDER_CONFIG; SENSITIVE_DENY without the accounts; user.
Types == {"content", "structural", "file", "builder", "secret", "user"}
Content == {"content", "structural", "file"}
Sensitive == {"secret", "user"}

Preset(readOnly, open, configRead, configWrite, allowed, denied, rules) ==
  [readOnly |-> readOnly, allowDestructive |-> open, allowPublish |-> open,
   allowGraphql |-> open, allowGraphqlMutations |-> open,
   allowConfigRead |-> configRead, allowConfigWrite |-> configWrite,
   allowed |-> allowed, denied |-> denied, rules |-> rules]

Presets ==
  LET noRules == <<>>
      noDelete == ("content" :> [operations |-> {"read", "create", "update"}]) @@
                  ("file" :> [operations |-> {"read", "create"}])
  IN  ("development"       :> Preset(FALSE, TRUE, TRUE, TRUE, Types, {}, noRules)) @@
      ("content-editor"    :> Preset(FALSE, FALSE, TRUE, FALSE, Content, Sensitive, noDelete)) @@
      ("config-editor"     :> Preset(FALSE, FALSE, TRUE, TRUE, Content \cup {"builder"},
                                     Sensitive, noDelete)) @@
      ("auditor"           :> Preset(TRUE, FALSE, TRUE, FALSE, Types, Sensitive,
                                     "user" :> [operations |-> {"read"}])) @@
      ("production-strict" :> Preset(TRUE, FALSE, FALSE, FALSE, Types, Sensitive, noRules)) @@
      ("write-plane"       :> Preset(FALSE, FALSE, TRUE, FALSE, Content, Sensitive, noRules))

\* The rule of a type: operations, deniedBundles and allowedBundles, each of
\* them only where it is configured.
RuleOf(p, type) == IF type \in DOMAIN p.rules THEN p.rules[type] ELSE <<>>

\* resolveSecurityConfig: the operator's own keys over the preset; an unknown
\* or absent preset is the strictest one; the rules are merged type by type, and
\* within a type key by key.
Policy(s) ==
  LET own == SiteConfig[s].security
      preset == Presets[IF SiteConfig[s].preset \in DOMAIN Presets
                        THEN SiteConfig[s].preset ELSE "production-strict"]
      rules == IF "rules" \in DOMAIN own
               THEN [t \in DOMAIN own.rules |-> own.rules[t] @@ RuleOf(preset, t)] @@ preset.rules
               ELSE preset.rules
  IN  ("rules" :> rules) @@ own @@ preset

TypeAllowed(p, type) == type \notin p.denied /\ type \in p.allowed
OperationAllowed(p, verb, type) ==
  "operations" \in DOMAIN RuleOf(p, type) => verb \in RuleOf(p, type).operations

\* A call that names no bundle is not checked for one.
BundleAllowed(p, type, bundle) ==
  LET rule == RuleOf(p, type)
  IN  bundle # "" => /\ "deniedBundles" \in DOMAIN rule => bundle \notin rule.deniedBundles
                     /\ "allowedBundles" \in DOMAIN rule => bundle \in rule.allowedBundles

ReadAllowed(p, type, bundle) ==
  TypeAllowed(p, type) /\ BundleAllowed(p, type, bundle) /\ OperationAllowed(p, "read", type)
WriteAllowedM1(p, verb, type, bundle) ==
  TypeAllowed(p, type) /\ BundleAllowed(p, type, bundle) /\ OperationAllowed(p, verb, type)
WriteAllowed(p, verb, type, bundle) ==
  /\ ~p.readOnly /\ TypeAllowed(p, type)
  /\ BundleAllowed(p, type, bundle) /\ OperationAllowed(p, verb, type)
DeleteAllowed(p, type, bundle) == p.allowDestructive /\ WriteAllowed(p, "delete", type, bundle)

\* assertGraphqlMutationAllowed
GraphqlAllowed(p, mutation) ==
  p.allowGraphql /\ (mutation => ~p.readOnly /\ p.allowGraphqlMutations)

\* hasScope: naming no scopes grants none on a governed or OAuth site, and
\* everything on a site that has no scopes to name.
SiteHasScope(s, scope) ==
  IF SiteConfig[s].scopes # {} THEN scope \in SiteConfig[s].scopes
  ELSE ~SiteConfig[s].governed /\ ~SiteConfig[s].oauth

---------------------------------------------------------------------------
(* The tools *)

\* op: inferOperation.  The generic entity tools count as reads there and are
\* checked in their handlers.  via: how a write reaches Drupal.
Tool(op, verb, scope, via) == [op |-> op, verb |-> verb, scope |-> scope, via |-> via]

ToolTable ==
  [drupal_get_node      |-> Tool("read", "read", "mcp_read", "http"),
   drupal_update_node   |-> Tool("write", "update", "mcp_write", "http"),
   drupal_delete_node   |-> Tool("delete", "delete", "mcp_write", "http"),
   drupal_entity_update |-> Tool("read", "update", "mcp_write", "http"),
   drupal_entity_delete |-> Tool("read", "delete", "mcp_write", "http"),
   drupal_graphql       |-> Tool("graphql", "graphql", "mcp_read", "http"),
   drupal_config_set    |-> Tool("write", "config", "mcp_config", "bridge"),
   drupal_drush_cron    |-> Tool("write", "drush", "mcp_write", "drush"),
   drupal_mcp_whoami    |-> Tool("read", "read", "mcp_read", "none"),
   drupal_list_sites    |-> Tool("read", "read", "mcp_read", "none"),
   drupal_governance_status |-> Tool("read", "read", "mcp_read", "none")]

Diagnostic == {"drupal_list_sites", "drupal_governance_status"}
Generic == {"drupal_entity_update", "drupal_entity_delete"}

WriteLikeTool(tool) == tool \in Generic \/ ToolTable[tool].op \in {"write", "delete"}
WriteLike(k) == WriteLikeTool(k.tool) \/ (ToolTable[k.tool].op = "graphql" /\ k.mutation)

\* networkToolScopeDenial: a tool without a row is refused on the network.
Scoped(tool) == tool \in DOMAIN ToolTable

\* principalHasScope, requiredScopeForCall
HoldsScope(id, scope) ==
  scope \in id.scopes \/ (scope = "mcp_config_read" /\ "mcp_config" \in id.scopes)
CallScope(k) == IF ToolTable[k.tool].op = "graphql" /\ k.mutation THEN "mcp_write"
                ELSE ToolTable[k.tool].scope

---------------------------------------------------------------------------
(* The principal's grants and the target *)

Granted(id) ==
  IF id.local THEN Sites
  ELSE Sites \cap IF GrantTable.set
                  THEN (IF id.client \in DOMAIN GrantTable.of THEN GrantTable.of[id.client] ELSE {})
                  ELSE id.sites

\* siteAllowsTool: what a site's policy lets be listed and called.
SiteAllowsTool(s, tool) ==
  LET p == Policy(s)
  IN  CASE tool = "drupal_graphql" -> p.allowGraphql
        [] tool = "drupal_config_set" -> p.allowConfigWrite /\ ~p.readOnly
        [] OTHER ->
             /\ WriteLikeTool(tool) => ~p.readOnly
             /\ ToolTable[tool].verb = "delete" => p.allowDestructive

\* principalMayUseTool: it is enough that one granted site allows the tool.
MayUse(id, tool) ==
  \/ id.local \/ tool \in Diagnostic
  \/ /\ HoldsScope(id, ToolTable[tool].scope)
     /\ \E s \in Granted(id) : SiteAllowsTool(s, tool)

\* resolveAuthoritativeTarget.  hint "" is a call that names no site.
NoTarget == [site |-> "", by |-> "none"]
Target(id, hint) ==
  LET granted == Granted(id)
  IN  CASE hint # "" -> IF hint \in granted THEN [site |-> hint, by |-> "hint"] ELSE NoTarget
        [] hint = "" /\ DefaultSite \in granted -> [site |-> DefaultSite, by |-> "default"]
        [] hint = "" /\ DefaultSite \notin granted /\ Cardinality(granted) = 1 ->
             [site |-> CHOOSE s \in granted : TRUE, by |-> "grant"]
        [] OTHER -> NoTarget

\* The local operator has no target of its own: the call goes to the site it
\* names, or the default, without a check of how that was chosen.
LocalTarget(hint) ==
  IF hint = "" THEN [site |-> DefaultSite, by |-> "operator"]
  ELSE IF hint \in Sites THEN [site |-> hint, by |-> "operator"] ELSE NoTarget

\* assertFrozenPrincipal: a network principal has a key and a tenant.
Frozen(id) == id.local \/ (id.key # <<>> /\ id.tenant # "")

\* assertExplicitSiteForWrite
SiteIsExplicit(k, target) ==
  target.by = "default" /\ Cardinality(Sites) > 1 => ~WriteLike(k)

\* The checks before governance: principal, scope, entitlement and target.
Entitled(id, k) ==
  /\ Scoped(k.tool) /\ Frozen(id)
  /\ MayUse(id, k.tool)
  /\ id.local \/ k.tool \in Diagnostic \/ HoldsScope(id, CallScope(k))

CallTarget(id, k) ==
  LET target == IF id.local THEN LocalTarget(k.hint) ELSE Target(id, k.hint)
  IN  IF Entitled(id, k) /\ SiteIsExplicit(k, target) THEN target ELSE NoTarget

---------------------------------------------------------------------------
(* After governance *)

\* The operation gate of assertCallAllowed.
DispatchAllows(s, k) ==
  LET p == Policy(s)
      op == ToolTable[k.tool].op
  IN  /\ op = "delete" => p.allowDestructive
      /\ op \in {"write", "delete"} => ~p.readOnly
      /\ op = "graphql" => GraphqlAllowed(p, k.mutation)

\* What the tool's own handler checks before it touches Drupal.  One that reads
\* nothing there checks nothing.
HandlerAllows(s, k) ==
  LET p == Policy(s)
      verb == ToolTable[k.tool].verb
  IN  CASE verb = "update" -> /\ WriteAllowed(p, "update", k.type, k.bundle)
                              /\ k.publish => p.allowPublish
        [] verb = "delete" -> DeleteAllowed(p, k.type, k.bundle)
        [] verb = "graphql" -> GraphqlAllowed(p, k.mutation)
        [] verb = "config" -> SiteHasScope(s, "mcp_config") /\ ~p.readOnly /\ p.allowConfigWrite
        [] verb = "drush" -> ~p.readOnly
        [] OTHER -> ToolTable[k.tool].via = "none" \/ ReadAllowed(p, k.type, k.bundle)
=============================================================================
