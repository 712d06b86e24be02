----------------------------- MODULE MCCatalog -----------------------------
(***************************************************************************)
(* One site: a network principal with two clients and a stdio operator,    *)
(* whose budget key is not its catalog key; at most two walks, three calls *)
(* outside them, and two times the source drops its sessions.  In the      *)
(* setups that name a check an operator checks the target, and nobody else *)
(* uses it; the target does everything it should, or all but one thing.    *)
(***************************************************************************)
EXTENDS OperatorChecks

MCPrincipals == {"net", "local"}
MCBudgetKey == [p \in MCPrincipals |-> IF p = "local" THEN "local-operator" ELSE p]
MCClients == {"c1", "c2"}
MCPrincipalOf == [c1 |-> "net", c2 |-> "local"]
MCDirect == {<<0, "a">>, <<0, "b">>, <<0, "c">>}
MCCalls == ((1..MaxWalks) \X {"tools", "prompts"}) \cup MCDirect \cup (({0}) \X {"catalog", "write", "write2"})

Setup(surface, clients, reach, callers, env) ==
  [surface |-> surface, clients |-> clients, reach |-> reach, callers |-> callers, env |-> env,
   check |-> "none"]
Checking(check, env) == [Setup({}, {}, {}, {}, env) EXCEPT !.check = check]

Two == {<<0, "a">>, <<0, "b">>}

\* Two calls of one principal, and another's, whose session pushes theirs out.
Crowd == (Two \X {"net"}) \cup {<<<<0, "c">>, "local">>}

Setups ==
  {Setup(Kinds, {"c1"}, {"c1"}, {}, {"ages", "advert"}),
   Setup(Kinds, {"c1"}, {"c1"}, {}, {"drops", "again"}),
   Setup({"tools"}, {"c1"}, {"c1"}, Two \X {"net"}, {"drops"}),
   Setup({"prompts"}, {"c1"}, {"c1"}, {<<<<0, "a">>, "net">>}, {"drops", "faults"}),
   Setup({"prompts"}, {"c1", "c2"}, {"c2"}, {}, {"ages"}),
   Setup({"tools"}, {"c1"}, {"c1"}, {}, {"ages", "faults", "shutdown"}),
   Setup({}, {"c2"}, MCClients, Two \X {"net"}, {"drops", "again", "faults"}),
   Setup({}, {}, {}, Two \X MCPrincipals, {"drops", "again", "tokens"}),
   Setup({}, {}, {}, Crowd, {"drops"})}

Checkups ==
  {Checking("verify", {"faults"}), Checking("verify", {"dies"}), Checking("verify", {"drops", "tokens"}),
   Checking("doctor", {"faults", "dies"}), Checking("hosted", {}),
   Checking("hosted", {"faults", "dies", "throttles"})}

---------------------------------------------------------------------------
(* What is checked *)

MCInventory == [cursor |-> [always |-> TRUE, cimd |-> TRUE], claude |-> [always |-> FALSE, cimd |-> FALSE]]
MCClientOrder == <<"cursor", "claude">>

Content == [url |-> "https", login |-> "oauth", client |-> "agent", secret |-> "env",
            scopes |-> {"mcp_read", "mcp_write"}, secureAuth |-> TRUE, governed |-> TRUE, preset |-> "strict",
            neutral |-> TRUE, bridge |-> TRUE, target |-> TRUE]
Configs ==
  {[main |-> Content], [main |-> [Content EXCEPT !.target = FALSE]],
   [main |-> [Content EXCEPT !.scopes = {"mcp_read"}, !.bridge = FALSE]],
   [main |-> [Content EXCEPT !.scopes = {"mcp_config"}, !.governed = FALSE, !.url = "loopback", !.preset = "development"]],
   [main |-> Content, spare |-> Content], [main |-> [Content EXCEPT !.neutral = FALSE]],
   [main |-> [Content EXCEPT !.login = "token"]], [main |-> [Content EXCEPT !.scopes = {}]]}

Plain == [url |-> "https", login |-> "token", secret |-> "env", governed |-> TRUE, agent |-> "cursor", nodes |-> TRUE]
Doctored ==
  {Plain, [Plain EXCEPT !.governed = FALSE], [Plain EXCEPT !.login = "oauth"], [Plain EXCEPT !.login = "none"],
   [Plain EXCEPT !.agent = ""], [Plain EXCEPT !.nodes = FALSE], [Plain EXCEPT !.url = "reserved"]}

Signed == [provisioned |-> TRUE, token |-> TRUE, secret |-> FALSE, require |-> TRUE, denied |-> {"expired"}]
Flags ==
  {Signed, [Signed EXCEPT !.provisioned = FALSE, !.token = FALSE, !.require = FALSE, !.denied = {}],
   [Signed EXCEPT !.token = FALSE, !.secret = TRUE, !.denied = {"wrong-audience"}]}

\* One thing is out of the ordinary: the configuration, the target or its catalog.
Cases(usual, subjects, targets, catalogs) ==
  {<<s, Range(Plan), <<"first", "first">>>> : s \in subjects}
  \cup {<<usual, Range(Plan) \ {step}, <<"first", "first">>>> : step \in targets}
  \cup {<<usual, Range(Plan), names>> : names \in catalogs}
  \cup {<<usual, Range(Plan) \ {V!Step("write")}, names>> : names \in catalogs}

Catalogs == {<<"second", "second">>, <<"second", "none">>, <<"first", "malformed">>}

Init ==
  /\ setup \in Setups \cup Checkups /\ SessionsInit /\ CatalogInit
  /\ CASE setup.check = "none" -> op = NewCheck(<<>>, {}, "none", "none")
       [] setup.check = "verify" ->
            \E c \in Cases([main |-> Content], IF Happens("drops") THEN {} ELSE Configs,
                          IF Happens("drops") THEN {} ELSE Range(Plan), Catalogs) : op = NewCheck(c[1], c[2], c[3][1], c[3][2])
       [] setup.check = "doctor" ->
            \E c \in Cases(Plain, Doctored, Range(Plan), {}) : op = NewCheck(c[1], c[2], c[3][1], c[3][2])
       [] setup.check = "hosted" ->
            \E c \in Cases(Signed, Flags, IF setup.env = {} THEN Range(Plan) ELSE {}, {}) : op = NewCheck(c[1], c[2], c[3][1], c[3][2])
  /\ OperatorInit
MCSpec == Init /\ [][OperatorNext]_opVars
=============================================================================
