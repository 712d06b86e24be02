---------------------------- MODULE MCAccounting ----------------------------
(* Two tenants; a client of each and one of both, who share a principal or not. *)
EXTENDS EdgeAccounting

MCKeyOf == [ann |-> "a", bob |-> "b", cat |-> "c", dan |-> "a"]
MCPolicyOf == [ann |-> "p", bob |-> "p", cat |-> "malformed", dan |-> ""]
MCGrants == [ann |-> {"red"}, bob |-> {"red", "blue"}, cat |-> {"blue"}, dan |-> {"red"}]

Call(client, hint, tool, ticket) ==
  [client |-> client, hint |-> hint, tool |-> tool, ticket |-> ticket, entitled |-> TRUE]
Read(client, hint) == Call(client, hint, "read", "")
Bad(client) == [Read(client, "") EXCEPT !.entitled = FALSE]
None == Read("", "")

Row(n, w) == [requests |-> n, window |-> w]
NoQuotas == [tenants |-> <<>>, principals |-> <<>>, abuse |-> <<>>, unknownKey |-> FALSE]
Abuse(n, w, l) == [NoQuotas EXCEPT !.abuse = [denials |-> n, window |-> w, lock |-> l]]

Scene(table, metered, kept, env, calls, offs) ==
  [quotas |-> table, usage |-> metered, evidence |-> kept, env |-> env,
   calls |-> [r \in Requests |-> IF r \in DOMAIN calls THEN calls[r] ELSE None],
   offboards |-> [o \in Offboards |-> IF o \in DOMAIN offs THEN offs[o] ELSE ""]]
NoOff == <<>>

\* Locks: denials of three principals around the windows and the bound.
LockScenes ==
  {Scene(table, FALSE, FALSE, {"clock"}, calls, NoOff) :
     table \in {Abuse(2, 2, 2), Abuse(1, 1, 3)},
     calls \in {[r1 |-> Bad("ann"), r2 |-> Bad("dan"), r3 |-> Bad("bob"), r4 |-> Bad("cat"),
                 r5 |-> Read("ann", "")]}}

\* Windows: calls against a row of a tenant, of a principal, and without a row.
Table == [Abuse(1, 2, 2) EXCEPT !.tenants = "red" :> Row(1, 2),
                                !.principals = ("a" :> Row(1, 2)) @@ ("b" :> Row(1, 2))]
WindowScenes ==
  {Scene([Table EXCEPT !.unknownKey = u], FALSE, FALSE, {"clock"},
         [r1 |-> Read("ann", "red"), r2 |-> Read("bob", h), r3 |-> Read("cat", "")], NoOff) :
     h \in {"red", "blue"}, u \in BOOLEAN}
  \cup {Scene([Table EXCEPT !.tenants = <<>>], FALSE, FALSE, {"clock"},
              [r1 |-> Read("ann", ""), r2 |-> Read("dan", ""), r3 |-> Read("cat", "")], NoOff)}

\* The ledger: calls to one or both tenants while agents answer, repeat, leave.
LedgerScenes ==
  {Scene(NoQuotas, TRUE, FALSE, env, [r1 |-> Read("ann", ""), r2 |-> Read("bob", hint)], NoOff) :
     hint \in {"red", "blue"}, env \in {{"strays"}, {"agents"}}}
  \cup {Scene(NoQuotas, TRUE, FALSE, {},
              [r1 |-> Read("ann", ""), r2 |-> Read("bob", "red"), r3 |-> Bad("ann")], NoOff),
        Scene(NoQuotas, TRUE, FALSE, {"close"},
              [r1 |-> Call("ann", "", "write", ""), r2 |-> Call("bob", "red", "gated", "")], NoOff)}

\* The evidence of an onboarding: an answer, a refusal, a challenge and its call.
OnboardScenes ==
  {Scene(NoQuotas, FALSE, TRUE, {},
         [r1 |-> Read("ann", ""), r2 |-> Read("ann", "blue"),
          r3 |-> Call("ann", "", tool, ""), r4 |-> Call(c, "red", tool, "r3")], NoOff) :
     c \in {"ann", "bob"}, tool \in {"gated", "gated_write"}}

\* Offboardings, of one client twice or of two of one tenant, around a call.
OffboardScenes ==
  {Scene(NoQuotas, FALSE, TRUE, {"faults"}, [r1 |-> Read("ann", "")],
         [o1 |-> "ann", o2 |-> o]) : o \in {"ann", "bob", "dan"}}
  \cup {Scene(NoQuotas, FALSE, e, {"no_jti", "agents"}, [r1 |-> Call("ann", "", "write", "")],
              [o1 |-> "ann"]) : e \in BOOLEAN}

MCScenarios == LockScenes \cup WindowScenes \cup LedgerScenes \cup OnboardScenes \cup OffboardScenes
=============================================================================
