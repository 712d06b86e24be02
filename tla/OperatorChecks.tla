--------------------------- MODULE OperatorChecks ---------------------------
(***************************************************************************)
(* An operator checks a target from a process of its own: with the         *)
(* verifier, the doctor or the hosted acceptance probe.  Requests are sent *)
(* one at a time, the answers are classified, and the exit code says       *)
(* whether the target is in order.  Between two requests the target drops  *)
(* its sessions, or stops taking the token; any request may fail.          *)
(***************************************************************************)
EXTENDS SiteCatalog

CONSTANTS
  Inventory,    \* declared clients of the hosted endpoint
  ClientOrder,  \* the same, in order
  Site,         \* the site that is checked
  MaxFaults     \* requests that fail: bounds the model

ASSUME OperatorAssumption ==
  /\ MaxFaults \in Nat /\ ClientOrder \in Seq(DOMAIN Inventory)
  /\ ({0} \X {"catalog", "write", "write2"}) \subseteq Calls \ Direct

VARIABLE op     \* the check that runs

V == INSTANCE LiveVerification
D == INSTANCE Doctor
H == INSTANCE HostedAcceptance

opVars == <<setup, sessionVars, catalogVars, op>>

\* subject: the configuration and flags; holds: what the target does as it should,
\* tool and listed: the config tool's name and what the catalog says of it; live: it
\* takes the operator's token.  held, history: whether it did so when it was asked.
NewCheck(subject, holds, tool, listed) ==
  [subject |-> subject, holds |-> holds, tool |-> tool, listed |-> listed, live |-> TRUE,
   seen |-> <<>>, held |-> <<>>, faults |-> 0, tries |-> 0]

\* A process serves, or it is one of these checks, which has asked nothing yet.
OperatorInit ==
  /\ setup.check \in {"none", "verify", "doctor", "hosted"}
  /\ op = NewCheck(op.subject, op.holds, op.tool, op.listed)

Running == setup.check # "none"
Plan == CASE setup.check = "verify" -> V!VerifyPlan
          [] setup.check = "doctor" -> D!DoctorPlan
          [] setup.check = "hosted" -> H!HostedPlan(ClientOrder)

\* The site of a verification is one of its configuration.
Subject == IF setup.check = "verify" THEN op.subject[Site] ELSE op.subject

Asks(step) ==
  CASE setup.check = "verify" -> V!VerifyAsks(Subject, op.seen, step)
    [] setup.check = "doctor" -> D!DoctorAsks(Subject, op.seen, step)
    [] setup.check = "hosted" -> H!HostedAsks(Subject, op.seen, step)

Answers(step) ==
  CASE setup.check = "verify" -> V!VerifyAnswers(step, op.holds, op.live, Subject, op.seen)
    [] setup.check = "doctor" -> D!DoctorAnswers(step, op.holds, op.live, Subject, op.seen)
    [] setup.check = "hosted" -> H!HostedAnswers(step, op.holds, op.live, Subject, op.seen)

\* A request that got no answer ends the acceptance run, and no other.
Thrown == setup.check = "hosted" /\ \E step \in DOMAIN op.seen : op.seen[step] = "none"

Open == {i \in DOMAIN Plan : Plan[i] \notin DOMAIN op.seen /\ Asks(Plan[i])}
Done == Thrown \/ Open = {}

\* The step whose turn it is.
Due ==
  LET open == Open
  IN  IF Thrown THEN {} ELSE {Plan[i] : i \in {k \in open : \A j \in open : k <= j}}

With(f, step, value) == [s \in DOMAIN f \cup {step} |-> IF s = step THEN value ELSE f[s]]
Noted(step, answer, held) ==
  [op EXCEPT !.seen = With(@, step, answer), !.held = With(@, step, held), !.tries = 0]

Bridged == {V!Step("catalog"), V!Step("write"), V!Step("write2")}

Answer(step) ==
  /\ step \notin Bridged
  /\ \E answer \in Answers(step) : op' = Noted(step, answer, step \in op.holds)
  /\ UNCHANGED <<setup, sessionVars, catalogVars>>

\* A request fails: there is no answer, or one that decides nothing.
Fails(step) ==
  /\ Happens("faults") /\ step \notin Bridged /\ op.faults < MaxFaults
  /\ \E answer \in {"none", "500"} :
       op' = [Noted(step, answer, FALSE) EXCEPT !.faults = @ + 1]
  /\ UNCHANGED <<setup, sessionVars, catalogVars>>

MaxAttempts == 4

\* The acceptance probe sends a request that was throttled again.
Throttled(step) ==
  /\ setup.check = "hosted" /\ Happens("throttles") /\ (op.tries = 0 => op.faults < MaxFaults)
  /\ LET o == IF op.tries = 0 THEN op.faults + 1 ELSE op.faults
     IN  op' = IF op.tries + 1 < MaxAttempts THEN [op EXCEPT !.tries = @ + 1, !.faults = o]
               ELSE [Noted(step, "429", FALSE) EXCEPT !.faults = o]
  /\ UNCHANGED <<setup, sessionVars, catalogVars>>

TokenDies ==
  /\ Happens("dies") /\ op.live /\ op' = [op EXCEPT !.live = FALSE]
  /\ UNCHANGED <<setup, sessionVars, catalogVars>>

---------------------------------------------------------------------------
(* The config write goes through the bridge: it needs a session, which the *)
(* source may drop, and a token.                                           *)

CallOf(step) == <<0, step[2]>>

\* The name a write is tried under.
NameOf(step) ==
  IF V!Advertised(op.seen) THEN op.seen[V!Step("catalog")]
  ELSE IF step = V!Step("write") THEN "first" ELSE "second"

Refused == {"tool_error", "rpc_policy", "403"}
Replies(step) ==
  IF step = V!Step("catalog") THEN {op.listed}
  ELSE IF NameOf(step) # op.tool THEN {"rpc_standard", "404"}
  ELSE IF V!Step("write") \in op.holds THEN Refused ELSE {"served"}

Dial(step) ==
  /\ step \in Bridged /\ call[CallOf(step)].pc = "idle"
  /\ LET q == Begun(CallOf(step), "local", TRUE)
     IN  call' = [call EXCEPT ![CallOf(step)] = q] /\ shakes' = Shaking(q)
  /\ UNCHANGED <<setup, table, alive, token, drops, evicted, catalogVars, op>>

Decide(step) ==
  /\ step \in Bridged
  /\ \E value \in Replies(step) : Serve(CallOf(step), value)
  /\ UNCHANGED <<catalogVars, op>>

Heard(q) ==
  CASE q.res = "ok" -> q.value
    [] q.res = "unauthorized" -> "401"
    [] q.res = "expired" -> "404"
    [] q.res = "no_session" -> "no session"
    [] q.res = "failed" -> "none"

Hear(step) ==
  /\ step \in Bridged /\ call[CallOf(step)].pc = "done"
  /\ op' = Noted(step, Heard(call[CallOf(step)]), V!Step("write") \in op.holds)
  /\ UNCHANGED <<setup, sessionVars, catalogVars>>

OperatorStep ==
  /\ Running
  /\ \E step \in Due : \/ Answer(step) \/ Fails(step) \/ Throttled(step) \/ TokenDies
                        \/ Dial(step) \/ Decide(step) \/ Hear(step)

OperatorNext == OperatorStep \/ (Next /\ UNCHANGED op)

\* Whatever the process serves, or the operator checks.
Spec == SessionsInit /\ CatalogInit /\ OperatorInit /\ [][OperatorNext]_opVars

---------------------------------------------------------------------------
(* Properties *)

Exit ==
  CASE setup.check = "verify" -> V!VerifyExit(op.subject, Site, op.seen)
    [] setup.check = "doctor" -> D!DoctorExit(Subject, op.seen)
    [] setup.check = "hosted" -> H!HostedExit(Subject, ClientOrder, op.seen)

Claims ==
  CASE setup.check = "verify" -> V!VerifyClaims(Subject)
    [] setup.check = "doctor" -> D!DoctorClaims(Subject)
    [] setup.check = "hosted" -> H!HostedClaims(Subject, ClientOrder)

\* The step whose answer a claim is read from, and the answers that say less than
\* the report makes of them.
Source(claim) == IF setup.check = "hosted" /\ claim[2] = "gates" THEN H!Probe("accept", claim[3]) ELSE claim
TakenFor(claim) ==
  CASE setup.check = "verify" -> V!Misread(claim)
    [] setup.check = "doctor" -> D!Overlooked(claim)
    [] setup.check = "hosted" -> H!Mistaken(claim)

\* The config write reached the source, where nothing refuses it.
ConfigChanged ==
  \E step \in {V!Step("write"), V!Step("write2")} :
    NameOf(step) = op.tool /\ V!Step("write") \notin op.holds /\ call[CallOf(step)].ran > 0

\* verify.js:13, "a check that cannot run is skipped, never pass": when a check ends
\* well, everything it vouches for was asked and held when it was asked, whatever
\* failed, expired or was throttled on the way, and its own probes have changed
\* nothing.  The exceptions are the answers that the code takes for more than they
\* say (Misread, Overlooked, Mistaken).
GreenIsProven ==
  Running /\ Done /\ Exit = 0 =>
    /\ ~ConfigChanged
    /\ \A claim \in Claims :
         /\ Source(claim) \in DOMAIN op.seen
         /\ \/ op.held[Source(claim)] /\ (claim # Source(claim) => claim \in op.holds)
            \/ op.seen[Source(claim)] \in TakenFor(claim)
=============================================================================
