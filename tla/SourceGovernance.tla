-------------------------- MODULE SourceGovernance --------------------------
(***************************************************************************)
(* The verdict about a governed site: a cache, one shared readiness probe, *)
(* and the calls and tool listings that wait for it.  A verdict is as old  *)
(* as the start of its probe.                                              *)
(***************************************************************************)
EXTENDS RequestHost

GovernanceInit ==
  gov = [now |-> 1, ready |-> TRUE, readyAt |-> 1, turns |-> 0,
         cached |-> NoVerdict, probe |-> NoProbe]

Governed(s) == SiteConfig[s].governed

\* verifySourceGovernance: a verdict within its age, a probe to join, or a new
\* probe.
Fresh == gov.cached.known /\ gov.now - gov.cached.at <= IF gov.cached.ok THEN OkTtl ELSE FailTtl

JoinOrProbe ==
  gov' = IF gov.probe # NoProbe THEN gov
         ELSE [gov EXCEPT !.probe = [at |-> gov.now, answer |-> "pending"]]

\* The source answers; its answer is on the way.  Or the credentials, the
\* network or the body fail, which counts as a refusal.
SourceAnswers ==
  /\ gov.probe.answer = "pending"
  /\ \E a \in {IF gov.ready THEN "ready" ELSE "refused"}
              \cup IF Happens("clock") THEN {"failed"} ELSE {} :
       gov' = [gov EXCEPT !.probe.answer = a]
  /\ UNCHANGED <<setup, req, sessionVars, callVars, world>>

Probed == gov.probe.answer \in {"ready", "refused", "failed"}
VerdictM1 == [ok |-> gov.probe.answer = "ready", at |-> gov.now, known |-> TRUE]

Verdict == [ok |-> gov.probe.answer = "ready", at |-> gov.probe.at, known |-> TRUE]

\* How long ago the source was last ready.
Lag == IF gov.ready THEN 0 ELSE gov.now - gov.readyAt

\* A listing gives up after its own wait; the probe goes on.
ListingGivesUp(r) ==
  /\ At(r, "listing")
  /\ Ends(r, "diagnostics")
  /\ UNCHANGED <<setup, sessionVars, callVars, world, gov>>

\* filterDiscoverableTools for one governed site.
ListTools(r) ==
  /\ At(r, "handed") /\ Ask(r).verb = "list"
  /\ IF ~Governed(DefaultSite) THEN Ends(r, "tools") /\ UNCHANGED gov
     ELSE IF Fresh THEN Ends(r, IF gov.cached.ok THEN "tools" ELSE "diagnostics") /\ UNCHANGED gov
     ELSE Goes(r, "listing") /\ JoinOrProbe
  /\ UNCHANGED <<setup, sessionVars, callVars, world>>
=============================================================================
