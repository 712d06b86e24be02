------------------------------- MODULE Doctor -------------------------------
(***************************************************************************)
(* lib/doctor.js: the gates a connection passes, in order.  A gate behind  *)
(* one that failed may be skipped, and a report without a failure is       *)
(* green, skipped gates or not.                                            *)
(***************************************************************************)
EXTENDS Naturals, Sequences

Gate(name) == <<"doctor", name>>

DoctorPlan == <<Gate("jsonapi"), Gate("origin"), Gate("token"), Gate("authed"), Gate("token again"),
                Gate("readiness")>>

Saw(seen, name, answers) == Gate(name) \in DOMAIN seen /\ seen[Gate(name)] \in answers
Missed(seen, name) == Saw(seen, name, {"none"})

---------------------------------------------------------------------------
(* What is asked *)

Probed(s) == s.url \notin {"none", "reserved"}
Reached(s, seen) == Probed(s) /\ ~Missed(seen, "origin")
HasCredential(s) == s.login \in {"oauth", "token"} /\ s.secret # "none"

\* authHeadersAsync gives headers.
HasHeaders(seen) == Saw(seen, "token", {"token"}) \/ Saw(seen, "token again", {"token"})

DoctorAsks(s, seen, step) ==
  LET name == step[2]
  IN  CASE name = "jsonapi"     -> Probed(s)
        [] name = "origin"      -> Missed(seen, "jsonapi")
        [] name = "token"       -> Reached(s, seen) /\ HasCredential(s)
        [] name = "authed"      -> Saw(seen, "token", {"token"})
        [] name = "token again" -> Reached(s, seen) /\ HasCredential(s) /\ ~HasHeaders(seen)
        [] name = "readiness"   -> Reached(s, seen)

\* live: Drupal takes the credential; the readiness route answers only who is
\* authorised, and names why the contract is not ready.
DoctorAnswers(step, holds, live, s, seen) ==
  LET name == step[2]
      enforced == step \in holds
  IN  CASE name = "jsonapi"     -> IF enforced THEN {"200", "401"} ELSE {"404"}
        [] name = "origin"      -> {"200"}
        [] name \in {"token", "token again"} -> IF Gate("token") \in holds THEN {"token"} ELSE {"refused"}
        [] name = "authed"      -> IF ~live THEN {"401"} ELSE IF enforced THEN {"200", "403"} ELSE {"404"}
        [] name = "readiness"   ->
             IF ~live \/ ~HasHeaders(seen) THEN {"401", "403"}
             ELSE IF enforced THEN {"ready", "ready+skew"} ELSE {"not ready", "unregistered", "403", "404", "odd"}

---------------------------------------------------------------------------
(* The report *)

Reachability(s, seen) == IF Reached(s, seen) THEN "pass" ELSE "fail"

Auth(s, seen) ==
  CASE ~Reached(s, seen) -> "skipped"
    [] Reached(s, seen) /\ ~Saw(seen, "token", {"token"}) -> "fail"
    [] OTHER -> IF Saw(seen, "authed", {"none", "401", "404"}) THEN "fail" ELSE "pass"

\* A source that has no contract is skipped where none is required; one that
\* refuses to say, or says that it is not ready, fails in any case.
Readiness(s, seen) ==
  CASE ~Reached(s, seen) -> "skipped"
    [] Saw(seen, "readiness", {"ready", "ready+skew"}) -> "pass"
    [] Saw(seen, "readiness", {"401", "403", "not ready", "unregistered"}) -> "fail"
    [] OTHER -> IF s.governed THEN "fail" ELSE "skipped"

\* The gate is judged before readiness, which may replace the verdict.
AgentClient(s, seen) ==
  IF Saw(seen, "readiness", {"unregistered"}) \/ s.agent = "" THEN "fail" ELSE "pass"

Allowlist(s) == IF s.url = "none" THEN "skipped" ELSE IF s.nodes THEN "pass" ELSE "fail"

VersionSkew(seen) ==
  IF Saw(seen, "readiness", {"ready+skew"}) THEN "fail"
  ELSE IF Saw(seen, "readiness", {"ready"}) THEN "pass" ELSE "skipped"

Gates(s, seen) ==
  <<Reachability(s, seen), Auth(s, seen), AgentClient(s, seen), Allowlist(s), Readiness(s, seen),
    VersionSkew(seen)>>

DoctorExit(s, seen) == IF \E i \in DOMAIN Gates(s, seen) : Gates(s, seen)[i] = "fail" THEN 1 ELSE 0

DoctorClaims(s) == {Gate("authed")} \cup (IF s.governed THEN {Gate("readiness")} ELSE {})

\* Any answer but 401 and 404 counts as an accepted credential.
Overlooked(step) == IF step = Gate("authed") THEN {"500"} ELSE {}
=============================================================================
