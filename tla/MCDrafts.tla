------------------------------ MODULE MCDrafts ------------------------------
(* Two calls and an editor on a host with two components. *)
EXTENDS Drafts

CONSTANTS c1, c2

Scenario(t1, s1, t2, s2, pub) ==
  [tool |-> [c \in Calls |-> IF c = c1 THEN t1 ELSE t2],
   slot |-> [c \in Calls |-> IF c = c1 THEN s1 ELSE s2], published |-> pub]

\* A nested draft against other writes on another component and on its own, and
\* its recovery; the updates that read before they write, on a published host
\* and on one nobody has published.
MCScenarios ==
  {Scenario("nested", 1, "nested", 2, TRUE), Scenario("nested", 1, "resume", 1, TRUE),
   Scenario("nested", 1, "component", 1, TRUE), Scenario("atomic", 1, "atomic", 2, TRUE),
   Scenario("canonical", 1, "canonical", 2, TRUE), Scenario("canonical", 1, "canonical", 2, FALSE),
   Scenario("patch", 1, "atomic", 2, TRUE), Scenario("patch", 1, "patch", 2, FALSE),
   Scenario("bulk", 1, "translation", 2, TRUE)}
=============================================================================
