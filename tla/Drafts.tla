------------------------------- MODULE Drafts -------------------------------
(***************************************************************************)
(* The governed writes together: several tool calls, an editor at work in  *)
(* Drupal, and requests that are late, refused or lost, on one host.       *)
(***************************************************************************)
EXTENDS NestedDraft, GuardedPatch, CanonicalDraft

CONSTANT Scenarios  \* which tool each call uses, and on which slot

ASSUME ScenarioAssumption ==
  \A s \in Scenarios :
    s.tool \in [Calls -> Tools] /\ s.slot \in [Calls -> Slots] /\ s.published \in BOOLEAN

Init ==
  /\ \E s \in Scenarios :
       /\ HostInit(s.published)
       /\ call = [c \in Calls |-> NewCall(s.tool[c], s.slot[c])]
  /\ wire = [c \in Calls |-> NoRequest]

Environment ==
  \/ \E pub \in BOOLEAN : EditorSaves(pub)
  \/ EditorDiscards \/ EditorRenames

Next ==
  \/ \E c \in Calls : NestedNext(c)
  \/ \E c \in Calls : PatchNext(c)
  \/ \E c \in Calls : CanonicalNext(c)
  \/ \E c \in Calls : Handle(c) \/ Lose(c)
  \/ Environment

Spec == Init /\ [][Next]_vars

---------------------------------------------------------------------------
(* Properties *)

\* The published revision is a person's, or replaces one nobody had published,
\* or is the update of a call whose own first read did not show it a published
\* host.  (An unreadable host, or one that is published after that read, is
\* updated in place: moderation-default.js fails open.)
AgentNeverPublishes ==
  \A r \in DOMAIN revs :
    revs[r].by \in Calls /\ revs[r].pub =>
      LET c == revs[r].by IN call[c].tool \in {"patch", "canonical"} /\ call[c].seen # "published"

\* A draft save keeps every component of the working copy it lands on, except
\* the one its call replaces: no other draft is lost, also when the save lands
\* after its call has given up.  (nested-draft.js:254, draftPatchHeaders)
NoLostDraft ==
  \A r \in DOMAIN revs : revs[r].by \in Calls =>
    \A s \in Slots \ {call[revs[r].by].slot} :
      revs[r].pins[s].id = revs[revs[r].prev].pins[s].id

\* A call that reports success has its work in Drupal: its own save, or the
\* parent it was to pin, and the revision it names has that work in its line.
\* (A canonical update names whatever draft it finds afterwards; it only claims
\* that it saved.)  A bulk call counts every entity that it knows to exist as
\* created, also one whose row is a failure; a rename leaves its redirect only
\* when it has seen the new alias in place of the old one after its write.
\* (nested-draft.js:794, bulk.js:68, nodes.js:562)
SavedOrPinned(c) ==
  \/ \E r \in DOMAIN revs :
       revs[r].by = c /\ (call[c].tool = "canonical" \/ r \in Line(call[c].vid))
  \/ /\ call[c].tool \in Nested
     /\ revs[call[c].vid].pins[call[c].slot].id = call[c].parent
FinishedMeansLanded ==
  \A c \in Calls :
    /\ call[c].out = "finished" =>
         CASE call[c].tool = "bulk" -> TRUE
           [] call[c].tool = "patch" -> call[c].heard = {call[c].path}
           [] OTHER -> SavedOrPinned(c)
    /\ call[c].tool = "bulk" => call[c].created = Cardinality(call[c].heard)

\* Every paragraph Drupal confirmed to a call is in the result of that call,
\* whatever failed afterwards: it is unreferenced, and nobody else knows it.
\* (A site that drops its draft route between the inventory and the write is
\* the exception: nested-draft.js:270 passes that error on alone.)
EveryPreparedReported ==
  \A c \in Calls : Ended(c) /\ call[c].out # "missing" =>
    call[c].heard \cap call[c].made
      \subseteq IF call[c].out \in {"refused", "failed"} THEN {} ELSE call[c].told

\* A call that reports a refusal has written nothing and never will: no
\* revision of it exists, and no request of it is still on its way.
RefusedWroteNothing ==
  \A c \in Calls : call[c].out = "refused" =>
    /\ \A r \in DOMAIN revs : revs[r].by # c
    /\ wire[c] = NoRequest /\ call[c].made = {}
=============================================================================
