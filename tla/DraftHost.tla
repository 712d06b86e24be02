----------------------------- MODULE DraftHost -----------------------------
(***************************************************************************)
(* One moderated Drupal host entity, as the governed draft writes of the   *)
(* connector see it, and the bookkeeping those writes share.               *)
(*                                                                         *)
(* Drupal is external: its revisions, the If-Match precondition of the     *)
(* mcp-draft route, core's refusal to PATCH under a working copy, and the  *)
(* new revision Entity Reference Revisions may give every paragraph when   *)
(* its host is saved.  A request is handled when Drupal gets to it, which  *)
(* may be after the call that sent it has given up waiting.                *)
(***************************************************************************)
EXTENDS Naturals, Sequences, FiniteSets

CONSTANTS
  Calls,     \* tool calls that write to the host
  Slots,     \* positions of the host's paragraph field
  Editor,    \* a person at work in Drupal
  MaxRevs,   \* revisions the host can come to have: bounds the model
  MaxEdits   \* saves the editor makes: bounds the model

ASSUME HostAssumption ==
  /\ MaxRevs \in Nat \ {0} /\ MaxEdits \in Nat
  /\ Editor \notin Calls /\ Slots \subseteq Nat \ {0}

VARIABLES
  revs,   \* the host's revisions; a revision id is an index
  live,   \* the default revision
  work,   \* the working copy: live when there is no forward revision
  alias,  \* the path_alias row, which no revision holds
  edits,  \* saves of the editor so far
  call,   \* each call's progress
  wire    \* each call's write request, until Drupal has handled it

host == <<revs, live, work, alias, edits>>
vars == <<host, call, wire>>

Aliases == {"old", "new", "auto"}
Tools == {"nested", "resume", "atomic", "component", "patch", "translation",
          "canonical", "bulk"}

\* Who made a paragraph and for which position; and the revision a pin names.
Original(s) == <<Editor, s>>
Made(c, s) == <<c, s>>
Pin(id, rev) == [id |-> id, rev |-> rev]

\* A paragraph's default revision is the newest one a host revision pins.
ParagraphRevision(id) ==
  LET pinned == {revs[r].pins[s].rev : r \in DOMAIN revs, s \in Slots}
      of == {n \in pinned : \E r \in DOMAIN revs, s \in Slots : revs[r].pins[s] = Pin(id, n)}
  IN  IF of = {} THEN 1 ELSE CHOOSE n \in of : \A m \in of : m <= n

NoRequest == [kind |-> "none"]

\* out is what a call ends with: "refused" and "finished" claim an outcome; "partial"
\* names what was prepared; "uncertain" asks for a re-read; "failed" passes an
\* error on; "missing" is the answer of a site without the draft route.
NewCall(tool, s) ==
  [tool |-> tool, slot |-> s, pc |-> "start",
   live |-> 0, work |-> 0,           \* the revision pair it goes by; work 0: no draft
   seen |-> "unread",                \* the host as its first read found it
   parent |-> <<>>, rev |-> 1,       \* the paragraph it wants pinned, and its revision
   made |-> {}, heard |-> {},        \* paragraphs it created; those Drupal told it of
   told |-> {},                      \* paragraphs it will report
   created |-> 0,                    \* the count its summary gives
   reply |-> "none",                 \* how its write request ended for it
   path |-> "none",                  \* the alias its write carries
   redirect |-> FALSE,               \* it left a redirect from the old alias
   out |-> "none", vid |-> 0]        \* its result and the revision that names

HostInit(pub) ==
  /\ revs = <<[pins |-> [s \in Slots |-> Pin(Original(s), 1)], pub |-> pub,
               by |-> Editor, prev |-> 0]>>
  /\ live = 1 /\ work = 1 /\ alias = "old" /\ edits = 0

---------------------------------------------------------------------------
(* Drupal *)

Room == Len(revs) < MaxRevs

\* Entity Reference Revisions gives each paragraph of a saved host a new
\* revision, or leaves the pins alone.
Saved(pins) == {pins, [s \in Slots |-> [pins[s] EXCEPT !.rev = @ + 1]]}

\* A new revision on top of the working copy.  It stays beside the published
\* one unless that one is no longer, or not yet, published.
Save(who, pins, pub) ==
  \E p \in Saved(pins) :
    /\ revs' = Append(revs, [pins |-> p, pub |-> pub, by |-> who, prev |-> work])
    /\ work' = Len(revs) + 1
    /\ live' = IF pub \/ ~revs[live].pub THEN Len(revs) + 1 ELSE live

\* If-Match: "live" when no draft is to exist, "live:working" otherwise.
Matches(q) == q.live = live /\ work = IF q.work = 0 THEN live ELSE q.work

\* The pins of the revision that a request saves.
PinsAfter(c, q) ==
  CASE q.edit = "set" -> q.pins
    [] q.edit = "swap" -> [revs[work].pins EXCEPT ![call[c].slot] = Pin(Made(c, call[c].slot), 1)]
    [] q.edit = "component" -> [revs[work].pins EXCEPT ![call[c].slot].rev = @ + 1]
    [] OTHER -> revs[work].pins

\* The alias a request carries is written at once; Pathauto may answer with
\* one of its own.
WriteAlias(q) == IF q.path = "none" THEN alias' = alias ELSE alias' \in {q.path, "auto"}

\* Drupal saves what the request asks for.  A core PATCH that names no state
\* keeps the state the host is in.
Applies(c, q) ==
  /\ Room
  /\ IF q.kind = "draft" THEN Matches(q) ELSE work = live
  /\ Save(c, PinsAfter(c, q), q.kind = "core" /\ ~q.draft /\ revs[live].pub)
  /\ WriteAlias(q)
  /\ UNCHANGED edits

\* Drupal handles a request.  The answer reaches the call if it still waits;
\* a failed answer says nothing about the save.
Handle(c) ==
  LET Answer(kinds) == \E k \in kinds :
        call' = IF call[c].reply = "none" /\ call[c].pc = "wait"
                THEN [call EXCEPT ![c].reply = k] ELSE call
  IN  /\ wire[c].kind \in {"draft", "core"}
      /\ wire' = [wire EXCEPT ![c] = NoRequest]
      /\ \/ Applies(c, wire[c]) /\ Answer({"ok", "failed"})
         \/ UNCHANGED host /\ Answer({"refused", "failed"})
         \/ wire[c].kind = "draft" /\ UNCHANGED host /\ Answer({"missing"})

\* drupalFetch gives up, or the connection breaks: the request is not undone.
Lose(c) ==
  /\ call[c].pc = "wait" /\ call[c].reply = "none"
  /\ call' = [call EXCEPT ![c].reply = "lost"]
  /\ UNCHANGED <<host, wire>>

\* The editor saves a draft, publishes the working copy, throws the forward
\* revision away, or renames the alias.
EditorSaves(pub) ==
  /\ Room /\ edits < MaxEdits
  /\ Save(Editor, revs[work].pins, pub)
  /\ edits' = edits + 1
  /\ UNCHANGED <<alias, call, wire>>

EditorDiscards ==
  /\ work # live /\ edits < MaxEdits
  /\ work' = live /\ edits' = edits + 1
  /\ UNCHANGED <<revs, live, alias, call, wire>>

EditorRenames ==
  /\ \E c \in Calls : call[c].tool = "patch"
  /\ edits < MaxEdits /\ alias # "new"
  /\ alias' = "new" /\ edits' = edits + 1
  /\ UNCHANGED <<revs, live, work, call, wire>>

---------------------------------------------------------------------------
(* Steps the calls share *)

At(c, tools, pc) == call[c].tool \in tools /\ call[c].pc = pc

Ended(c) == call[c].out # "none"

\* The call ends, and its locals with it.
Ending(c, out, vid) ==
  [call EXCEPT ![c].pc = "done", ![c].out = out, ![c].vid = vid,
               ![c].live = 0, ![c].work = 0, ![c].reply = "none"]
End(c, out) == call' = Ending(c, out, 0)
FinishM1(c, vid) == call' = Ending(c, "finished", vid + 1)
Finish(c, vid) == call' = Ending(c, "finished", vid)

\* readNodeDraftInventory: one answer that names the live and the working
\* revision.  0 stands for a host without a forward revision.
InventoryWork == IF work = live THEN 0 ELSE work

\* draftPatchHeaders
DraftRequest(c, edit, pins, path) ==
  [kind |-> "draft", live |-> call[c].live, work |-> call[c].work,
   edit |-> edit, pins |-> pins, path |-> path, draft |-> TRUE]

\* A core PATCH, which no precondition protects.
CoreRequest(path, draft) ==
  [kind |-> "core", live |-> 0, work |-> 0, edit |-> "none", pins |-> <<>>,
   path |-> path, draft |-> draft]

Send(c, q) ==
  /\ wire' = [wire EXCEPT ![c] = q]
  /\ call' = [call EXCEPT ![c].pc = "wait", ![c].reply = "none"]
  /\ UNCHANGED host

\* r and the revisions it was saved on top of, one after another.
Line(r) ==
  {n \in DOMAIN revs :
     \A S \in SUBSET DOMAIN revs :
       r \in S /\ (\A m \in S : revs[m].prev # 0 => revs[m].prev \in S) => n \in S}
=============================================================================
