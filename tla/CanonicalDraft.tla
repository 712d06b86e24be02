--------------------------- MODULE CanonicalDraft ---------------------------
(***************************************************************************)
(* Updates of a moderated block or library item                            *)
(* (src/lib/canonical-draft.js).  The same entity is read as its default   *)
(* revision, its latest version and its working copy, before and after the *)
(* write, by requests of their own; a write whose fate the second set of   *)
(* reads does not prove is reported as uncertain.                          *)
(***************************************************************************)
EXTENDS DraftHost

Canonical == {"canonical"}

Continuing(c) == call[c].work # 0
Opening(c) == call[c].seen = "published"

\* A read that is denied, fails or disagrees with another, an unsupported
\* continuation, an unreviewed state: no write is attempted.
RefuseCanonical(c) ==
  /\ call[c].tool \in Canonical
  /\ call[c].pc \in {"start", "before", "beforeWorking", "select"}
  /\ End(c, "refused")
  /\ UNCHANGED <<host, wire>>

\* readUpdateTarget, resolveCanonicalDraftIdentity and the preflight of
\* prepareGuardedPatch: what they found is not used again.
Prepare(c) ==
  /\ At(c, Canonical, "start")
  /\ call' = [call EXCEPT ![c].pc = "before"]
  /\ UNCHANGED <<host, wire>>

\* readPair, before: the default revision, which must be the latest version ...
BeforeLive(c) ==
  /\ At(c, Canonical, "before")
  /\ call' = [call EXCEPT ![c].pc = "beforeWorking", ![c].live = live,
                          ![c].seen = IF revs[live].pub THEN "published" ELSE "unpublished"]
  /\ UNCHANGED <<host, wire>>

\* ... and the working copy, absent or the default revision itself when there
\* is no draft.
BeforeWorking(c) ==
  /\ At(c, Canonical, "beforeWorking")
  /\ call' = [call EXCEPT ![c].work = IF work = call[c].live THEN 0 ELSE work,
                          ![c].pc = "select"]
  /\ UNCHANGED <<host, wire>>

\* selectGovernedDraft: the inventory must name the pair that was read.
GovernedRequest(c) ==
  /\ live = call[c].live /\ InventoryWork = call[c].work
  /\ Continuing(c) \/ Opening(c)
  /\ Send(c, DraftRequest(c, "none", <<>>, "none"))

\* A host without the draft route takes core's PATCH, but never under a draft.
\* A published entity is sent with a draft or review state.
PlainRequest(c) ==
  /\ ~Continuing(c)
  /\ Send(c, CoreRequest("none", Opening(c)))

SendCanonical(c) ==
  /\ At(c, Canonical, "select")
  /\ GovernedRequest(c) \/ PlainRequest(c)

\* isDefinitiveClientError: a 4xx other than 408 and 429.
DefinitiveM1(reply) == reply \in {"refused", "lost"}
Definitive(reply) == reply = "refused"

CanonicalAnswered(c) ==
  LET reply == call[c].reply IN
  /\ At(c, Canonical, "wait") /\ reply # "none"
  /\ CASE reply = "missing" -> End(c, "missing")
       [] reply = "ok" \/ Definitive(reply) -> call' = [call EXCEPT ![c].pc = "after"]
       [] OTHER -> End(c, "uncertain")
  /\ UNCHANGED <<host, wire>>

\* readPair, after: the published revision is the one from before.  An update
\* of an unpublished entity is not held to that.
AfterLive(c) ==
  /\ At(c, Canonical, "after")
  /\ \/ End(c, "uncertain")
     \/ /\ live = call[c].live \/ (call[c].reply = "ok" /\ ~Opening(c))
        /\ call' = [call EXCEPT ![c].pc = "afterWorking"]
  /\ UNCHANGED <<host, wire>>

\* submittedPinsLanded: the same paragraphs, at the same revision or a newer
\* one.
SameOrNewer(pins, base) ==
  \A s \in Slots : pins[s].id = base[s].id /\ pins[s].rev >= base[s].rev

\* assertPublishedPreserved: a forward revision exists, is newer than the one
\* that was continued, and keeps the paragraphs the write did not submit.
Advanced(c) == work # call[c].live /\ work # call[c].work

Preserved(c) ==
  LET base == IF Continuing(c) THEN call[c].work ELSE call[c].live
  IN  Opening(c) => Advanced(c) /\ SameOrNewer(revs[work].pins, revs[base].pins)

\* publishedStateUnchanged: what a refused write must leave behind.
Unchanged(c) == (IF work = call[c].live THEN 0 ELSE work) = call[c].work

AfterWorking(c) ==
  /\ At(c, Canonical, "afterWorking")
  /\ \/ End(c, "uncertain")
     \/ call[c].reply # "ok" /\ Unchanged(c) /\ End(c, "refused")
     \/ /\ call[c].reply = "ok" /\ Preserved(c)
        /\ Finish(c, work)
  /\ UNCHANGED <<host, wire>>

CanonicalNext(c) ==
  \/ RefuseCanonical(c) \/ Prepare(c) \/ BeforeLive(c) \/ BeforeWorking(c)
  \/ SendCanonical(c) \/ CanonicalAnswered(c) \/ AfterLive(c) \/ AfterWorking(c)
=============================================================================
