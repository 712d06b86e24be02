---------------------------- MODULE GuardedPatch ----------------------------
(***************************************************************************)
(* The node writes of the tools: a partial update (updateNode and          *)
(* src/lib/patch-preflight.js), a component change in the node's draft     *)
(* (src/lib/component-draft.js), a translation draft (createTranslation    *)
(* and src/lib/sentinel-draft.js), and bulkCreate of paragraphs            *)
(* (src/tools/bulk.js).                                                    *)
(*                                                                         *)
(* updateNode reads the node before it decides what to send, and sends     *)
(* without a precondition when it found no working copy.                   *)
(***************************************************************************)
EXTENDS DraftHost

Patched == {"patch", "component", "translation"}

\* Input, policy, formats, capabilities and languages refuse before a write.
RefusePatch(c) ==
  /\ call[c].tool \in Patched
  /\ call[c].pc \in {"start", "resolve", "pins", "preflight", "path"}
  /\ End(c, "refused")
  /\ UNCHANGED <<host, wire>>

---------------------------------------------------------------------------
(* updateNode *)

\* The pre-read decides the moderation state that is sent; an unreadable node
\* leaves it open.
PreRead(c) ==
  /\ At(c, {"patch"}, "start")
  /\ \E seen \in {IF revs[live].pub THEN "published" ELSE "unpublished", "unread"} :
       call' = [call EXCEPT ![c].pc = "resolve", ![c].seen = seen]
  /\ UNCHANGED <<host, wire>>

\* applySafeDraftDefault: an update of a published node that names no state is
\* sent as a draft.
DraftDefaultM1(c) == FALSE
DraftDefault(c) == call[c].seen = "published"

\* resolveWorkingCopyPatchTarget: the pair a governed continuation names.
ResolveTarget(c) ==
  /\ At(c, {"patch"}, "resolve")
  /\ call' = [call EXCEPT ![c].pc = "preflight", ![c].live = live, ![c].work = InventoryWork]
  /\ UNCHANGED <<host, wire>>

\* A working copy is continued through the draft route, and only so.
PatchRequest(c) ==
  IF call[c].work # 0 THEN DraftRequest(c, "none", <<>>, call[c].path)
  ELSE CoreRequest(call[c].path, DraftDefault(c))

\* prepareGuardedPatch: the draft route validates the pair, core's guard is
\* probed otherwise.
PreflightPatch(c) ==
  /\ At(c, {"patch"}, "preflight")
  /\ IF call[c].work # 0 THEN Matches(PatchRequest(c)) ELSE work = live
  /\ call' = [call EXCEPT ![c].pc = "path"]
  /\ UNCHANGED <<host, wire>>

\* resolvePathWrite: the alias the caller gives, or the one the row has.
ResolvePath(c) ==
  /\ At(c, {"patch"}, "path")
  /\ \E p \in {"new", alias} :
       call' = [call EXCEPT ![c].pc = "write", ![c].path = p,
                            ![c].redirect = p = "new" /\ alias = "old"]
  /\ UNCHANGED <<host, wire>>

SendPatch(c) == At(c, {"patch"}, "write") /\ Send(c, PatchRequest(c))

\* Errors are passed on; a stale copy or a refused PATCH wrote nothing.
PatchAnswered(c) ==
  /\ At(c, {"patch"}, "wait") /\ call[c].reply # "none"
  /\ CASE call[c].reply = "ok" -> call' = [call EXCEPT ![c].pc = "reread"]
       [] call[c].reply = "refused" -> End(c, "refused")
       [] call[c].reply = "missing" -> End(c, "missing")
       [] OTHER -> End(c, "failed")
  /\ UNCHANGED <<host, wire>>

\* assertAliasPersisted: the row is read back, and repaired once.
AliasHoldsM1(c) == TRUE
AliasHolds(c) == alias = call[c].path

RepairAlias(c) ==
  /\ At(c, {"patch"}, "reread")
  /\ ~AliasHolds(c)
  /\ alias' \in {alias, call[c].path}
  /\ call' = [call EXCEPT ![c].pc = "repaired"]
  /\ UNCHANGED <<revs, live, work, edits, wire>>

\* The redirect is created only after the re-read shows the new alias.
FinishPatch(c) ==
  /\ At(c, {"patch"}, "reread") \/ At(c, {"patch"}, "repaired")
  /\ IF AliasHolds(c)
     THEN call' = [Ending(c, "finished", work) EXCEPT ![c].heard = {alias}]
     ELSE call[c].pc = "repaired" /\ End(c, "failed")
  /\ UNCHANGED <<host, wire>>

---------------------------------------------------------------------------
(* writeComponentDraft *)

ComponentInventory(c) ==
  /\ At(c, {"component"}, "start")
  /\ call' = [call EXCEPT ![c].pc = "pins", ![c].live = live, ![c].work = InventoryWork]
  /\ UNCHANGED <<host, wire>>

\* The component must be a direct paragraph of the revision that is edited:
\* the working copy by its id, or whatever is published now.
ComponentPinned(c) ==
  LET at == IF call[c].work = 0 THEN live ELSE call[c].work IN
  /\ At(c, {"component"}, "pins")
  /\ revs[at].pins[call[c].slot].id = Original(call[c].slot)
  /\ call' = [call EXCEPT ![c].pc = "preflight"]
  /\ UNCHANGED <<host, wire>>

ComponentRequest(c) == DraftRequest(c, "component", <<>>, "none")

PreflightComponent(c) ==
  /\ At(c, {"component"}, "preflight")
  /\ Matches(ComponentRequest(c))
  /\ call' = [call EXCEPT ![c].pc = "write"]
  /\ UNCHANGED <<host, wire>>

SendComponent(c) == At(c, {"component"}, "write") /\ Send(c, ComponentRequest(c))

\* The answer names the saved revision.
ComponentAnswered(c) ==
  /\ At(c, {"component"}, "wait") /\ call[c].reply # "none"
  /\ CASE call[c].reply = "ok" ->
            call' = [call EXCEPT ![c].pc = "verify",
                                 ![c].vid = CHOOSE r \in DOMAIN revs : revs[r].by = c]
       [] call[c].reply = "refused" -> End(c, "refused")
       [] call[c].reply = "missing" -> End(c, "missing")
       [] OTHER -> End(c, "failed")
  /\ UNCHANGED <<host, wire>>

\* The saved revision pins the component at a revision that neither the
\* published host nor the draft it continued pins, with the submitted values.
Moved(c) ==
  LET s == call[c].slot
      saved == revs[call[c].vid].pins[s]
      baseline == IF call[c].work = 0 THEN live ELSE call[c].work
  IN  saved # revs[live].pins[s] /\ saved # revs[baseline].pins[s]

VerifyComponent(c) ==
  /\ At(c, {"component"}, "verify")
  /\ \/ End(c, "uncertain")
     \/ Moved(c) /\ Finish(c, call[c].vid)
  /\ UNCHANGED <<host, wire>>

---------------------------------------------------------------------------
(* createTranslation *)

\* resolveNodeTranslationPair; the site validates only in the write itself.
TranslationPair(c) ==
  /\ At(c, {"translation"}, "start")
  /\ call' = [call EXCEPT ![c].pc = "write", ![c].live = live, ![c].work = InventoryWork]
  /\ UNCHANGED <<host, wire>>

SendTranslation(c) ==
  At(c, {"translation"}, "write") /\ Send(c, DraftRequest(c, "none", <<>>, "none"))

TranslationAnswered(c) ==
  /\ At(c, {"translation"}, "wait") /\ call[c].reply # "none"
  /\ CASE call[c].reply = "ok" ->
            Finish(c, CHOOSE r \in DOMAIN revs : revs[r].by = c)
       [] call[c].reply = "refused" -> End(c, "refused")
       [] call[c].reply = "missing" -> End(c, "missing")
       [] OTHER -> End(c, "failed")
  /\ UNCHANGED <<host, wire>>

---------------------------------------------------------------------------
(* bulkCreate *)

\* Two paragraphs, one after the other; an item that fails does not stop the
\* next.  A created paragraph without a revision id is a failed row that names
\* the paragraph.
Items == {1, 2}
Tried(c) == {i \in Items : <<c, i>> \in call[c].told \/ <<c, i, "failed">> \in call[c].told}

CountedM1(c, answered, revision) == IF answered /\ revision THEN 1 ELSE 0
Counted(c, answered, revision) == IF answered THEN 1 ELSE 0

CreateItem(c) ==
  /\ At(c, {"bulk"}, "start")
  /\ \E i \in Items \ Tried(c), made, answered, revision \in BOOLEAN :
       /\ \A j \in Items : j < i => j \in Tried(c)
       /\ answered => made
       /\ revision => answered
       /\ call' = [call EXCEPT
            ![c].made = IF made THEN @ \cup {<<c, i>>} ELSE @,
            ![c].heard = IF answered THEN @ \cup {<<c, i>>} ELSE @,
            ![c].told = @ \cup (IF answered THEN {<<c, i>>} ELSE {})
                          \cup (IF revision THEN {} ELSE {<<c, i, "failed">>}),
            ![c].created = @ + Counted(c, answered, revision)]
  /\ UNCHANGED <<host, wire>>

EndBulk(c) ==
  /\ At(c, {"bulk"}, "start") /\ Tried(c) = Items
  /\ End(c, "finished")
  /\ UNCHANGED <<host, wire>>

PatchNext(c) ==
  \/ RefusePatch(c)
  \/ PreRead(c) \/ ResolveTarget(c) \/ PreflightPatch(c) \/ ResolvePath(c)
  \/ SendPatch(c) \/ PatchAnswered(c) \/ RepairAlias(c) \/ FinishPatch(c)
  \/ ComponentInventory(c) \/ ComponentPinned(c) \/ PreflightComponent(c)
  \/ SendComponent(c) \/ ComponentAnswered(c) \/ VerifyComponent(c)
  \/ TranslationPair(c) \/ SendTranslation(c) \/ TranslationAnswered(c)
  \/ CreateItem(c) \/ EndBulk(c)
=============================================================================
