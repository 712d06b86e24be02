---------------------------- MODULE NestedDraft ----------------------------
(***************************************************************************)
(* drupal_draft_nested_components (src/lib/nested-draft.js): a component   *)
(* of a published host is replaced by an edited copy, in a forward         *)
(* revision.  The copy is made by the client, paragraph by paragraph       *)
(* ("nested"), by the server in the one write ("atomic"), or was made by   *)
(* an earlier call that did not get it pinned ("resume").                  *)
(*                                                                         *)
(* A nested edit has one child here; children and translations of one      *)
(* paragraph fail the way the paragraph itself does.                       *)
(***************************************************************************)
EXTENDS DraftHost

Nested == {"nested", "resume", "atomic"}

Target(c) == Original(call[c].slot)

\* The revision whose pins the draft starts from.
Base(c) == IF call[c].work = 0 THEN call[c].live ELSE call[c].work

\* The paragraphs of the client sequence, children before their parent.
Child(c) == <<c, call[c].slot, "child">>
Parent(c) == Made(c, call[c].slot)
NextParagraph(c) == IF Child(c) \in call[c].told THEN Parent(c) ELSE Child(c)

---------------------------------------------------------------------------
(* Before anything is created *)

\* Input, inventory, capabilities, languages, slots and policy: every one of
\* these refuses before the first write.
RefuseNested(c) ==
  /\ call[c].tool \in Nested /\ call[c].pc \in {"start", "published", "working"}
  /\ End(c, "refused")
  /\ UNCHANGED <<host, wire>>

ReadInventory(c) ==
  /\ At(c, {"nested", "atomic"}, "start")
  /\ call' = [call EXCEPT ![c].pc = "published", ![c].live = live, ![c].work = InventoryWork,
                          ![c].parent = Parent(c)]
  /\ UNCHANGED <<host, wire>>

\* resumeParentId: the parent another call reported and could not pin.
ResumeInventory(c) ==
  /\ At(c, {"resume"}, "start")
  /\ \E d \in Calls :
       /\ call[d].tool = "nested" /\ call[d].out \in {"partial", "uncertain"}
       /\ call[d].slot = call[c].slot /\ Parent(d) \in call[d].told
       /\ call' = [call EXCEPT ![c].pc = "published", ![c].live = live,
                               ![c].work = InventoryWork, ![c].parent = Parent(d)]
  /\ UNCHANGED <<host, wire>>

\* The published host must be the inventory's and pin the component.
ReadPublished(c) ==
  /\ call[c].tool \in Nested /\ call[c].pc = "published"
  /\ live = call[c].live
  /\ revs[live].pins[call[c].slot].id = Target(c)
  /\ call' = [call EXCEPT ![c].pc = "working"]
  /\ UNCHANGED <<host, wire>>

\* The working copy is read by its revision id: its slot holds the component,
\* or the parent that is to be resumed, whose default revision is read next.
ReadWorking(c) ==
  LET pinned == revs[Base(c)].pins[call[c].slot].id
      resume == call[c].tool = "resume"
  IN  /\ call[c].tool \in Nested /\ call[c].pc = "working"
      /\ pinned = Target(c) \/ (resume /\ pinned = call[c].parent)
      /\ call' = [call EXCEPT
           ![c].pc = CASE call[c].tool = "nested" -> "create"
                       [] resume /\ call[c].work # 0 /\ pinned = call[c].parent -> "confirm"
                       [] OTHER -> "preflight",
           ![c].rev = IF resume THEN ParagraphRevision(call[c].parent) ELSE 1,
           ![c].told = IF resume THEN {call[c].parent} ELSE {}]
      /\ UNCHANGED <<host, wire>>

---------------------------------------------------------------------------
(* createParagraph *)

\* The paragraph exists, and Drupal's answer, or its error's entity, names it.
\* A wrong language, a missing revision id or a translation that cannot be
\* written ends the call with what is prepared.
TellM1(c, p, good) == IF good THEN call[c].told \cup {p} ELSE call[c].told
Tell(c, p, good) == call[c].told \cup {p}

CreateParagraph(c) ==
  LET p == NextParagraph(c) IN
  /\ At(c, {"nested"}, "create")
  /\ \E good \in BOOLEAN :
       call' = [call EXCEPT
         ![c].made = @ \cup {p}, ![c].heard = @ \cup {p}, ![c].told = Tell(c, p, good),
         ![c].pc = IF ~good THEN "done" ELSE IF p = Parent(c) THEN "preflight" ELSE "create",
         ![c].out = IF good THEN "none" ELSE "partial"]
  /\ UNCHANGED <<host, wire>>

\* The creation fails, or its answer is lost.
CreateFails(c) ==
  /\ At(c, {"nested"}, "create")
  /\ \E lost \in BOOLEAN :
       call' = [call EXCEPT
         ![c].made = IF lost THEN @ \cup {NextParagraph(c)} ELSE @,
         ![c].pc = "done",
         ![c].out = IF call[c].told = {} THEN "failed" ELSE "partial"]
  /\ UNCHANGED <<host, wire>>

---------------------------------------------------------------------------
(* The host write *)

\* The component's slot takes the new parent, in the revision it was prepared
\* in; the other pins are the draft's.
NextPinsM1(c) ==
  [revs[call[c].live].pins EXCEPT ![call[c].slot] = Pin(call[c].parent, call[c].rev)]
NextPins(c) ==
  [revs[Base(c)].pins EXCEPT ![call[c].slot] = Pin(call[c].parent, call[c].rev)]

HostRequest(c) ==
  IF call[c].tool = "atomic" THEN DraftRequest(c, "swap", <<>>, "none")
  ELSE DraftRequest(c, "set", NextPins(c), "none")

\* confirmHostPreflight, confirmAtomicPreflight: the site validates the payload
\* against the same precondition.
Preflight(c) ==
  /\ call[c].tool \in Nested /\ call[c].pc = "preflight"
  /\ Matches(HostRequest(c))
  /\ call' = [call EXCEPT ![c].pc = "write"]
  /\ UNCHANGED <<host, wire>>

\* The atomic write has created nothing yet; the client sequence re-reads.
PreflightFails(c) ==
  /\ call[c].tool \in Nested /\ call[c].pc = "preflight"
  /\ \/ End(c, "missing")
     \/ IF call[c].tool = "atomic" THEN End(c, "refused")
        ELSE call' = [call EXCEPT ![c].pc = "confirm"]
  /\ UNCHANGED <<host, wire>>

SendHost(c) ==
  /\ call[c].tool \in Nested /\ call[c].pc = "write"
  /\ Send(c, HostRequest(c))

\* Whatever the answer, only a re-read tells; a missing route is passed on.
HostAnswered(c) ==
  /\ call[c].tool \in Nested /\ call[c].pc = "wait" /\ call[c].reply # "none"
  /\ IF call[c].reply = "missing" THEN End(c, "missing")
     ELSE call' = [call EXCEPT ![c].pc = "confirm", ![c].reply = "none"]
  /\ UNCHANGED <<host, wire>>

---------------------------------------------------------------------------
(* confirmLanded, confirmAtomicLanded *)

\* The published host must be the one the call started from and still pin the
\* component; a read that fails proves nothing.
ConfirmPublished(c) ==
  /\ call[c].tool \in Nested /\ call[c].pc = "confirm"
  /\ \/ End(c, "uncertain")
     \/ /\ live = call[c].live
        /\ call' = [call EXCEPT ![c].pc = "confirmWorking"]
  /\ UNCHANGED <<host, wire>>

\* The pins the client sequence must find, id and revision.
PinsLandedM1(c) == work # call[c].live
PinsLanded(c) == revs[work].pins = NextPins(c)

\* The parent the server made is read back and compared with the input; the
\* other components must be the published ones.
SwapLanded(c) ==
  /\ revs[work].pins[call[c].slot].id = Parent(c)
  /\ work # call[c].work
  /\ \A s \in Slots \ {call[c].slot} : revs[work].pins[s] = revs[call[c].live].pins[s]

ConfirmWorking(c) ==
  LET forward == work # call[c].live
      atomic == call[c].tool = "atomic"
      landed == forward /\ (IF atomic THEN SwapLanded(c) ELSE PinsLanded(c))
      original == revs[work].pins[call[c].slot].id = Target(c)
  IN  /\ call[c].tool \in Nested /\ call[c].pc = "confirmWorking"
      /\ \/ End(c, "uncertain")
         \/ /\ ~landed
            /\ End(c, IF atomic /\ ~original THEN "uncertain" ELSE "partial")
         \/ /\ landed
            /\ Finish(c, work)
      /\ UNCHANGED <<host, wire>>

NestedNext(c) ==
  \/ RefuseNested(c) \/ ReadInventory(c) \/ ResumeInventory(c)
  \/ ReadPublished(c) \/ ReadWorking(c)
  \/ CreateParagraph(c) \/ CreateFails(c)
  \/ Preflight(c) \/ PreflightFails(c) \/ SendHost(c) \/ HostAnswered(c)
  \/ ConfirmPublished(c) \/ ConfirmWorking(c)
=============================================================================
