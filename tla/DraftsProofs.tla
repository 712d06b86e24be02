---------------------------- MODULE DraftsProofs ----------------------------
(***************************************************************************)
(* The safety of the governed writes, for every number of calls,           *)
(* components, revisions and edits.                                        *)
(*                                                                         *)
(* A call sends one write, and a revision never changes once it is there,  *)
(* so what a call has learnt stays true while others write: that it has    *)
(* written nothing (WritesOnce), that it has (ReplyIsTrue), or that its    *)
(* parent is pinned in the revision it names (Landed).  What the write     *)
(* itself does is fixed when it is sent, from reads that may be stale by   *)
(* the time Drupal handles it: CoreIsAnUpdate and SetsOwnSlot say what a   *)
(* request carries on its way, and If-Match makes the second true of the   *)
(* working copy the save lands on.                                         *)
(***************************************************************************)
EXTENDS Drafts, NaturalsInduction, WellFoundedInduction, FiniteSetTheorems, TLAPS

---------------------------------------------------------------------------
(* Types *)

Authors == Calls \cup {Editor}
Pins == [Slots -> [id : Authors \X Slots, rev : Nat]]
Revision == [pins : Pins, pub : BOOLEAN, by : Authors, prev : Nat]

\* What a call creates, is told of and reports: paragraphs, rows, an alias.
Things ==
  Aliases \cup (Authors \X Nat) \cup (Calls \X Nat \X {"child", "failed"})

Early == {"start", "published", "working", "create", "preflight", "write", "resolve",
          "pins", "path", "before", "beforeWorking", "select"}
Late == {"wait", "confirm", "confirmWorking", "reread", "repaired", "verify", "after",
         "afterWorking", "done"}

Pcs == Early \cup Late
Seens == {"unread", "published", "unpublished"}
Parents == (Authors \X Slots) \cup {<<>>}
Replies == {"none", "ok", "refused", "failed", "missing", "lost"}
Paths == Aliases \cup {"none"}
Outcomes == {"refused", "finished", "partial", "uncertain", "failed", "missing"}
Outs == Outcomes \cup {"none"}

Call ==
  [tool : Tools, slot : Slots, pc : Pcs, live : Nat, work : Nat, seen : Seens,
   parent : Parents, rev : Nat, made : SUBSET Things, heard : SUBSET Things, told : SUBSET Things,
   created : Nat, reply : Replies, path : Paths, redirect : BOOLEAN, out : Outs, vid : Nat]

Request ==
  [kind : {"draft", "core"}, live : Nat, work : Nat,
   edit : {"set", "swap", "component", "none"}, pins : Pins \cup {<<>>},
   path : Paths, draft : BOOLEAN]

\* The host always has a default revision and a working copy.
HostTypeOK ==
  /\ revs \in Seq(Revision)
  /\ live \in DOMAIN revs /\ work \in DOMAIN revs
  /\ alias \in Aliases /\ edits \in Nat

CallsTypeOK ==
  /\ call \in [Calls -> Call]
  /\ wire \in [Calls -> Request \cup {NoRequest}]

---------------------------------------------------------------------------
(* The inductive invariant *)

\* The revisions a save can give a paragraph are bounded by the saves so far:
\* its own and the one Entity Reference Revisions adds.
RevsBounded ==
  \A r \in DOMAIN revs : \A s \in Slots : revs[r].pins[s].rev <= 2 * Len(revs)

\* A call's revision was saved on top of one that exists.
SavedOnTop == \A r \in DOMAIN revs : revs[r].by \in Calls => revs[r].prev \in DOMAIN revs

Wrote(c) == \E r \in DOMAIN revs : revs[r].by = c

\* A call sends one write: before it there is nothing on its way, and while it
\* is on its way nothing of the call is saved.
WritesOnce(c) ==
  /\ call[c].pc \in Early => wire[c] = NoRequest /\ ~Wrote(c)
  /\ wire[c] # NoRequest => ~Wrote(c)

\* What the answer to the write proves.
ReplyIsTrue(c) ==
  /\ call[c].reply = "ok" => Wrote(c)
  /\ call[c].reply = "refused" => wire[c] = NoRequest /\ ~Wrote(c)
  /\ call[c].pc \in {"after", "afterWorking"} => call[c].reply \in {"ok", "refused"}

\* A call that has ended is done.
EndedIsDone(c) == Ended(c) => call[c].pc = "done"

RefusedIsClean(c) ==
  call[c].out = "refused" => ~Wrote(c) /\ wire[c] = NoRequest /\ call[c].made = {}

\* Only the client sequence and a bulk call create paragraphs of their own, and
\* they note each one that they hear of.
Bookkept(c) ==
  /\ call[c].tool \notin {"nested", "bulk"} => call[c].made = {}
  /\ call[c].tool = "nested" /\ call[c].pc \in {"start", "published", "working"} =>
       call[c].made = {} /\ call[c].heard = {}
  /\ call[c].tool \in {"nested", "bulk"} => call[c].heard \subseteq call[c].told
  /\ call[c].out = "failed" => call[c].heard \cap call[c].made = {}

\* The rows of a bulk call.
RowsCounted(c) ==
  call[c].tool = "bulk" =>
    /\ call[c].heard \subseteq {<<c, i>> : i \in Items}
    /\ call[c].created = Cardinality(call[c].heard)

\* A core PATCH is an update's, and asks for the state the host is in only when
\* the update's first read did not show it published.
CoreIsAnUpdate(c) ==
  wire[c].kind = "core" =>
    /\ call[c].tool \in {"patch", "canonical"} /\ wire[c].edit = "none"
    /\ ~wire[c].draft => call[c].seen # "published"

\* The pair a nested draft goes by exists, and it knows what it wants pinned.
PairExists(c) ==
  call[c].tool \in Nested =>
    /\ call[c].rev <= 2 * Len(revs)
    /\ call[c].pc \notin {"start", "done"} =>
         /\ call[c].live \in DOMAIN revs
         /\ call[c].work \in {0} \cup DOMAIN revs
         /\ call[c].parent \in Authors \X Slots
         /\ call[c].tool = "atomic" => call[c].parent = Parent(c)

\* An update has chosen the alias it writes before it sends anything.
AliasChosen(c) ==
  call[c].tool = "patch" /\ call[c].pc \in {"write", "wait", "reread", "repaired"} =>
    call[c].path \in Aliases

\* A request that sends pins sends those of the revision its precondition
\* names, but for the component of its call.
SentBase(c) == IF wire[c].work = 0 THEN wire[c].live ELSE wire[c].work
SetsOwnSlot(c) ==
  wire[c].kind = "draft" /\ wire[c].edit = "set" =>
    /\ wire[c].pins \in Pins /\ SentBase(c) \in DOMAIN revs
    /\ \A s \in Slots : wire[c].pins[s].rev <= 2 * Len(revs)
    /\ \A s \in Slots \ {call[c].slot} : wire[c].pins[s].id = revs[SentBase(c)].pins[s].id

\* The revision a component call verifies is its own.
VerifiesOwn(c) ==
  call[c].tool = "component" /\ call[c].pc = "verify" =>
    call[c].vid \in DOMAIN revs /\ revs[call[c].vid].by = c

\* A successful result names a revision, with the work of the call.
Landed(c) ==
  call[c].out = "finished" =>
    /\ call[c].tool = "patch" => call[c].heard = {call[c].path}
    /\ call[c].tool \notin {"bulk", "patch"} =>
         /\ call[c].vid \in DOMAIN revs
         /\ \/ Wrote(c) /\ call[c].tool = "canonical"
            \/ revs[call[c].vid].by = c
            \/ /\ call[c].tool \in Nested
               /\ revs[call[c].vid].pins[call[c].slot].id = call[c].parent

CallInv(c) ==
  /\ WritesOnce(c) /\ ReplyIsTrue(c) /\ EndedIsDone(c) /\ RefusedIsClean(c)
  /\ Bookkept(c) /\ RowsCounted(c) /\ CoreIsAnUpdate(c) /\ PairExists(c)
  /\ AliasChosen(c) /\ SetsOwnSlot(c) /\ VerifiesOwn(c) /\ Landed(c)

DraftsInv ==
  /\ HostTypeOK /\ CallsTypeOK /\ RevsBounded /\ SavedOnTop
  /\ \A c \in Calls : CallInv(c)
  /\ AgentNeverPublishes /\ NoLostDraft

---------------------------------------------------------------------------
(* The host *)

\* A nonempty bounded set of numbers has a largest member.
LEMMA LargestExists ==
  ASSUME NEW S \in SUBSET Nat, S # {}, NEW bound \in Nat, \A n \in S : n <= bound
  PROVE  \E n \in S : \A m \in S : m <= n
<1> DEFINE T == {bound - n : n \in S}
<1>1. T \subseteq Nat /\ T # {}
  <2>1. \A n \in S : n \in Nat /\ n <= bound /\ bound - n \in Nat
    OBVIOUS
  <2>2. PICK n \in S : TRUE
    OBVIOUS
  <2>3. bound - n \in T
    OBVIOUS
  <2> QED BY <2>1, <2>3
<1>2. PICK x \in T : \A y \in T : ~(<<y, x>> \in OpToRel(<, Nat))
  <2> HIDE DEF T
  <2> QED BY <1>1, NatLessThanWellFounded, WFMin, Zenon
<1>3. PICK n \in S : x = bound - n
  OBVIOUS
<1>4. ASSUME NEW m \in S PROVE m <= n
  <2>1. bound - m \in T /\ bound - m \in Nat /\ x \in Nat
    BY <1>1
  <2>2. ~(bound - m < x)
    BY <1>2, <2>1 DEF OpToRel
  <2> QED BY <2>1, <2>2, <1>3
<1> QED BY <1>4

\* The host's revisions and their pins.
LEMMA RevisionTypes ==
  ASSUME HostTypeOK
  PROVE  /\ Len(revs) \in Nat /\ Len(revs) >= 1 /\ DOMAIN revs = 1..Len(revs)
         /\ \A r \in DOMAIN revs :
              /\ revs[r].pins \in Pins /\ revs[r].by \in Authors /\ revs[r].pub \in BOOLEAN
              /\ revs[r].prev \in Nat
              /\ \A s \in Slots :
                   revs[r].pins[s].id \in Authors \X Slots /\ revs[r].pins[s].rev \in Nat
<1>1. Len(revs) \in Nat /\ Len(revs) >= 1 /\ DOMAIN revs = 1..Len(revs)
  BY DEF HostTypeOK
<1>2. \A r \in DOMAIN revs : revs[r] \in Revision
  BY <1>1 DEF HostTypeOK
<1>3. \A r \in DOMAIN revs :
        /\ revs[r].pins \in Pins /\ revs[r].by \in Authors /\ revs[r].pub \in BOOLEAN
        /\ revs[r].prev \in Nat
  BY <1>2 DEF Revision
<1> QED BY <1>1, <1>3 DEF Pins

\* A paragraph's default revision is a revision number, as every pin's is.
LEMMA ParagraphRevisionType ==
  ASSUME HostTypeOK, RevsBounded, NEW id
  PROVE  ParagraphRevision(id) \in Nat /\ ParagraphRevision(id) <= 2 * Len(revs)
<1> DEFINE pinned == {revs[r].pins[s].rev : r \in DOMAIN revs, s \in Slots}
           of == {n \in pinned : \E r \in DOMAIN revs, s \in Slots : revs[r].pins[s] = Pin(id, n)}
<1>1. pinned \subseteq Nat /\ \A n \in pinned : n <= 2 * Len(revs)
  BY RevisionTypes DEF RevsBounded
<1>2. Len(revs) \in Nat /\ Len(revs) >= 1
  BY DEF HostTypeOK
<1>3. CASE of = {}
  BY <1>2, <1>3 DEF ParagraphRevision
<1>4. CASE of # {}
  <2>1. of \in SUBSET Nat /\ \A n \in of : n <= 2 * Len(revs)
    BY <1>1
  <2>2. 2 * Len(revs) \in Nat
    BY <1>2
  <2>3. \E n \in of : \A m \in of : m <= n
    <3> HIDE DEF of
    <3> QED BY <1>4, <2>1, <2>2, LargestExists
  <2>4. ParagraphRevision(id) = CHOOSE n \in of : \A m \in of : m <= n
    <3>1. ParagraphRevision(id) = IF of = {} THEN 1 ELSE CHOOSE n \in of : \A m \in of : m <= n
      BY DEF ParagraphRevision
    <3> HIDE DEF of
    <3> QED BY <1>4, <3>1
  <2>5. ParagraphRevision(id) \in of
    <3> HIDE DEF of
    <3> QED BY <2>3, <2>4
  <2> QED BY <2>1, <2>5
<1> QED BY <1>3, <1>4

\* What a save by who does: the pins it names under the revision it adds, and
\* all earlier ones as they were.
Added == Len(revs) + 1
Grown(who, pins, pub) ==
  /\ Len(revs') = Added /\ DOMAIN revs' = DOMAIN revs \cup {Added} /\ Added \notin DOMAIN revs
  /\ \A r \in DOMAIN revs : revs'[r] = revs[r]
  /\ revs'[Added].by = who /\ revs'[Added].pub = pub /\ revs'[Added].prev = work
  /\ \A s \in Slots : revs'[Added].pins[s].id = pins[s].id

\* Every save of the host, whoever makes it.
LEMMA SaveGrows ==
  ASSUME HostTypeOK, RevsBounded, SavedOnTop, NEW who \in Authors, NEW pins \in Pins,
         NEW pub \in BOOLEAN, \A s \in Slots : pins[s].rev <= 2 * Len(revs) + 1,
         Save(who, pins, pub)
  PROVE  /\ Grown(who, pins, pub)
         /\ revs' \in Seq(Revision) /\ live' \in DOMAIN revs' /\ work' \in DOMAIN revs'
         /\ RevsBounded' /\ SavedOnTop'
<1>1. PICK p \in Saved(pins) :
        revs' = Append(revs, [pins |-> p, pub |-> pub, by |-> who, prev |-> work])
  BY DEF Save
<1> DEFINE new == [pins |-> p, pub |-> pub, by |-> who, prev |-> work]
<1>2. p \in Pins /\ \A s \in Slots : p[s].id = pins[s].id /\ p[s].rev <= 2 * Len(revs) + 2
  <2>1. CASE p = pins
    BY <2>1 DEF HostTypeOK, Pins
  <2>2. CASE p = [s \in Slots |-> [pins[s] EXCEPT !.rev = @ + 1]]
    <3>1. ASSUME NEW s \in Slots
          PROVE  /\ p[s] \in [id : Authors \X Slots, rev : Nat]
                 /\ p[s].id = pins[s].id /\ p[s].rev = pins[s].rev + 1
      BY <2>2 DEF Pins
    <3>2. \A s \in Slots : pins[s].rev \in Nat
      BY DEF Pins
    <3>3. \A s \in Slots : p[s].rev <= 2 * Len(revs) + 2
      <4>1. Len(revs) \in Nat
        BY DEF HostTypeOK
      <4>2. SUFFICES ASSUME NEW s \in Slots PROVE p[s].rev <= 2 * Len(revs) + 2
        OBVIOUS
      <4>3. p[s].rev = pins[s].rev + 1 /\ pins[s].rev \in Nat
        BY <3>1, <3>2
      <4>4. pins[s].rev <= 2 * Len(revs) + 1
        OBVIOUS
      <4> QED BY <4>1, <4>3, <4>4
    <3>4. DOMAIN p = Slots /\ p = [s \in Slots |-> p[s]]
      BY <2>2
    <3> QED BY <3>1, <3>3, <3>4 DEF Pins
  <2> QED BY <1>1, <2>1, <2>2 DEF Saved
<1>3. revs \in Seq(Revision) /\ new \in Revision /\ work \in DOMAIN revs
  BY <1>2 DEF HostTypeOK, Revision
<1>4. /\ revs' \in Seq(Revision) /\ Len(revs') = Added /\ revs'[Added] = new
      /\ \A r \in DOMAIN revs : revs'[r] = revs[r]
      /\ DOMAIN revs = 1..Len(revs) /\ DOMAIN revs' = 1..Added /\ Len(revs) \in Nat
  <2> HIDE DEF new
  <2> QED BY <1>1, <1>3 DEF Added, new
<1>5. Grown(who, pins, pub)
  BY <1>2, <1>4 DEF Grown, Added
<1>6. live' \in DOMAIN revs' /\ work' \in DOMAIN revs'
  BY <1>4 DEF Save, HostTypeOK, Added
<1>7. RevsBounded'
  <2>1. ASSUME NEW r \in DOMAIN revs', NEW s \in Slots
        PROVE  revs'[r].pins[s].rev <= 2 * Len(revs')
    <3>1. CASE r = Added
      BY <1>2, <1>4, <3>1 DEF Added
    <3>2. CASE r \in DOMAIN revs
      <4>1. revs'[r].pins[s].rev = revs[r].pins[s].rev /\ revs[r].pins[s].rev \in Nat
        BY <1>4, <3>2, RevisionTypes
      <4>2. revs[r].pins[s].rev <= 2 * Len(revs)
        BY <3>2 DEF RevsBounded
      <4> QED BY <1>4, <4>1, <4>2 DEF Added
    <3> QED BY <1>4, <3>1, <3>2 DEF Added
  <2> QED BY <2>1 DEF RevsBounded
<1>8. SavedOnTop'
  BY <1>3, <1>4, <1>5 DEF SavedOnTop, Grown
<1> QED BY <1>4, <1>5, <1>6, <1>7, <1>8

---------------------------------------------------------------------------
(* What a step leaves alone *)

\* No revision changes once it is there, and c adds none.
RevsKept(c) ==
  /\ DOMAIN revs \subseteq DOMAIN revs' /\ Len(revs) <= Len(revs')
  /\ Len(revs) \in Nat /\ Len(revs') \in Nat
  /\ \A r \in DOMAIN revs : revs'[r] = revs[r]
  /\ \A r \in DOMAIN revs' \ DOMAIN revs : revs'[r].by # c

\* The part of a call's invariant that looks at the revisions only through
\* whether the call wrote one.
LEMMA WroteKept ==
  ASSUME NEW c, RevsKept(c)
  PROVE  Wrote(c)' <=> Wrote(c)
BY DEF RevsKept, Wrote

\* A paragraph's revision stays within the bound when the host grows.
LEMMA RevKept ==
  ASSUME HostTypeOK, CallsTypeOK, NEW c \in Calls, PairExists(c), call[c].tool \in Nested,
         Len(revs') \in Nat, Len(revs) <= Len(revs'), call'[c].rev = call[c].rev
  PROVE  call'[c].rev <= 2 * Len(revs')
<1>1. call[c].rev \in Nat /\ Len(revs) \in Nat
  BY DEF CallsTypeOK, Call, HostTypeOK
<1>2. call[c].rev <= 2 * Len(revs)
  BY DEF PairExists
<1> QED BY <1>1, <1>2

\* A call that neither moves nor gets a revision keeps its invariant, whoever
\* else saves the host.
LEMMA CallKept ==
  ASSUME HostTypeOK, CallsTypeOK, NEW c \in Calls, CallInv(c),
         call'[c] = call[c], wire'[c] = wire[c], RevsKept(c)
  PROVE  CallInv(c)'
<1>1. Wrote(c)' <=> Wrote(c)
  BY WroteKept
<1>2. WritesOnce(c)' /\ ReplyIsTrue(c)' /\ EndedIsDone(c)' /\ RefusedIsClean(c)'
  BY <1>1 DEF CallInv, WritesOnce, ReplyIsTrue, EndedIsDone, RefusedIsClean, Ended
<1>3. Bookkept(c)' /\ RowsCounted(c)' /\ CoreIsAnUpdate(c)' /\ AliasChosen(c)'
  BY DEF CallInv, Bookkept, RowsCounted, CoreIsAnUpdate, AliasChosen
<1>4. PairExists(c)' /\ VerifiesOwn(c)'
  <2>1. call[c].tool \in Nested => call'[c].rev <= 2 * Len(revs')
    BY RevKept DEF CallInv, RevsKept
  <2> QED BY <2>1 DEF CallInv, PairExists, VerifiesOwn, RevsKept, Parent, Made
<1>5. SetsOwnSlot(c)'
  <2> SUFFICES ASSUME wire[c].kind = "draft", wire[c].edit = "set" PROVE SetsOwnSlot(c)'
    BY DEF SetsOwnSlot
  <2>1. SetsOwnSlot(c) /\ SentBase(c)' = SentBase(c)
    BY DEF CallInv, SentBase
  <2>2. wire[c].pins \in Pins /\ SentBase(c) \in DOMAIN revs
        /\ revs'[SentBase(c)] = revs[SentBase(c)]
    BY <2>1 DEF SetsOwnSlot, RevsKept
  <2>3. \A s \in Slots : wire[c].pins[s].rev <= 2 * Len(revs')
    <3> SUFFICES ASSUME NEW s \in Slots PROVE wire[c].pins[s].rev <= 2 * Len(revs')
      OBVIOUS
    <3>1. wire[c].pins[s].rev \in Nat
      BY <2>2 DEF Pins
    <3>2. wire[c].pins[s].rev <= 2 * Len(revs)
      BY <2>1 DEF SetsOwnSlot
    <3> QED BY <3>1, <3>2 DEF RevsKept
  <2>4. \A s \in Slots \ {call[c].slot} :
          wire[c].pins[s].id = revs[SentBase(c)].pins[s].id
    BY <2>1 DEF SetsOwnSlot
  <2> QED BY <2>1, <2>2, <2>3, <2>4 DEF SetsOwnSlot, RevsKept
<1>6. Landed(c)'
  BY <1>1 DEF CallInv, Landed, RevsKept
<1> QED BY <1>2, <1>3, <1>4, <1>5, <1>6 DEF CallInv

\* A move of c alone: it neither saves the host nor sends anything.
Moves(c) ==
  /\ UNCHANGED <<revs, wire>>
  /\ call' = [call EXCEPT ![c] = call'[c]] /\ call'[c] \in Call
  /\ call'[c].tool = call[c].tool /\ call'[c].slot = call[c].slot
  /\ call'[c].seen = call[c].seen \/ call[c].pc \in Early

\* What a request leaves alone while it is on its way, or before it is sent.
LEMMA MoveKeepsSaves ==
  ASSUME DraftsInv, NEW c \in Calls, revs' = revs,
         \A d \in Calls : call'[d].tool = call[d].tool /\ call'[d].slot = call[d].slot,
         \A d \in Calls \ {c} : call'[d].seen = call[d].seen,
         call'[c].seen = call[c].seen \/ call[c].pc \in Early
  PROVE  AgentNeverPublishes' /\ NoLostDraft'
<1>1. call[c].pc \in Early => \A r \in DOMAIN revs : revs[r].by # c
  BY DEF DraftsInv, CallInv, WritesOnce, Wrote
<1>2. AgentNeverPublishes'
  BY <1>1 DEF DraftsInv, AgentNeverPublishes
<1>3. NoLostDraft'
  BY DEF DraftsInv, NoLostDraft
<1> QED BY <1>2, <1>3

\* A move that keeps its own call's invariant keeps the whole.
LEMMA MoveKeeps ==
  ASSUME DraftsInv, NEW c \in Calls, Moves(c), HostTypeOK', CallInv(c)'
  PROVE  DraftsInv'
<1>0. CallsTypeOK' /\ \A d \in Calls \ {c} : call'[d] = call[d]
  BY DEF Moves, DraftsInv, CallsTypeOK
<1>1. \A d \in Calls \ {c} : CallInv(d)'
  <2> SUFFICES ASSUME NEW d \in Calls \ {c} PROVE CallInv(d)'
    OBVIOUS
  <2>1. RevsKept(d)
    BY DEF RevsKept, Moves, DraftsInv, HostTypeOK
  <2> QED BY <1>0, <2>1, CallKept DEF DraftsInv, Moves
<1>2. AgentNeverPublishes' /\ NoLostDraft'
  BY <1>0, MoveKeepsSaves DEF Moves
<1>4. RevsBounded' /\ SavedOnTop'
  BY DEF Moves, DraftsInv, RevsBounded, SavedOnTop
<1> QED BY <1>0, <1>1, <1>2, <1>4 DEF DraftsInv

\* The other part: c's own invariant after a move that leaves its outcome open,
\* its books and its answer as they are.
Advances(c) ==
  /\ Moves(c)
  /\ call'[c].made = call[c].made /\ call'[c].heard = call[c].heard
  /\ call'[c].told = call[c].told /\ call'[c].created = call[c].created
  /\ call'[c].reply \in {call[c].reply, "none"} /\ call'[c].out = call[c].out
  /\ call[c].pc # "done" /\ call'[c].pc \notin {"after", "afterWorking", "verify", "done"}
  /\ call'[c].pc \in Early => call[c].pc \in Early
  /\ call'[c].tool = "nested" /\ call'[c].pc \in {"start", "published", "working"} =>
       call[c].pc \in {"start", "published", "working"}

\* Such a move keeps the invariant when the call still knows its pair and alias.
LEMMA AdvanceKeeps ==
  ASSUME DraftsInv, NEW c \in Calls, Advances(c), HostTypeOK', PairExists(c)', AliasChosen(c)'
  PROVE  DraftsInv'
<1> USE DEF Advances, Moves
<1>1. CallInv(c) /\ (Wrote(c)' <=> Wrote(c)) /\ wire' = wire /\ revs' = revs
  BY DEF DraftsInv, Wrote
<1>2. call[c].out = "none"
  BY <1>1 DEF CallInv, EndedIsDone, Ended
<1>3. WritesOnce(c)' /\ ReplyIsTrue(c)' /\ EndedIsDone(c)' /\ RefusedIsClean(c)'
  BY <1>1, <1>2 DEF CallInv, WritesOnce, ReplyIsTrue, EndedIsDone, RefusedIsClean, Ended
<1>4. Bookkept(c)' /\ RowsCounted(c)'
  BY <1>1, <1>2 DEF CallInv, Bookkept, RowsCounted
<1>5. CoreIsAnUpdate(c)'
  BY <1>1 DEF CallInv, CoreIsAnUpdate, WritesOnce, NoRequest
<1>6. SetsOwnSlot(c)'
  BY <1>1 DEF CallInv, SetsOwnSlot, SentBase
<1>7. VerifiesOwn(c)' /\ Landed(c)'
  BY <1>1, <1>2 DEF VerifiesOwn, Landed
<1>8. CallInv(c)'
  BY <1>3, <1>4, <1>5, <1>6, <1>7 DEF CallInv
<1> QED BY <1>8, MoveKeeps

\* What an end leaves of a call.
LEMMA EndedCall ==
  ASSUME NEW q \in Call, NEW out \in Outcomes, NEW vid \in Nat, NEW heard \in SUBSET Things
  PROVE  /\ [q EXCEPT !.pc = "done", !.out = out, !.vid = vid,
                      !.live = 0, !.work = 0, !.reply = "none"] \in Call
         /\ [q EXCEPT !.pc = "done", !.out = out, !.vid = vid,
                      !.live = 0, !.work = 0, !.reply = "none", !.heard = heard] \in Call
<1>1. "done" \in Pcs /\ out \in Outs /\ "none" \in Replies
  BY DEF Pcs, Late, Outs, Replies
<1> QED BY <1>1 DEF Call

\* The end of a call, with an outcome that what it did bears out.
LEMMA EndKeeps ==
  ASSUME DraftsInv, NEW c \in Calls, UNCHANGED <<host, wire>>,
         NEW out \in Outcomes, NEW vid \in Nat, call' = Ending(c, out, vid),
         call[c].pc # "done",
         out = "refused" => ~Wrote(c) /\ wire[c] = NoRequest /\ call[c].made = {},
         out = "failed" => call[c].heard \cap call[c].made = {},
         out = "finished" /\ call[c].tool # "bulk" =>
           /\ call[c].tool # "patch" /\ vid \in DOMAIN revs
           /\ \/ Wrote(c) /\ call[c].tool = "canonical"
              \/ revs[vid].by = c
              \/ /\ call[c].tool \in Nested
                 /\ revs[vid].pins[call[c].slot].id = call[c].parent
  PROVE  DraftsInv'
<1>1. CallInv(c) /\ HostTypeOK /\ CallsTypeOK /\ call[c] \in Call
  BY DEF DraftsInv, CallsTypeOK
<1>2. /\ call' = [call EXCEPT ![c] = call'[c]]
      /\ call'[c] = [call[c] EXCEPT !.pc = "done", !.out = out, !.vid = vid,
                                    !.live = 0, !.work = 0, !.reply = "none"]
  BY <1>1 DEF Ending, CallsTypeOK
<1>3. call'[c] \in Call
  <2> DEFINE q == [call[c] EXCEPT !.pc = "done", !.out = out, !.vid = vid,
                                  !.live = 0, !.work = 0, !.reply = "none"]
  <2>1. q \in Call
    BY <1>1, EndedCall, {} \in SUBSET Things
  <2>2. call'[c] = q
    BY <1>2
  <2> HIDE DEF q
  <2> QED BY <2>1, <2>2
<1>4. /\ call'[c].tool = call[c].tool /\ call'[c].slot = call[c].slot
      /\ call'[c].seen = call[c].seen
      /\ call'[c].parent = call[c].parent /\ call'[c].rev = call[c].rev
      /\ call'[c].made = call[c].made /\ call'[c].heard = call[c].heard
      /\ call'[c].told = call[c].told /\ call'[c].created = call[c].created
      /\ call'[c].pc = "done" /\ call'[c].out = out /\ call'[c].vid = vid
      /\ call'[c].reply = "none"
  BY <1>1, <1>2 DEF Call
<1>5. revs' = revs /\ wire' = wire /\ (Wrote(c)' <=> Wrote(c)) /\ HostTypeOK'
  BY <1>1 DEF host, Wrote, HostTypeOK
<1>6. Moves(c)
  BY <1>2, <1>3, <1>4, <1>5 DEF Moves
<1>7. WritesOnce(c)' /\ ReplyIsTrue(c)' /\ EndedIsDone(c)' /\ RefusedIsClean(c)'
  BY <1>1, <1>4, <1>5
     DEF CallInv, WritesOnce, ReplyIsTrue, EndedIsDone, RefusedIsClean, Ended, Early
<1>8. Bookkept(c)' /\ RowsCounted(c)'
  BY <1>1, <1>4, <1>5 DEF CallInv, Bookkept, RowsCounted
<1>9. CoreIsAnUpdate(c)' /\ SetsOwnSlot(c)'
  BY <1>1, <1>4, <1>5 DEF CallInv, CoreIsAnUpdate, SetsOwnSlot, SentBase
<1>10. VerifiesOwn(c)' /\ PairExists(c)' /\ AliasChosen(c)'
  BY <1>1, <1>4, <1>5 DEF CallInv, VerifiesOwn, PairExists, AliasChosen
<1>11. Landed(c)'
  BY <1>4, <1>5 DEF Landed
<1>12. CallInv(c)'
  BY <1>7, <1>8, <1>9, <1>10, <1>11 DEF CallInv
<1> QED BY <1>5, <1>6, <1>12, MoveKeeps

\* What the stages of a call write into its record leaves it one.
LEMMA CallUpdates ==
  ASSUME NEW q \in Call
  PROVE  /\ \A pc \in Pcs : [q EXCEPT !.pc = pc] \in Call
         /\ \A pc \in Pcs, reply \in Replies : [q EXCEPT !.pc = pc, !.reply = reply] \in Call
         /\ \A made, heard, told \in SUBSET Things, pc \in Pcs, out \in Outs :
              [q EXCEPT !.made = made, !.heard = heard, !.told = told, !.pc = pc, !.out = out]
                \in Call
         /\ \A made, heard, told \in SUBSET Things, created \in Nat :
              [q EXCEPT !.made = made, !.heard = heard, !.told = told, !.created = created]
                \in Call
<1>1. \A pc \in Pcs : [q EXCEPT !.pc = pc] \in Call
  BY DEF Call
<1>2. \A pc \in Pcs, reply \in Replies : [q EXCEPT !.pc = pc, !.reply = reply] \in Call
  BY DEF Call
<1>3. \A made, heard, told \in SUBSET Things, pc \in Pcs, out \in Outs :
        [q EXCEPT !.made = made, !.heard = heard, !.told = told, !.pc = pc, !.out = out] \in Call
  BY DEF Call
<1>4. \A made, heard, told \in SUBSET Things, created \in Nat :
        [q EXCEPT !.made = made, !.heard = heard, !.told = told, !.created = created] \in Call
  BY DEF Call
<1> QED BY <1>1, <1>2, <1>3, <1>4

\* A move that only says where the call is now.
LEMMA StagesKeep ==
  ASSUME DraftsInv, NEW c \in Calls, UNCHANGED <<revs, wire>>, HostTypeOK',
         NEW pc \in Pcs,
         \/ call' = [call EXCEPT ![c].pc = pc]
         \/ call' = [call EXCEPT ![c].pc = pc, ![c].reply = "none"],
         call[c].pc # "done", pc \notin {"after", "afterWorking", "verify", "done"},
         pc \in Early => call[c].pc \in Early,
         pc \in {"start", "published", "working"} =>
           call[c].pc \in {"start", "published", "working"},
         call[c].tool \in Nested => call[c].pc # "start",
         call[c].tool = "patch" /\ pc \in {"write", "wait", "reread", "repaired"} =>
           call[c].pc \in {"write", "wait", "reread", "repaired"}
  PROVE  DraftsInv'
<1>1. CallInv(c) /\ CallsTypeOK /\ call[c] \in Call
  BY DEF DraftsInv, CallsTypeOK
<1>2. /\ call' = [call EXCEPT ![c] = call'[c]]
      /\ \/ call'[c] = [call[c] EXCEPT !.pc = pc]
         \/ call'[c] = [call[c] EXCEPT !.pc = pc, !.reply = "none"]
  BY <1>1 DEF CallsTypeOK
<1>3. call'[c] \in Call
  <2>1. "none" \in Replies
    BY DEF Replies
  <2>2. /\ [call[c] EXCEPT !.pc = pc] \in Call
        /\ [call[c] EXCEPT !.pc = pc, !.reply = "none"] \in Call
    BY <1>1, <2>1, CallUpdates
  <2>3. CASE call'[c] = [call[c] EXCEPT !.pc = pc]
    BY <2>2, <2>3
  <2>4. CASE call'[c] = [call[c] EXCEPT !.pc = pc, !.reply = "none"]
    BY <2>2, <2>4
  <2> QED BY <1>2, <2>3, <2>4
<1>4. /\ call'[c].tool = call[c].tool /\ call'[c].slot = call[c].slot
      /\ call'[c].seen = call[c].seen
      /\ call'[c].parent = call[c].parent /\ call'[c].rev = call[c].rev
      /\ call'[c].made = call[c].made /\ call'[c].heard = call[c].heard
      /\ call'[c].told = call[c].told /\ call'[c].created = call[c].created
      /\ call'[c].pc = pc /\ call'[c].out = call[c].out
      /\ call'[c].reply \in {call[c].reply, "none"}
      /\ call'[c].live = call[c].live /\ call'[c].work = call[c].work
      /\ call'[c].path = call[c].path
  <2>1. call[c] \in Call
    BY <1>1
  <2>2. CASE call'[c] = [call[c] EXCEPT !.pc = pc]
    BY ONLY <2>1, <2>2 DEF Call
  <2>3. CASE call'[c] = [call[c] EXCEPT !.pc = pc, !.reply = "none"]
    BY ONLY <2>1, <2>3 DEF Call
  <2> QED BY ONLY <1>2, <2>2, <2>3
<1>5. Advances(c)
  BY <1>2, <1>3, <1>4 DEF Advances, Moves
<1>6. PairExists(c)' /\ AliasChosen(c)'
  BY <1>1, <1>4 DEF CallInv, PairExists, AliasChosen, Parent, Made
<1> QED BY <1>5, <1>6, AdvanceKeeps

\* What an early call has not done yet, and what no call but two kinds do.
LEMMA EarlyIsClean ==
  ASSUME DraftsInv, NEW c \in Calls
  PROVE  /\ call[c] \in Call
         /\ call[c].pc \in Early => wire[c] = NoRequest /\ ~Wrote(c)
         /\ call[c].tool \notin {"nested", "bulk"} => call[c].made = {}
         /\ call[c].tool = "nested" /\ call[c].pc \in {"start", "published", "working"} =>
              call[c].made = {} /\ call[c].heard = {}
         /\ call[c].out # "none" => call[c].pc = "done"
  BY DEF DraftsInv, CallsTypeOK, CallInv, WritesOnce, Bookkept, EndedIsDone, Ended

\* A move of an early call that is about its books, or ends it with what it has.
LEMMA BooksKeep ==
  ASSUME DraftsInv, NEW c \in Calls, UNCHANGED <<host, wire>>,
         call' = [call EXCEPT ![c] = call'[c]], call'[c] \in Call,
         call'[c].tool = call[c].tool, call'[c].slot = call[c].slot,
         call'[c].seen = call[c].seen, call'[c].parent = call[c].parent,
         call[c].tool \in Nested => call'[c].rev <= 2 * Len(revs),
         call'[c].live = call[c].live, call'[c].work = call[c].work,
         call'[c].reply = call[c].reply,
         call[c].pc \in Early, call'[c].pc \in Early \cup {"confirm", "done"},
         call[c].tool \in Nested => call[c].pc # "start", call[c].tool # "patch",
         call'[c].out \in {"none", "partial", "failed"},
         call'[c].out # "none" => call'[c].pc = "done",
         Bookkept(c)', RowsCounted(c)'
  PROVE  DraftsInv'
<1>1. CallInv(c) /\ HostTypeOK /\ wire[c] = NoRequest /\ ~Wrote(c) /\ call[c].pc # "done"
  BY EarlyIsClean DEF DraftsInv, Early
<1>2. revs' = revs /\ wire' = wire /\ ~Wrote(c)' /\ HostTypeOK' /\ Moves(c)
  BY <1>1 DEF host, Wrote, HostTypeOK, Moves
<1>3. WritesOnce(c)' /\ EndedIsDone(c)' /\ RefusedIsClean(c)'
  BY <1>1, <1>2 DEF WritesOnce, EndedIsDone, RefusedIsClean, Ended
<1>4. ReplyIsTrue(c)'
  BY <1>1, <1>2 DEF CallInv, ReplyIsTrue, Early
<1>5. PairExists(c)' /\ AliasChosen(c)'
  BY <1>1, <1>2 DEF CallInv, PairExists, AliasChosen, Parent, Made
<1>6. CoreIsAnUpdate(c)' /\ SetsOwnSlot(c)' /\ VerifiesOwn(c)' /\ Landed(c)'
  BY <1>1, <1>2 DEF CoreIsAnUpdate, SetsOwnSlot, VerifiesOwn, Landed, NoRequest, Early
<1> QED BY <1>2, <1>3, <1>4, <1>5, <1>6, MoveKeeps DEF CallInv

\* The write is sent, once, with the pins or the state its call is to send.
SetsSlotOf(c, q) ==
  LET base == IF q.work = 0 THEN q.live ELSE q.work IN
  /\ q.pins \in Pins /\ base \in DOMAIN revs
  /\ \A s \in Slots : q.pins[s].rev <= 2 * Len(revs)
  /\ \A s \in Slots \ {call[c].slot} : q.pins[s].id = revs[base].pins[s].id

\* Sending keeps the invariant: nothing is saved yet.
LEMMA SendKeeps ==
  ASSUME DraftsInv, NEW c \in Calls, NEW q \in Request, Send(c, q),
         call[c].pc \in Early, call[c].tool \in Nested => call[c].pc # "start",
         call[c].tool = "patch" => call[c].pc = "write",
         q.kind = "core" => /\ call[c].tool \in {"patch", "canonical"} /\ q.edit = "none"
                            /\ ~q.draft => call[c].seen # "published",
         q.kind = "draft" /\ q.edit = "set" => SetsSlotOf(c, q)
  PROVE  DraftsInv'
<1>1. CallInv(c) /\ HostTypeOK /\ CallsTypeOK /\ call[c] \in Call /\ ~Wrote(c) /\ call[c].pc # "done"
  BY EarlyIsClean DEF DraftsInv, CallsTypeOK, Early
<1>2. /\ call' = [call EXCEPT ![c] = call'[c]]
      /\ call'[c] = [call[c] EXCEPT !.pc = "wait", !.reply = "none"]
  BY <1>1 DEF Send, CallsTypeOK
<1>3. call'[c] \in Call
  <2>1. "wait" \in Pcs /\ "none" \in Replies
    BY DEF Pcs, Late, Replies
  <2> QED BY <1>1, <1>2, <2>1 DEF Call
<1>4. /\ call'[c].tool = call[c].tool /\ call'[c].slot = call[c].slot
      /\ call'[c].seen = call[c].seen
      /\ call'[c].parent = call[c].parent /\ call'[c].rev = call[c].rev
      /\ call'[c].made = call[c].made /\ call'[c].heard = call[c].heard
      /\ call'[c].told = call[c].told /\ call'[c].created = call[c].created
      /\ call'[c].pc = "wait" /\ call'[c].out = call[c].out /\ call'[c].reply = "none"
      /\ call'[c].live = call[c].live /\ call'[c].work = call[c].work
      /\ call'[c].path = call[c].path
  BY <1>1, <1>2 DEF Call
<1>5. CallsTypeOK' /\ \A d \in Calls \ {c} : call'[d] = call[d] /\ wire'[d] = wire[d]
  BY <1>1, <1>2, <1>3 DEF CallsTypeOK, Send
<1>6. wire'[c] = q /\ UNCHANGED host /\ revs' = revs
  BY <1>1 DEF CallsTypeOK, Send, host
<1>7. HostTypeOK' /\ RevsBounded' /\ SavedOnTop' /\ ~Wrote(c)'
  BY <1>1, <1>6 DEF DraftsInv, host, HostTypeOK, RevsBounded, SavedOnTop, Wrote
<1>8. \A d \in Calls \ {c} : CallInv(d)'
  <2> SUFFICES ASSUME NEW d \in Calls \ {c} PROVE CallInv(d)'
    OBVIOUS
  <2>1. RevsKept(d)
    BY <1>6, RevisionTypes DEF RevsKept, DraftsInv
  <2> QED BY <1>5, <2>1, CallKept DEF DraftsInv
<1>9. call[c].out = "none"
  BY <1>1 DEF CallInv, EndedIsDone, Ended
<1>10. WritesOnce(c)' /\ ReplyIsTrue(c)' /\ EndedIsDone(c)' /\ RefusedIsClean(c)'
  BY <1>4, <1>7, <1>9 DEF WritesOnce, ReplyIsTrue, EndedIsDone, RefusedIsClean, Ended, Early
<1>11. Bookkept(c)' /\ RowsCounted(c)' /\ PairExists(c)'
  BY <1>1, <1>4, <1>6, <1>9 DEF CallInv, Bookkept, RowsCounted, PairExists, Parent, Made
<1>12. CoreIsAnUpdate(c)' /\ VerifiesOwn(c)' /\ Landed(c)' /\ AliasChosen(c)'
  BY <1>1, <1>4, <1>6, <1>9
     DEF CallInv, CoreIsAnUpdate, VerifiesOwn, Landed, AliasChosen
<1>13. SetsOwnSlot(c)'
  BY <1>4, <1>6 DEF SetsOwnSlot, SentBase, SetsSlotOf
<1>14. AgentNeverPublishes' /\ NoLostDraft'
  BY <1>4, <1>5, <1>6, MoveKeepsSaves
<1> QED BY <1>5, <1>7, <1>8, <1>10, <1>11, <1>12, <1>13, <1>14 DEF DraftsInv, CallInv

\* The requests the connector sends have the shape Drupal is sent.
LEMMA RequestTypes ==
  ASSUME CallsTypeOK, NEW c \in Calls
  PROVE  /\ \A edit \in {"set", "swap", "component", "none"}, pins \in Pins \cup {<<>>},
               path \in Paths : DraftRequest(c, edit, pins, path) \in Request
         /\ \A path \in Paths, draft \in BOOLEAN : CoreRequest(path, draft) \in Request
<1>1. call[c].live \in Nat /\ call[c].work \in Nat
  BY DEF CallsTypeOK, Call
<1> QED BY <1>1 DEF DraftRequest, CoreRequest, Request

\* A read before the write of a call that is no nested draft.
LEMMA ReadsKeep ==
  ASSUME DraftsInv, NEW c \in Calls, UNCHANGED <<host, wire>>,
         call[c].tool \notin Nested, call[c].pc \in Early,
         NEW q \in Call, call' = [call EXCEPT ![c] = q],
         q.tool = call[c].tool, q.slot = call[c].slot, q.made = call[c].made,
         q.heard = call[c].heard, q.told = call[c].told, q.created = call[c].created,
         q.reply = call[c].reply, q.out = call[c].out, q.pc \in Early,
         q.tool = "patch" /\ q.pc = "write" => q.path \in Aliases
  PROVE  DraftsInv'
<1>1. CallsTypeOK /\ HostTypeOK /\ revs' = revs /\ wire' = wire /\ HostTypeOK'
  BY DEF DraftsInv, host, HostTypeOK
<1>2. call'[c] = q /\ call' = [call EXCEPT ![c] = call'[c]]
  BY <1>1 DEF CallsTypeOK
<1>3. Advances(c)
  BY <1>1, <1>2 DEF Advances, Moves, Early, Nested
<1>4. PairExists(c)' /\ AliasChosen(c)'
  BY <1>2 DEF PairExists, AliasChosen, Early
<1> QED BY <1>1, <1>3, <1>4, AdvanceKeeps

---------------------------------------------------------------------------
(* Drupal *)

\* The answer changes nothing but the reply of a call that waits for it.
Answered(c, k) ==
  call' = IF call[c].reply = "none" /\ call[c].pc = "wait"
          THEN [call EXCEPT ![c].reply = k] ELSE call

\* All else of the call, and every other call, is as it was.
LEMMA AnsweredFacts ==
  ASSUME CallsTypeOK, NEW c \in Calls, NEW k \in Replies, Answered(c, k)
  PROVE  /\ call' \in [Calls -> Call] /\ \A d \in Calls \ {c} : call'[d] = call[d]
         /\ call' = [call EXCEPT ![c] = call'[c]]
         /\ call'[c].tool = call[c].tool /\ call'[c].slot = call[c].slot
         /\ call'[c].seen = call[c].seen
         /\ call'[c].parent = call[c].parent /\ call'[c].rev = call[c].rev
         /\ call'[c].made = call[c].made /\ call'[c].heard = call[c].heard
         /\ call'[c].told = call[c].told /\ call'[c].created = call[c].created
         /\ call'[c].pc = call[c].pc /\ call'[c].out = call[c].out
         /\ call'[c].live = call[c].live /\ call'[c].work = call[c].work
         /\ call'[c].path = call[c].path /\ call'[c].vid = call[c].vid
         /\ call'[c].reply # call[c].reply => call[c].pc = "wait" /\ call'[c].reply = k
<1>1. CASE call' = call
  BY <1>1 DEF CallsTypeOK
<1>2. CASE call[c].pc = "wait" /\ call' = [call EXCEPT ![c].reply = k]
  <2>1. call' = [call EXCEPT ![c] = call'[c]] /\ call'[c] = [call[c] EXCEPT !.reply = k]
        /\ call[c] \in Call
    BY <1>2 DEF CallsTypeOK
  <2>2. call'[c] \in Call
    BY <2>1 DEF Call
  <2>3. call' \in [Calls -> Call] /\ \A d \in Calls \ {c} : call'[d] = call[d]
    BY <2>1, <2>2 DEF CallsTypeOK
  <2>4. /\ call'[c].tool = call[c].tool /\ call'[c].slot = call[c].slot
        /\ call'[c].seen = call[c].seen
        /\ call'[c].parent = call[c].parent /\ call'[c].rev = call[c].rev
        /\ call'[c].made = call[c].made /\ call'[c].heard = call[c].heard
        /\ call'[c].told = call[c].told /\ call'[c].created = call[c].created
        /\ call'[c].pc = call[c].pc /\ call'[c].out = call[c].out
        /\ call'[c].live = call[c].live /\ call'[c].work = call[c].work
        /\ call'[c].path = call[c].path /\ call'[c].vid = call[c].vid
        /\ call'[c].reply = k
    BY <2>1 DEF Call
  <2> QED BY <1>2, <2>1, <2>3, <2>4
<1> QED BY <1>1, <1>2 DEF Answered

\* What the request of c saves: pins of the revision it lands on, but for the
\* component of its own slot.
LEMMA PinsAfterKeep ==
  ASSUME DraftsInv, NEW c \in Calls, wire[c] \in Request,
         IF wire[c].kind = "draft" THEN Matches(wire[c]) ELSE work = live
  PROVE  /\ PinsAfter(c, wire[c]) \in Pins
         /\ \A s \in Slots : PinsAfter(c, wire[c])[s].rev <= 2 * Len(revs) + 1
         /\ \A s \in Slots \ {call[c].slot} :
              PinsAfter(c, wire[c])[s].id = revs[work].pins[s].id
<1> DEFINE q == wire[c]
           p == PinsAfter(c, q)
<1>1. HostTypeOK /\ CallInv(c) /\ call[c].slot \in Slots /\ Len(revs) \in Nat /\ Len(revs) >= 1
  BY RevisionTypes DEF DraftsInv, CallsTypeOK, Call
<1>2. /\ revs[work].pins \in Pins /\ DOMAIN revs[work].pins = Slots
      /\ \A s \in Slots : /\ revs[work].pins[s] \in [id : Authors \X Slots, rev : Nat]
                          /\ revs[work].pins[s].rev \in Nat
                          /\ revs[work].pins[s].rev <= 2 * Len(revs)
  BY <1>1, RevisionTypes DEF DraftsInv, RevsBounded, HostTypeOK, Pins
<1>3. q.kind \in {"draft", "core"} /\ q.edit \in {"set", "swap", "component", "none"}
  BY DEF Request
<1>4. CASE q.edit = "set"
  <2>1. q.kind = "draft" /\ p = q.pins
    BY <1>1, <1>3, <1>4 DEF CallInv, CoreIsAnUpdate, PinsAfter
  <2>2. SentBase(c) = work
    BY <2>1 DEF Matches, SentBase
  <2>3. /\ q.pins \in Pins /\ \A s \in Slots : q.pins[s].rev <= 2 * Len(revs)
        /\ \A s \in Slots \ {call[c].slot} : q.pins[s].id = revs[work].pins[s].id
    BY <1>1, <1>4, <2>1, <2>2 DEF CallInv, SetsOwnSlot
  <2>4. \A s \in Slots : q.pins[s].rev \in Nat
    BY <2>3 DEF Pins
  <2> QED BY <1>1, <2>1, <2>3, <2>4
<1>5. CASE q.edit \in {"swap", "component"}
  <2>1. PICK pin : /\ p = [revs[work].pins EXCEPT ![call[c].slot] = pin]
                   /\ pin \in [id : Authors \X Slots, rev : Nat]
                   /\ pin.rev <= 2 * Len(revs) + 1
    <3>1. CASE q.edit = "swap"
      <4> DEFINE pin == Pin(Made(c, call[c].slot), 1)
      <4>1. pin \in [id : Authors \X Slots, rev : Nat] /\ pin.rev = 1
        BY <1>1 DEF Pin, Made, Authors
      <4>2. p = [revs[work].pins EXCEPT ![call[c].slot] = pin]
        BY <3>1 DEF PinsAfter
      <4> HIDE DEF pin, p
      <4>3. pin.rev <= 2 * Len(revs) + 1
        BY <1>1, <4>1
      <4> QED BY <4>1, <4>2, <4>3
    <3>2. CASE q.edit = "component"
      <4> DEFINE was == revs[work].pins[call[c].slot]
                 pin == [was EXCEPT !.rev = @ + 1]
      <4>0. was \in [id : Authors \X Slots, rev : Nat] /\ was.rev <= 2 * Len(revs)
        BY <1>1, <1>2
      <4>2. p = [revs[work].pins EXCEPT ![call[c].slot] = pin]
        BY <1>1, <1>2, <3>2 DEF PinsAfter
      <4> HIDE DEF was
      <4>1. pin \in [id : Authors \X Slots, rev : Nat] /\ pin.rev = was.rev + 1 /\ was.rev \in Nat
        BY <4>0
      <4> HIDE DEF pin, p
      <4>3. pin.rev <= 2 * Len(revs) + 1
        BY <1>1, <4>0, <4>1
      <4> QED BY <4>1, <4>2, <4>3
    <3> QED BY <1>5, <3>1, <3>2
  <2> HIDE DEF p
  <2>2. \A s \in Slots : p[s] = IF s = call[c].slot THEN pin ELSE revs[work].pins[s]
    BY <1>2, <2>1
  <2>3. p = [s \in Slots |-> p[s]]
    BY <1>2, <2>1
  <2>4. p \in Pins
    BY <1>2, <2>1, <2>2, <2>3 DEF Pins
  <2>5. \A s \in Slots : p[s].rev <= 2 * Len(revs) + 1
    BY <1>1, <1>2, <2>1, <2>2
  <2> QED BY <2>2, <2>4, <2>5 DEF p
<1>6. CASE q.edit = "none"
  <2>1. p = revs[work].pins
    BY <1>6 DEF PinsAfter
  <2> QED BY <1>1, <1>2, <2>1
<1> QED BY <1>3, <1>4, <1>5, <1>6

\* A save keeps what is said of all revisions when it may be said of its own.
LEMMA GrownKeeps ==
  ASSUME DraftsInv, NEW who \in Authors, NEW pins \in Pins, NEW pub \in BOOLEAN,
         Grown(who, pins, pub),
         \A d \in Calls : /\ call'[d].tool = call[d].tool /\ call'[d].slot = call[d].slot
                          /\ call'[d].seen = call[d].seen,
         who \in Calls /\ pub =>
           call[who].tool \in {"patch", "canonical"} /\ call[who].seen # "published",
         who \in Calls => \A s \in Slots \ {call[who].slot} : pins[s].id = revs[work].pins[s].id
  PROVE  AgentNeverPublishes' /\ NoLostDraft'
<1>1. work \in DOMAIN revs /\ \A r \in DOMAIN revs : revs[r].by \in Calls => revs[r].prev \in DOMAIN revs
  BY DEF DraftsInv, HostTypeOK, SavedOnTop
<1>2. AgentNeverPublishes'
  BY DEF DraftsInv, AgentNeverPublishes, Grown
<1>3. NoLostDraft'
  <2> SUFFICES ASSUME NEW r \in DOMAIN revs', revs'[r].by \in Calls,
                      NEW s \in Slots \ {call'[revs'[r].by].slot}
               PROVE  revs'[r].pins[s].id = revs'[revs'[r].prev].pins[s].id
    BY DEF NoLostDraft
  <2>1. CASE r \in DOMAIN revs
    BY <1>1, <2>1 DEF DraftsInv, NoLostDraft, Grown
  <2>2. CASE r = Added
    BY <1>1, <2>2 DEF Grown
  <2> QED BY <2>1, <2>2 DEF Grown
<1> QED BY <1>2, <1>3

\* Drupal handles the request of c: it saves the host and says so, or not.
LEMMA HandleStep ==
  ASSUME DraftsInv, NEW c \in Calls, Handle(c)
  PROVE  DraftsInv'
<1> DEFINE q == wire[c]
           pins == PinsAfter(c, q)
           pub == q.kind = "core" /\ ~q.draft /\ revs[live].pub
<1>1. /\ HostTypeOK /\ CallsTypeOK /\ CallInv(c) /\ RevsBounded /\ SavedOnTop
      /\ q \in Request /\ q # NoRequest /\ wire' = [wire EXCEPT ![c] = NoRequest]
  BY DEF DraftsInv, CallsTypeOK, Handle, NoRequest
<1>2. ~Wrote(c) /\ call[c].pc \notin Early /\ call[c].reply # "refused" /\ call[c].out # "refused"
      /\ call[c].reply # "ok"
  BY <1>1 DEF CallInv, WritesOnce, ReplyIsTrue, RefusedIsClean
<1>3. PICK k \in Replies :
        /\ Answered(c, k)
        /\ \/ Applies(c, q) /\ k \in {"ok", "failed"}
           \/ UNCHANGED host /\ k \in {"refused", "failed", "missing"}
  BY Zenon DEF Handle, Answered, Replies
<1>4. /\ wire' \in [Calls -> Request \cup {NoRequest}] /\ wire'[c] = NoRequest
      /\ \A d \in Calls \ {c} : wire'[d] = wire[d]
  BY <1>1 DEF CallsTypeOK
<1>5. /\ CallsTypeOK' /\ \A d \in Calls \ {c} : call'[d] = call[d]
      /\ \A d \in Calls : /\ call'[d].tool = call[d].tool /\ call'[d].slot = call[d].slot
                          /\ call'[d].seen = call[d].seen
  BY <1>1, <1>3, <1>4, AnsweredFacts DEF CallsTypeOK
<1>6. /\ call'[c].tool = call[c].tool /\ call'[c].slot = call[c].slot
      /\ call'[c].seen = call[c].seen
      /\ call'[c].parent = call[c].parent /\ call'[c].rev = call[c].rev
      /\ call'[c].made = call[c].made /\ call'[c].heard = call[c].heard
      /\ call'[c].told = call[c].told /\ call'[c].created = call[c].created
      /\ call'[c].pc = call[c].pc /\ call'[c].out = call[c].out
      /\ call'[c].live = call[c].live /\ call'[c].work = call[c].work
      /\ call'[c].path = call[c].path /\ call'[c].vid = call[c].vid
      /\ call'[c].reply # call[c].reply => call[c].pc = "wait" /\ call'[c].reply = k
  BY <1>1, <1>3, AnsweredFacts
<1>7. WritesOnce(c)' /\ EndedIsDone(c)' /\ RefusedIsClean(c)' /\ Bookkept(c)' /\ RowsCounted(c)'
  BY <1>1, <1>2, <1>4, <1>6
     DEF CallInv, WritesOnce, EndedIsDone, Ended, RefusedIsClean, Bookkept, RowsCounted
<1>8. CoreIsAnUpdate(c)' /\ SetsOwnSlot(c)' /\ AliasChosen(c)'
  BY <1>1, <1>4, <1>6 DEF CallInv, CoreIsAnUpdate, SetsOwnSlot, AliasChosen, NoRequest
<1>9. CASE UNCHANGED host /\ k \in {"refused", "failed", "missing"}
  <2>1. revs' = revs /\ (Wrote(c)' <=> Wrote(c)) /\ HostTypeOK' /\ RevsBounded' /\ SavedOnTop'
    BY <1>1, <1>9 DEF host, Wrote, HostTypeOK, RevsBounded, SavedOnTop
  <2>2. ReplyIsTrue(c)' /\ VerifiesOwn(c)' /\ Landed(c)'
    BY <1>1, <1>2, <1>4, <1>6, <1>9, <2>1 DEF CallInv, ReplyIsTrue, VerifiesOwn, Landed
  <2>3. PairExists(c)'
    BY <1>1, <1>6, <2>1 DEF CallInv, PairExists, Parent, Made
  <2>4. \A d \in Calls : RevsKept(d)
    BY <1>1, <2>1, RevisionTypes DEF RevsKept
  <2>5. \A d \in Calls \ {c} : CallInv(d)'
    BY <1>1, <1>4, <1>5, <2>4, CallKept DEF DraftsInv
  <2>6. AgentNeverPublishes' /\ NoLostDraft'
    BY <1>5, <2>1, MoveKeepsSaves
  <2> QED BY <1>5, <1>7, <1>8, <2>1, <2>2, <2>3, <2>5, <2>6 DEF DraftsInv, CallInv
<1>10. CASE Applies(c, q) /\ k \in {"ok", "failed"}
  <2>1. /\ pins \in Pins /\ \A s \in Slots : pins[s].rev <= 2 * Len(revs) + 1
        /\ \A s \in Slots \ {call[c].slot} : pins[s].id = revs[work].pins[s].id
    BY <1>1, <1>10, PinsAfterKeep DEF Applies
  <2>2. c \in Authors /\ pub \in BOOLEAN /\ Save(c, pins, pub)
    BY <1>10 DEF Applies, Authors
  <2>3. pub => call[c].tool \in {"patch", "canonical"} /\ call[c].seen # "published"
    BY <1>1 DEF CallInv, CoreIsAnUpdate
  <2>4. alias' \in Aliases /\ edits' \in Nat
    BY <1>1, <1>10 DEF Applies, WriteAlias, HostTypeOK, Request, Paths, Aliases
  <2> HIDE DEF pins, pub
  <2>5. /\ Grown(c, pins, pub)
        /\ revs' \in Seq(Revision) /\ live' \in DOMAIN revs' /\ work' \in DOMAIN revs'
        /\ RevsBounded' /\ SavedOnTop'
    BY <1>1, <2>1, <2>2, SaveGrows
  <2>6. HostTypeOK'
    BY <2>4, <2>5 DEF HostTypeOK
  <2>7. AgentNeverPublishes' /\ NoLostDraft'
    BY <1>5, <2>1, <2>2, <2>3, <2>5, GrownKeeps
  <2>8. \A d \in Calls \ {c} : CallInv(d)'
    <3>1. \A d \in Calls \ {c} : RevsKept(d)
      BY <1>1, <2>5, RevisionTypes DEF RevsKept, Grown, Added
    <3> QED BY <1>1, <1>4, <1>5, <3>1, CallKept DEF DraftsInv
  <2>9. Wrote(c)' /\ DOMAIN revs \subseteq DOMAIN revs' /\ \A r \in DOMAIN revs : revs'[r] = revs[r]
    BY <2>5 DEF Wrote, Grown
  <2>10. ReplyIsTrue(c)'
    BY <1>1, <1>2, <1>6, <1>10, <2>9 DEF CallInv, ReplyIsTrue
  <2>11. VerifiesOwn(c)' /\ Landed(c)' /\ PairExists(c)'
    <3>1. Len(revs') \in Nat /\ Len(revs) <= Len(revs')
      BY <1>1, <2>5, RevisionTypes DEF Grown, Added
    <3>2. call[c].tool \in Nested => call'[c].rev <= 2 * Len(revs')
      BY <1>1, <1>6, <3>1, RevKept DEF CallInv
    <3> QED BY <1>1, <1>6, <2>9, <3>2
            DEF CallInv, VerifiesOwn, Landed, PairExists, Parent, Made
  <2> QED BY <1>5, <1>7, <1>8, <2>5, <2>6, <2>7, <2>8, <2>10, <2>11 DEF DraftsInv, CallInv
<1> QED BY <1>3, <1>9, <1>10

\* A lost answer is no answer: the call goes on, and the request may still land.
LEMMA LoseStep ==
  ASSUME DraftsInv, NEW c \in Calls, Lose(c)
  PROVE  DraftsInv'
<1>1. /\ HostTypeOK /\ CallsTypeOK /\ CallInv(c) /\ UNCHANGED <<host, wire>>
      /\ Answered(c, "lost") /\ "lost" \in Replies
      /\ call[c].reply = "none" /\ call'[c].reply = "lost" /\ call[c].pc = "wait"
  BY DEF DraftsInv, CallsTypeOK, Lose, Answered, Replies, Call
<1>2. /\ call' = [call EXCEPT ![c] = call'[c]] /\ call'[c] \in Call
      /\ call'[c].tool = call[c].tool /\ call'[c].slot = call[c].slot
      /\ call'[c].seen = call[c].seen
      /\ call'[c].parent = call[c].parent /\ call'[c].rev = call[c].rev
      /\ call'[c].made = call[c].made /\ call'[c].heard = call[c].heard
      /\ call'[c].told = call[c].told /\ call'[c].created = call[c].created
      /\ call'[c].pc = call[c].pc /\ call'[c].out = call[c].out
      /\ call'[c].live = call[c].live /\ call'[c].work = call[c].work
      /\ call'[c].path = call[c].path /\ call'[c].vid = call[c].vid
  BY <1>1, AnsweredFacts
<1>3. revs' = revs /\ wire' = wire /\ (Wrote(c)' <=> Wrote(c)) /\ HostTypeOK' /\ Moves(c)
  BY <1>1, <1>2 DEF host, Wrote, HostTypeOK, Moves
<1>4. WritesOnce(c)' /\ ReplyIsTrue(c)' /\ EndedIsDone(c)' /\ RefusedIsClean(c)' /\ Landed(c)'
  BY <1>1, <1>2, <1>3
     DEF CallInv, WritesOnce, ReplyIsTrue, EndedIsDone, Ended, RefusedIsClean, Landed
<1>5. Bookkept(c)' /\ RowsCounted(c)' /\ CoreIsAnUpdate(c)' /\ VerifiesOwn(c)' /\ AliasChosen(c)'
  BY <1>1, <1>2, <1>3
     DEF CallInv, Bookkept, RowsCounted, CoreIsAnUpdate, VerifiesOwn, AliasChosen
<1>6. PairExists(c)' /\ SetsOwnSlot(c)'
  BY <1>1, <1>2, <1>3 DEF CallInv, PairExists, Parent, Made, SetsOwnSlot, SentBase
<1> QED BY <1>3, <1>4, <1>5, <1>6, MoveKeeps DEF CallInv

\* The editor changes the host, and no call.
LEMMA EditorStep ==
  ASSUME DraftsInv, Environment
  PROVE  DraftsInv'
<1>1. HostTypeOK /\ CallsTypeOK /\ RevsBounded /\ SavedOnTop /\ UNCHANGED <<call, wire>>
  BY DEF DraftsInv, Environment, EditorSaves, EditorDiscards, EditorRenames
<1>2. Editor \in Authors /\ Editor \notin Calls
  BY HostAssumption DEF Authors
<1>3. CASE revs' = revs /\ HostTypeOK'
  <2>1. \A d \in Calls : RevsKept(d)
    BY <1>1, <1>3, RevisionTypes DEF RevsKept
  <2>2. \A d \in Calls : CallInv(d)'
    BY <1>1, <2>1, CallKept DEF DraftsInv
  <2>3. AgentNeverPublishes' /\ NoLostDraft'
    BY <1>1, <1>3 DEF DraftsInv, AgentNeverPublishes, NoLostDraft
  <2> QED BY <1>1, <1>3, <2>2, <2>3 DEF DraftsInv, CallsTypeOK, RevsBounded, SavedOnTop
<1>4. ASSUME NEW pub \in BOOLEAN, EditorSaves(pub) PROVE DraftsInv'
  <2>1. /\ revs[work].pins \in Pins
        /\ \A s \in Slots : revs[work].pins[s].rev <= 2 * Len(revs) + 1
    <3>1. /\ work \in DOMAIN revs /\ Len(revs) \in Nat /\ revs[work].pins \in Pins
          /\ \A s \in Slots : /\ revs[work].pins[s].rev \in Nat
                              /\ revs[work].pins[s].rev <= 2 * Len(revs)
      BY <1>1, RevisionTypes DEF HostTypeOK, RevsBounded
    <3> QED BY <3>1
  <2>2. /\ Grown(Editor, revs[work].pins, pub)
        /\ revs' \in Seq(Revision) /\ live' \in DOMAIN revs' /\ work' \in DOMAIN revs'
        /\ RevsBounded' /\ SavedOnTop'
    BY <1>1, <1>2, <1>4, <2>1, SaveGrows DEF EditorSaves
  <2>3. HostTypeOK'
    BY <1>1, <1>4, <2>2 DEF HostTypeOK, EditorSaves
  <2>4. \A d \in Calls : RevsKept(d)
    BY <1>1, <1>2, <2>2, RevisionTypes DEF RevsKept, Grown, Added
  <2>5. \A d \in Calls : CallInv(d)'
    BY <1>1, <2>4, CallKept DEF DraftsInv
  <2>6. AgentNeverPublishes' /\ NoLostDraft'
    BY <1>1, <1>2, <2>1, <2>2, GrownKeeps
  <2> QED BY <1>1, <2>2, <2>3, <2>5, <2>6 DEF DraftsInv, CallsTypeOK
<1>5. CASE EditorDiscards \/ EditorRenames
  <2>1. revs' = revs /\ HostTypeOK'
    BY <1>1, <1>5 DEF EditorDiscards, EditorRenames, HostTypeOK, Aliases
  <2> QED BY <1>3, <2>1
<1> QED BY <1>4, <1>5 DEF Environment

---------------------------------------------------------------------------
(* nested-draft.js *)

\* The inventory names revisions that exist.
LEMMA InventoryTypes ==
  ASSUME HostTypeOK
  PROVE  /\ live \in DOMAIN revs /\ live \in Nat /\ live # 0
         /\ InventoryWork \in {0} \cup DOMAIN revs /\ InventoryWork \in Nat
  BY RevisionTypes DEF HostTypeOK, InventoryWork

\* A refusal of a nested draft comes before it has created or sent anything.
LEMMA RefuseNestedStep ==
  ASSUME DraftsInv, NEW c \in Calls, RefuseNested(c)
  PROVE  DraftsInv'
<1>1. /\ UNCHANGED <<host, wire>> /\ call' = Ending(c, "refused", 0)
      /\ call[c].pc # "done" /\ ~Wrote(c) /\ wire[c] = NoRequest /\ call[c].made = {}
  BY EarlyIsClean DEF RefuseNested, End, Nested, Early
<1>2. "refused" \in Outcomes /\ 0 \in Nat
  BY DEF Outcomes
<1> QED BY <1>1, <1>2, EndKeeps

\* The inventory gives a nested draft the pair it goes by, and its parent.
LEMMA InventoryStep ==
  ASSUME DraftsInv, NEW c \in Calls, ReadInventory(c) \/ ResumeInventory(c)
  PROVE  DraftsInv'
<1>1. CallInv(c) /\ HostTypeOK /\ CallsTypeOK /\ call[c] \in Call
  BY DEF DraftsInv, CallsTypeOK
<1>2. PICK parent \in Authors \X Slots :
        /\ call' = [call EXCEPT ![c].pc = "published", ![c].live = live,
                                ![c].work = InventoryWork, ![c].parent = parent]
        /\ call[c].tool = "atomic" => parent = Parent(c)
  <2>1. \A d \in Calls : call[d].slot \in Slots
    BY DEF DraftsInv, CallsTypeOK, Call
  <2>2. CASE ReadInventory(c)
    BY <2>1, <2>2 DEF ReadInventory, Parent, Made, Authors
  <2>3. CASE ResumeInventory(c)
    <3>1. PICK d \in Calls :
            call' = [call EXCEPT ![c].pc = "published", ![c].live = live,
                                 ![c].work = InventoryWork, ![c].parent = Parent(d)]
      BY <2>3 DEF ResumeInventory
    <3>2. Parent(d) \in Authors \X Slots
      BY <2>1 DEF Parent, Made, Authors
    <3> QED BY <2>3, <3>1, <3>2 DEF ResumeInventory, At
  <2> QED BY <2>2, <2>3
<1>3. /\ call[c].tool \in Nested /\ call[c].pc = "start" /\ UNCHANGED <<host, wire>>
  BY DEF ReadInventory, ResumeInventory, At, Nested
<1>4. /\ call' = [call EXCEPT ![c] = call'[c]]
      /\ call'[c] = [call[c] EXCEPT !.pc = "published", !.live = live,
                                    !.work = InventoryWork, !.parent = parent]
  BY <1>1, <1>2 DEF CallsTypeOK
<1>5. call'[c] \in Call
  <2>1. "published" \in Pcs /\ parent \in Parents
    BY DEF Pcs, Early, Parents
  <2> QED BY <1>1, <1>4, <2>1, InventoryTypes DEF Call
<1>6. /\ call'[c].tool = call[c].tool /\ call'[c].slot = call[c].slot
      /\ call'[c].seen = call[c].seen /\ call'[c].parent = parent /\ call'[c].rev = call[c].rev
      /\ call'[c].made = call[c].made /\ call'[c].heard = call[c].heard
      /\ call'[c].told = call[c].told /\ call'[c].created = call[c].created
      /\ call'[c].pc = "published" /\ call'[c].out = call[c].out
      /\ call'[c].reply = call[c].reply
      /\ call'[c].live = live /\ call'[c].work = InventoryWork
  BY <1>1, <1>4 DEF Call
<1>7. Advances(c) /\ HostTypeOK'
  BY <1>1, <1>3, <1>4, <1>5, <1>6 DEF Advances, Moves, Early, host, HostTypeOK
<1>8. PairExists(c)' /\ AliasChosen(c)'
  BY <1>1, <1>2, <1>3, <1>6, InventoryTypes
     DEF CallInv, PairExists, AliasChosen, Parent, Made, host
<1> QED BY <1>7, <1>8, AdvanceKeeps

\* The checks before the host write and after it.
LEMMA NestedStagesStep ==
  ASSUME DraftsInv, NEW c \in Calls,
         \/ ReadPublished(c) \/ Preflight(c) \/ PreflightFails(c) \/ HostAnswered(c)
         \/ ConfirmPublished(c)
  PROVE  DraftsInv'
<1>1. /\ UNCHANGED <<host, wire>> /\ UNCHANGED <<revs, wire>> /\ HostTypeOK'
      /\ call[c].tool \in Nested /\ call[c].tool # "bulk" /\ call[c].tool # "patch"
  BY DEF ReadPublished, Preflight, PreflightFails, HostAnswered, ConfirmPublished, Nested, host,
         DraftsInv, HostTypeOK
<1>2. {"working", "write", "confirm", "confirmWorking"} \subseteq Pcs
  BY DEF Pcs, Early, Late
<1>3. {"uncertain", "missing", "refused"} \subseteq Outcomes /\ 0 \in Nat
  BY DEF Outcomes
<1>4. CASE ReadPublished(c)
  BY <1>1, <1>2, <1>4, StagesKeep DEF ReadPublished, Early
<1>5. CASE Preflight(c)
  BY <1>1, <1>2, <1>5, StagesKeep DEF Preflight, Early
<1>6. CASE PreflightFails(c)
  <2>1. call[c].pc = "preflight" /\ "preflight" \in Early /\ call[c].pc # "done"
    BY <1>6 DEF PreflightFails, Early
  <2>2. CASE call' = Ending(c, "missing", 0)
    BY <1>1, <1>3, <2>1, <2>2, EndKeeps
  <2>3. CASE call[c].tool = "atomic" /\ call' = Ending(c, "refused", 0)
    BY <1>1, <1>3, <2>1, <2>3, EarlyIsClean, EndKeeps
  <2>4. CASE call' = [call EXCEPT ![c].pc = "confirm"]
    BY <1>1, <1>2, <2>1, <2>4, StagesKeep DEF Early
  <2> QED BY <1>6, <2>2, <2>3, <2>4 DEF PreflightFails, End
<1>7. CASE HostAnswered(c)
  <2>1. call[c].pc = "wait"
    BY <1>7 DEF HostAnswered
  <2>2. CASE call' = Ending(c, "missing", 0)
    BY <1>1, <1>3, <2>1, <2>2, EndKeeps
  <2>3. CASE call' = [call EXCEPT ![c].pc = "confirm", ![c].reply = "none"]
    BY <1>1, <1>2, <2>1, <2>3, StagesKeep DEF Early
  <2> QED BY <1>7, <2>2, <2>3 DEF HostAnswered, End
<1>8. CASE ConfirmPublished(c)
  <2>1. call[c].pc = "confirm"
    BY <1>8 DEF ConfirmPublished
  <2>2. CASE call' = Ending(c, "uncertain", 0)
    BY <1>1, <1>3, <2>1, <2>2, EndKeeps
  <2>3. CASE call' = [call EXCEPT ![c].pc = "confirmWorking"]
    BY <1>1, <1>2, <2>1, <2>3, StagesKeep DEF Early
  <2> QED BY <1>8, <2>2, <2>3 DEF ConfirmPublished, End
<1> QED BY <1>4, <1>5, <1>6, <1>7, <1>8

\* The parent an earlier call reported is among the things calls name.
LEMMA ReadWorkingStep ==
  ASSUME DraftsInv, NEW c \in Calls, ReadWorking(c)
  PROVE  DraftsInv'
<1>1. CallInv(c) /\ HostTypeOK /\ CallsTypeOK /\ call[c] \in Call /\ RevsBounded
  BY DEF DraftsInv, CallsTypeOK
<1>2. /\ call[c].tool \in Nested /\ call[c].pc = "working" /\ UNCHANGED <<host, wire>>
      /\ call[c].parent \in Authors \X Slots
  BY <1>1 DEF ReadWorking, CallInv, PairExists
<1>3. PICK pc \in {"create", "confirm", "preflight"}, told \in {{}, {call[c].parent}},
           rev \in {1, ParagraphRevision(call[c].parent)} :
        call' = [call EXCEPT ![c].pc = pc, ![c].rev = rev, ![c].told = told]
  BY DEF ReadWorking
<1>4. /\ call' = [call EXCEPT ![c] = call'[c]]
      /\ call'[c] = [call[c] EXCEPT !.pc = pc, !.rev = rev, !.told = told]
  BY <1>1, <1>3 DEF CallsTypeOK
<1>5. rev \in Nat /\ rev <= 2 * Len(revs)
  <2>1. ParagraphRevision(call[c].parent) \in Nat
        /\ ParagraphRevision(call[c].parent) <= 2 * Len(revs)
    BY <1>1, ParagraphRevisionType
  <2>2. Len(revs) \in Nat /\ Len(revs) >= 1
    BY <1>1 DEF HostTypeOK
  <2> HIDE DEF ParagraphRevision
  <2> QED BY <1>3, <2>1, <2>2
<1>6. call'[c] \in Call
  <2>1. pc \in Pcs
    BY DEF Pcs, Early, Late
  <2>2. told \in SUBSET Things
    BY <1>2, HostAssumption DEF Things
  <2> QED BY <1>1, <1>4, <1>5, <2>1, <2>2 DEF Call
<1>7. /\ call'[c].tool = call[c].tool /\ call'[c].slot = call[c].slot
      /\ call'[c].seen = call[c].seen
      /\ call'[c].parent = call[c].parent /\ call'[c].rev = rev
      /\ call'[c].made = call[c].made /\ call'[c].heard = call[c].heard
      /\ call'[c].created = call[c].created
      /\ call'[c].pc = pc /\ call'[c].out = call[c].out
      /\ call'[c].reply = call[c].reply
      /\ call'[c].live = call[c].live /\ call'[c].work = call[c].work
  BY <1>1, <1>4, <1>5 DEF Call
<1>8. Bookkept(c)' /\ RowsCounted(c)'
  BY <1>1, <1>2, <1>7 DEF CallInv, Bookkept, RowsCounted, Nested, EndedIsDone, Ended
<1> QED BY <1>1, <1>2, <1>4, <1>5, <1>6, <1>7, <1>8, BooksKeep
        DEF Early, Nested, CallInv, EndedIsDone, Ended

\* The client sequence creates a paragraph and notes it, whatever follows.
LEMMA CreateStep ==
  ASSUME DraftsInv, NEW c \in Calls, CreateParagraph(c) \/ CreateFails(c)
  PROVE  DraftsInv'
<1> DEFINE p == NextParagraph(c)
<1>1. CallInv(c) /\ HostTypeOK /\ CallsTypeOK /\ call[c] \in Call
  BY DEF DraftsInv, CallsTypeOK
<1>2. /\ call[c].tool = "nested" /\ call[c].pc = "create" /\ UNCHANGED <<host, wire>>
      /\ call[c].out = "none" /\ call[c].heard \subseteq call[c].told
  BY <1>1 DEF CreateParagraph, CreateFails, At, CallInv, EndedIsDone, Ended, Bookkept
<1>3. p \in Things
  <2>1. call[c].slot \in Slots
    BY <1>1 DEF Call
  <2>2. call[c].slot \in Nat
    BY <2>1, HostAssumption
  <2> QED BY <2>2 DEF NextParagraph, Child, Parent, Made, Things, Authors
<1> HIDE DEF p
<1>4. PICK made \in {call[c].made, call[c].made \cup {p}},
           heard \in {call[c].heard, call[c].heard \cup {p}},
           told \in {call[c].told, call[c].told \cup {p}},
           pc \in {"done", "preflight", "create"}, out \in {"none", "partial", "failed"} :
        /\ call' = [call EXCEPT ![c].made = made, ![c].heard = heard, ![c].told = told,
                                ![c].pc = pc, ![c].out = out]
        /\ heard \subseteq told
        /\ out # "none" => pc = "done"
        /\ out = "failed" => heard = {}
  <2>1. CASE CreateParagraph(c)
    <3>1. PICK good \in BOOLEAN :
            call' = [call EXCEPT
              ![c].made = @ \cup {p}, ![c].heard = @ \cup {p}, ![c].told = Tell(c, p, good),
              ![c].pc = IF ~good THEN "done" ELSE IF p = Parent(c) THEN "preflight" ELSE "create",
              ![c].out = IF good THEN "none" ELSE "partial"]
      BY <2>1 DEF CreateParagraph, p
    <3>2. call' = [call EXCEPT
            ![c].made = call[c].made \cup {p}, ![c].heard = call[c].heard \cup {p},
            ![c].told = call[c].told \cup {p},
            ![c].pc = IF ~good THEN "done" ELSE IF p = Parent(c) THEN "preflight" ELSE "create",
            ![c].out = IF good THEN "none" ELSE "partial"]
      BY <1>1, <3>1 DEF CallsTypeOK, Tell, Call
    <3> QED BY <1>2, <3>2
  <2>2. CASE CreateFails(c)
    <3>1. PICK lost \in BOOLEAN :
            call' = [call EXCEPT
              ![c].made = IF lost THEN @ \cup {p} ELSE @, ![c].pc = "done",
              ![c].out = IF call[c].told = {} THEN "failed" ELSE "partial"]
      BY <2>2 DEF CreateFails, p
    <3> DEFINE made == IF lost THEN call[c].made \cup {p} ELSE call[c].made
               out == IF call[c].told = {} THEN "failed" ELSE "partial"
    <3>a. call' = [call EXCEPT
              ![c] = [call[c] EXCEPT !.made = made, !.pc = "done", !.out = out]]
      BY <3>1
    <3>b. ASSUME NEW q \in Call, NEW m, NEW o
          PROVE  [q EXCEPT !.made = m, !.pc = "done", !.out = o] =
                 [q EXCEPT !.made = m, !.heard = q.heard, !.told = q.told,
                           !.pc = "done", !.out = o]
      BY DEF Call
    <3>c. call' = [call EXCEPT
              ![c] = [call[c] EXCEPT !.made = made, !.heard = call[c].heard,
                                     !.told = call[c].told, !.pc = "done", !.out = out]]
      BY <1>1, <3>a, <3>b
    <3>2. call' = [call EXCEPT
              ![c].made = made, ![c].heard = call[c].heard, ![c].told = call[c].told,
              ![c].pc = "done", ![c].out = out]
      BY <3>c
    <3>3. /\ made \in {call[c].made, call[c].made \cup {p}}
          /\ out \in {"none", "partial", "failed"}
          /\ out = "failed" => call[c].told = {}
      OBVIOUS
    <3>4. /\ call[c].heard \subseteq call[c].told
          /\ out = "failed" => call[c].heard = {}
      BY <1>2, <3>3
    <3> HIDE DEF made, out
    <3> QED BY <3>2, <3>3, <3>4
  <2> QED BY <2>1, <2>2
<1>5. /\ call' = [call EXCEPT ![c] = call'[c]]
      /\ call'[c] = [call[c] EXCEPT !.made = made, !.heard = heard, !.told = told,
                                    !.pc = pc, !.out = out]
  BY <1>1, <1>4 DEF CallsTypeOK
<1>6. call'[c] \in Call
  <2>1. pc \in Pcs /\ out \in Outs
    BY DEF Pcs, Early, Late, Outs, Outcomes
  <2>2. made \in SUBSET Things /\ heard \in SUBSET Things /\ told \in SUBSET Things
    <3>1. /\ call[c].made \in SUBSET Things /\ call[c].heard \in SUBSET Things
          /\ call[c].told \in SUBSET Things
      BY <1>1 DEF Call
    <3> QED BY <1>3, <3>1
  <2>3. [call[c] EXCEPT !.made = made, !.heard = heard, !.told = told, !.pc = pc, !.out = out]
          \in Call
    BY <1>1, <2>1, <2>2, CallUpdates
  <2> QED BY ONLY <1>5, <2>3
<1>7. /\ call'[c].tool = call[c].tool /\ call'[c].slot = call[c].slot
      /\ call'[c].seen = call[c].seen
      /\ call'[c].parent = call[c].parent /\ call'[c].rev = call[c].rev
      /\ call'[c].made = made /\ call'[c].heard = heard /\ call'[c].told = told
      /\ call'[c].pc = pc /\ call'[c].out = out /\ call'[c].reply = call[c].reply
      /\ call'[c].live = call[c].live /\ call'[c].work = call[c].work
  BY <1>1, <1>5 DEF Call
<1>8. /\ pc \notin {"start", "published", "working"} /\ pc \in Early \cup {"confirm", "done"}
      /\ "create" \in Early /\ call[c].tool \notin {"bulk"}
  BY <1>2 DEF Early
<1>9. Bookkept(c)'
  <2>1. call'[c].heard \subseteq call'[c].told
    BY <1>4, <1>7
  <2>2. call'[c].out = "failed" => call'[c].heard \cap call'[c].made = {}
    BY <1>4, <1>7
  <2>3. call'[c].tool = "nested" /\ call'[c].pc \notin {"start", "published", "working"}
    BY <1>2, <1>7, <1>8
  <2> QED BY <2>1, <2>2, <2>3 DEF Bookkept
<1>10. RowsCounted(c)'
  BY <1>2, <1>7 DEF RowsCounted
<1>11. out # "none" => pc = "done"
  BY <1>4
<1>12. call'[c].rev <= 2 * Len(revs)
  BY <1>1, <1>2, <1>7 DEF CallInv, PairExists, Nested
<1> QED BY <1>2, <1>5, <1>6, <1>7, <1>8, <1>9, <1>10, <1>11, <1>12, BooksKeep

\* The host write of a nested draft sets the pin of its own slot.
LEMMA SendHostStep ==
  ASSUME DraftsInv, NEW c \in Calls, SendHost(c)
  PROVE  DraftsInv'
<1>1. CallInv(c) /\ HostTypeOK /\ CallsTypeOK /\ call[c] \in Call /\ RevsBounded
  BY DEF DraftsInv, CallsTypeOK
<1>2. call[c].tool \in Nested /\ call[c].pc = "write" /\ Send(c, HostRequest(c))
  BY DEF SendHost
<1>3. "write" \in Early /\ "none" \in Paths
  BY DEF Early, Paths
<1>4. CASE call[c].tool = "atomic"
  <2> DEFINE q == DraftRequest(c, "swap", <<>>, "none")
  <2>1. q \in Request /\ HostRequest(c) = q /\ q.kind = "draft" /\ q.edit = "swap"
    BY <1>1, <1>3, <1>4, RequestTypes DEF HostRequest, DraftRequest
  <2> HIDE DEF q
  <2> QED BY <1>2, <1>3, <2>1, SendKeeps DEF Nested
<1>5. CASE call[c].tool # "atomic"
  <2> DEFINE q == DraftRequest(c, "set", NextPins(c), "none")
             pin == Pin(call[c].parent, call[c].rev)
  <2>1. /\ Base(c) \in DOMAIN revs /\ call[c].parent \in Authors \X Slots
        /\ call[c].rev <= 2 * Len(revs)
    BY <1>1, <1>2 DEF CallInv, PairExists, Base
  <2>2. /\ pin \in [id : Authors \X Slots, rev : Nat]
        /\ pin.rev <= 2 * Len(revs)
    BY <1>1, <2>1 DEF Call, Pin
  <2>3. NextPins(c) = [revs[Base(c)].pins EXCEPT ![call[c].slot] = pin]
    BY DEF NextPins
  <2>4. revs[Base(c)].pins \in Pins /\ \A s \in Slots : revs[Base(c)].pins[s].rev <= 2 * Len(revs)
    BY <1>1, <2>1, RevisionTypes DEF RevsBounded
  <2> HIDE DEF pin
  <2>5. /\ NextPins(c) \in Pins
        /\ \A s \in Slots : NextPins(c)[s].rev <= 2 * Len(revs)
        /\ \A s \in Slots \ {call[c].slot} : NextPins(c)[s] = revs[Base(c)].pins[s]
    <3>1. DOMAIN revs[Base(c)].pins = Slots
      BY <2>4 DEF Pins
    <3>2. \A s \in Slots : NextPins(c)[s] = IF s = call[c].slot THEN pin ELSE revs[Base(c)].pins[s]
      BY <2>3, <3>1
    <3>3. \A s \in Slots : NextPins(c)[s] \in [id : Authors \X Slots, rev : Nat]
      BY <2>2, <2>4, <3>2 DEF Pins
    <3>4. NextPins(c) = [s \in Slots |-> NextPins(c)[s]]
      BY <2>3, <3>1, <2>4 DEF Pins
    <3>5. \A s \in Slots : NextPins(c)[s].rev <= 2 * Len(revs)
      BY <2>2, <2>4, <3>2
    <3> QED BY <3>2, <3>3, <3>4, <3>5 DEF Pins
  <2>6. q \in Request
    BY <1>1, <1>3, <2>5, RequestTypes
  <2>7. /\ HostRequest(c) = q /\ q.kind = "draft" /\ q.pins = NextPins(c)
        /\ q.live = call[c].live /\ q.work = call[c].work
    BY <1>5 DEF HostRequest, DraftRequest
  <2> HIDE DEF q
  <2>8. SetsSlotOf(c, q)
    BY <2>1, <2>5, <2>7 DEF SetsSlotOf, Base
  <2> QED BY <1>2, <1>3, <2>6, <2>7, <2>8, SendKeeps DEF Nested
<1> QED BY <1>4, <1>5

\* A nested draft that reports a working copy has found its parent pinned there.
LEMMA ConfirmWorkingStep ==
  ASSUME DraftsInv, NEW c \in Calls, ConfirmWorking(c)
  PROVE  DraftsInv'
<1>1. CallInv(c) /\ HostTypeOK /\ CallsTypeOK /\ call[c] \in Call
  BY DEF DraftsInv, CallsTypeOK
<1>2. /\ call[c].tool \in Nested /\ call[c].pc = "confirmWorking" /\ UNCHANGED <<host, wire>>
      /\ call[c].tool # "bulk" /\ call[c].tool # "patch"
      /\ work \in DOMAIN revs /\ work \in Nat
  BY <1>1, RevisionTypes DEF ConfirmWorking, Nested, HostTypeOK
<1>3. {"uncertain", "partial", "finished"} \subseteq Outcomes /\ 0 \in Nat
  BY DEF Outcomes
<1>4. CASE call' = Ending(c, "uncertain", 0) \/ call' = Ending(c, "partial", 0)
  BY <1>2, <1>3, <1>4, EndKeeps
<1>5. CASE /\ call' = Ending(c, "finished", work)
           /\ IF call[c].tool = "atomic" THEN SwapLanded(c) ELSE PinsLanded(c)
  <2>1. revs[work].pins[call[c].slot].id = call[c].parent
    <3>1. CASE call[c].tool = "atomic"
      BY <1>1, <1>2, <1>5, <3>1 DEF SwapLanded, CallInv, PairExists
    <3>2. CASE call[c].tool # "atomic"
      <4>1. Base(c) \in DOMAIN revs
        BY <1>1, <1>2 DEF CallInv, PairExists, Base
      <4>2. revs[Base(c)].pins \in Pins /\ call[c].slot \in Slots
        BY <1>1, <4>1, RevisionTypes DEF Call
      <4>3. NextPins(c)[call[c].slot].id = call[c].parent
        BY <4>2 DEF NextPins, Pin, Pins
      <4> QED BY <1>5, <3>2, <4>3 DEF PinsLanded
    <3> QED BY <3>1, <3>2
  <2> QED BY <1>2, <1>3, <1>5, <2>1, EndKeeps
<1>6. \/ call' = Ending(c, "uncertain", 0) \/ call' = Ending(c, "partial", 0)
      \/ /\ call' = Ending(c, "finished", work)
         /\ IF call[c].tool = "atomic" THEN SwapLanded(c) ELSE PinsLanded(c)
  BY Zenon DEF ConfirmWorking, End, Finish
<1> QED BY <1>4, <1>5, <1>6

---------------------------------------------------------------------------
(* updateNode and the other writes of the tools *)

\* A refusal comes before anything is sent.
LEMMA RefusePatchStep ==
  ASSUME DraftsInv, NEW c \in Calls, RefusePatch(c)
  PROVE  DraftsInv'
<1>1. /\ UNCHANGED <<host, wire>> /\ call' = Ending(c, "refused", 0)
      /\ call[c].pc # "done" /\ ~Wrote(c) /\ wire[c] = NoRequest /\ call[c].made = {}
  BY EarlyIsClean DEF RefusePatch, End, Patched, Early
<1>2. "refused" \in Outcomes /\ 0 \in Nat
  BY DEF Outcomes
<1> QED BY <1>1, <1>2, EndKeeps

\* The reads of updateNode, writeComponentDraft and createTranslation.
LEMMA PatchReadsStep ==
  ASSUME DraftsInv, NEW c \in Calls,
         \/ PreRead(c) \/ ResolveTarget(c) \/ ResolvePath(c)
         \/ ComponentInventory(c) \/ TranslationPair(c)
  PROVE  DraftsInv'
<1>1. /\ HostTypeOK /\ CallsTypeOK /\ call[c] \in Call /\ UNCHANGED <<host, wire>>
      /\ call[c].tool \notin Nested
  BY DEF DraftsInv, CallsTypeOK, PreRead, ResolveTarget, ResolvePath, ComponentInventory,
         TranslationPair, At, Nested
<1>2. {"start", "resolve", "preflight", "path", "write", "pins"} \subseteq Early \cap Pcs
  BY DEF Early, Pcs
<1>3. CASE PreRead(c)
  <2>1. PICK seen \in Seens : call' = [call EXCEPT ![c].pc = "resolve", ![c].seen = seen]
    BY <1>3, Zenon DEF PreRead, Seens
  <2> DEFINE q == [call[c] EXCEPT !.pc = "resolve", !.seen = seen]
  <2>2. /\ q \in Call /\ q.tool = call[c].tool /\ q.slot = call[c].slot /\ q.made = call[c].made
        /\ q.heard = call[c].heard /\ q.told = call[c].told /\ q.created = call[c].created
        /\ q.reply = call[c].reply /\ q.out = call[c].out /\ q.pc = "resolve"
    BY <1>1, <1>2 DEF Call
  <2>3. call' = [call EXCEPT ![c] = q] /\ call[c].pc = "start"
    BY <1>3, <2>1 DEF PreRead, At
  <2> HIDE DEF q
  <2> QED BY <1>1, <1>2, <2>2, <2>3, ReadsKeep
<1>4. CASE ResolveTarget(c) \/ ComponentInventory(c) \/ TranslationPair(c)
  <2>1. PICK pc \in {"preflight", "pins", "write"} :
          /\ call' = [call EXCEPT ![c].pc = pc, ![c].live = live, ![c].work = InventoryWork]
          /\ call[c].tool = "patch" => pc = "preflight"
    BY <1>4, Zenon DEF ResolveTarget, ComponentInventory, TranslationPair, At
  <2> DEFINE q == [call[c] EXCEPT !.pc = pc, !.live = live, !.work = InventoryWork]
  <2>2. /\ q \in Call /\ q.tool = call[c].tool /\ q.slot = call[c].slot /\ q.made = call[c].made
        /\ q.heard = call[c].heard /\ q.told = call[c].told /\ q.created = call[c].created
        /\ q.reply = call[c].reply /\ q.out = call[c].out /\ q.pc = pc
    BY <1>1, <1>2, InventoryTypes DEF Call
  <2>3. call' = [call EXCEPT ![c] = q] /\ call[c].pc \in {"start", "resolve"}
    BY <1>4, <2>1 DEF ResolveTarget, ComponentInventory, TranslationPair, At
  <2> HIDE DEF q
  <2>4. call[c].pc \in Early /\ q.pc \in Early /\ ~(q.tool = "patch" /\ q.pc = "write")
    BY <1>2, <2>1, <2>2, <2>3
  <2> QED BY <1>1, <2>2, <2>3, <2>4, ReadsKeep
<1>5. CASE ResolvePath(c)
  <2>1. PICK p \in Aliases, redirect \in BOOLEAN :
          call' = [call EXCEPT ![c].pc = "write", ![c].path = p, ![c].redirect = redirect]
    <3>1. {"new", alias} \subseteq Aliases
      BY <1>1 DEF HostTypeOK, Aliases
    <3>2. PICK p \in {"new", alias} :
            call' = [call EXCEPT ![c].pc = "write", ![c].path = p,
                                 ![c].redirect = p = "new" /\ alias = "old"]
      BY <1>5 DEF ResolvePath
    <3> DEFINE redirect == p = "new" /\ alias = "old"
    <3>3. redirect \in BOOLEAN
      OBVIOUS
    <3> HIDE DEF redirect
    <3> QED BY <3>1, <3>2, <3>3 DEF redirect
  <2> DEFINE q == [call[c] EXCEPT !.pc = "write", !.path = p, !.redirect = redirect]
  <2>2. /\ q \in Call /\ q.tool = call[c].tool /\ q.slot = call[c].slot /\ q.made = call[c].made
        /\ q.heard = call[c].heard /\ q.told = call[c].told /\ q.created = call[c].created
        /\ q.reply = call[c].reply /\ q.out = call[c].out /\ q.pc = "write" /\ q.path = p
    <3>1. p \in Paths
      BY DEF Paths
    <3> QED BY <1>1, <1>2, <3>1 DEF Call
  <2>3. call' = [call EXCEPT ![c] = q] /\ call[c].pc = "path"
    BY <1>5, <2>1 DEF ResolvePath, At
  <2> HIDE DEF q
  <2> QED BY <1>1, <1>2, <2>2, <2>3, ReadsKeep
<1> QED BY <1>3, <1>4, <1>5

\* The checks of the two preflights and of the component that is edited.
LEMMA PatchStagesStep ==
  ASSUME DraftsInv, NEW c \in Calls,
         PreflightPatch(c) \/ ComponentPinned(c) \/ PreflightComponent(c)
  PROVE  DraftsInv'
<1>1. /\ UNCHANGED <<host, wire>> /\ UNCHANGED <<revs, wire>> /\ HostTypeOK'
      /\ call[c].tool \notin Nested
  BY DEF PreflightPatch, ComponentPinned, PreflightComponent, At, Nested, host,
         DraftsInv, HostTypeOK
<1>2. {"path", "preflight", "write"} \subseteq Pcs
  BY DEF Pcs, Early
<1> QED BY <1>1, <1>2, StagesKeep DEF PreflightPatch, ComponentPinned, PreflightComponent, At, Early

\* The three writes; an update of a host that its pre-read showed published
\* is sent as a draft.
LEMMA SendPatchStep ==
  ASSUME DraftsInv, NEW c \in Calls, SendPatch(c) \/ SendComponent(c) \/ SendTranslation(c)
  PROVE  DraftsInv'
<1>1. /\ CallsTypeOK /\ "write" \in Early /\ "none" \in Paths /\ call[c].path \in Paths
      /\ call[c].pc = "write" /\ call[c].tool \notin Nested
  BY DEF DraftsInv, CallsTypeOK, Call, Early, Paths, SendPatch, SendComponent, SendTranslation,
         At, Nested
<1>2. ASSUME NEW edit \in {"component", "none"}, NEW path \in Paths,
             Send(c, DraftRequest(c, edit, <<>>, path))
      PROVE  DraftsInv'
  <2> DEFINE q == DraftRequest(c, edit, <<>>, path)
  <2>1. q \in Request /\ q.kind = "draft" /\ q.edit # "set"
    BY <1>1, RequestTypes DEF DraftRequest
  <2> HIDE DEF q
  <2> QED BY <1>1, <1>2, <2>1, SendKeeps DEF q
<1>3. ASSUME call[c].tool = "patch", Send(c, CoreRequest(call[c].path, DraftDefault(c)))
      PROVE  DraftsInv'
  <2> DEFINE q == CoreRequest(call[c].path, DraftDefault(c))
  <2>1. DraftDefault(c) \in BOOLEAN /\ (~DraftDefault(c) => call[c].seen # "published")
    BY DEF DraftDefault
  <2>2. q \in Request /\ q.kind = "core" /\ q.edit = "none" /\ q.draft = DraftDefault(c)
    BY <1>1, <2>1, RequestTypes DEF CoreRequest
  <2> HIDE DEF q
  <2> QED BY <1>1, <1>3, <2>1, <2>2, SendKeeps DEF q
<1>4. CASE SendPatch(c)
  <2>1. Send(c, PatchRequest(c)) /\ call[c].tool = "patch"
    BY <1>4 DEF SendPatch, At
  <2> QED BY <1>1, <1>2, <1>3, <2>1 DEF PatchRequest
<1>5. CASE SendComponent(c)
  BY <1>1, <1>2, <1>5 DEF SendComponent, ComponentRequest
<1>6. CASE SendTranslation(c)
  BY <1>1, <1>2, <1>6 DEF SendTranslation
<1> QED BY <1>4, <1>5, <1>6

\* A write that was answered, or that the call gave up: a refusal is reported
\* only on Drupal's word.
LEMMA AnswerEnds ==
  ASSUME DraftsInv, NEW c \in Calls, UNCHANGED <<host, wire>>,
         call[c].tool \notin {"nested", "bulk"}, call[c].pc # "done",
         \/ call[c].reply = "refused" /\ End(c, "refused")
         \/ End(c, "missing") \/ End(c, "failed") \/ End(c, "uncertain")
  PROVE  DraftsInv'
<1>1. call[c].made = {} /\ (call[c].reply = "refused" => ~Wrote(c) /\ wire[c] = NoRequest)
  BY EarlyIsClean DEF DraftsInv, CallInv, ReplyIsTrue
<1>2. {"refused", "missing", "failed", "uncertain"} \subseteq Outcomes /\ 0 \in Nat
  BY DEF Outcomes
<1>3. CASE call[c].reply = "refused" /\ call' = Ending(c, "refused", 0)
  BY <1>1, <1>2, <1>3, EndKeeps
<1>4. CASE call' = Ending(c, "missing", 0)
  BY <1>1, <1>2, <1>4, EndKeeps
<1>5. CASE call' = Ending(c, "failed", 0)
  BY <1>1, <1>2, <1>5, EndKeeps
<1>6. CASE call' = Ending(c, "uncertain", 0)
  BY <1>1, <1>2, <1>6, EndKeeps
<1> QED BY <1>3, <1>4, <1>5, <1>6 DEF End

\* After the answer the alias is read back, and repaired once.
LEMMA PatchAnsweredStep ==
  ASSUME DraftsInv, NEW c \in Calls, PatchAnswered(c) \/ RepairAlias(c)
  PROVE  DraftsInv'
<1>1. /\ UNCHANGED <<revs, wire>> /\ call[c].tool = "patch" /\ call[c].tool \notin Nested
      /\ call[c].pc \in {"wait", "reread"} /\ HostTypeOK'
  <2>1. call[c].pc = "reread" /\ call[c].tool = "patch" => call[c].path \in Aliases
    BY DEF DraftsInv, CallInv, AliasChosen
  <2> QED BY <2>1 DEF PatchAnswered, RepairAlias, At, Nested, host, DraftsInv, HostTypeOK
<1>2. {"reread", "repaired"} \subseteq Pcs
  BY DEF Pcs, Late
<1>3. ASSUME NEW pc \in {"reread", "repaired"}, call' = [call EXCEPT ![c].pc = pc]
      PROVE  DraftsInv'
  BY <1>1, <1>2, <1>3, StagesKeep DEF Early
<1>4. CASE PatchAnswered(c)
  <2>1. \/ call' = [call EXCEPT ![c].pc = "reread"]
        \/ call[c].reply = "refused" /\ End(c, "refused")
        \/ End(c, "missing") \/ End(c, "failed") \/ End(c, "uncertain")
    BY <1>4 DEF PatchAnswered
  <2>2. UNCHANGED <<host, wire>>
    BY <1>4 DEF PatchAnswered
  <2> QED BY <1>1, <1>3, <2>1, <2>2, AnswerEnds
<1>5. CASE RepairAlias(c)
  BY <1>3, <1>5 DEF RepairAlias
<1> QED BY <1>4, <1>5

\* updateNode reports the alias that it read back.
LEMMA FinishPatchStep ==
  ASSUME DraftsInv, NEW c \in Calls, FinishPatch(c)
  PROVE  DraftsInv'
<1>1. /\ CallInv(c) /\ HostTypeOK /\ CallsTypeOK /\ call[c] \in Call /\ alias \in Aliases
      /\ UNCHANGED <<host, wire>>
      /\ call[c].tool = "patch" /\ call[c].pc \in {"reread", "repaired"}
      /\ work \in Nat /\ call[c].made = {}
  BY RevisionTypes, EarlyIsClean DEF DraftsInv, CallsTypeOK, HostTypeOK, FinishPatch, At
<1>2. CASE End(c, "failed")
  BY <1>1, <1>2, AnswerEnds
<1>3. CASE /\ alias = call[c].path
           /\ call' = [Ending(c, "finished", work) EXCEPT ![c].heard = {alias}]
  <2>1. /\ call' = [call EXCEPT ![c] = call'[c]]
        /\ call'[c] = [call[c] EXCEPT !.pc = "done", !.out = "finished", !.vid = work,
                                      !.live = 0, !.work = 0, !.reply = "none",
                                      !.heard = {alias}]
    BY <1>1, <1>3 DEF Ending, CallsTypeOK
  <2>2. call'[c] \in Call
    <3> DEFINE q == [call[c] EXCEPT !.pc = "done", !.out = "finished", !.vid = work,
                                    !.live = 0, !.work = 0, !.reply = "none", !.heard = {alias}]
    <3>1. {alias} \in SUBSET Things /\ "finished" \in Outcomes
      BY <1>1 DEF Things, Outcomes
    <3>2. q \in Call
      BY <1>1, <3>1, EndedCall
    <3>3. call'[c] = q
      BY <2>1
    <3> HIDE DEF q
    <3> QED BY <3>2, <3>3
  <2>3. /\ call'[c].tool = call[c].tool /\ call'[c].slot = call[c].slot
        /\ call'[c].seen = call[c].seen /\ call'[c].made = call[c].made
        /\ call'[c].path = call[c].path /\ call'[c].heard = {alias}
        /\ call'[c].pc = "done" /\ call'[c].out = "finished" /\ call'[c].reply = "none"
    BY <1>1, <2>1 DEF Call
  <2>4. revs' = revs /\ wire' = wire /\ (Wrote(c)' <=> Wrote(c)) /\ HostTypeOK' /\ Moves(c)
    BY <1>1, <2>1, <2>2, <2>3 DEF host, Wrote, HostTypeOK, Moves
  <2>5. WritesOnce(c)' /\ ReplyIsTrue(c)' /\ EndedIsDone(c)' /\ RefusedIsClean(c)'
    BY <1>1, <2>3, <2>4
       DEF CallInv, WritesOnce, ReplyIsTrue, EndedIsDone, RefusedIsClean, Ended, Early
  <2>6. Bookkept(c)' /\ RowsCounted(c)' /\ CoreIsAnUpdate(c)' /\ SetsOwnSlot(c)'
    BY <1>1, <2>3, <2>4
       DEF CallInv, Bookkept, RowsCounted, CoreIsAnUpdate, SetsOwnSlot, SentBase
  <2>7. VerifiesOwn(c)' /\ PairExists(c)' /\ AliasChosen(c)' /\ Landed(c)'
    BY <1>1, <1>3, <2>3 DEF VerifiesOwn, PairExists, AliasChosen, Landed, Nested
  <2> QED BY <2>4, <2>5, <2>6, <2>7, MoveKeeps DEF CallInv
<1> QED BY <1>2, <1>3 DEF FinishPatch, AliasHolds

\* Drupal's answer that it saved is about a revision of the call.
LEMMA SavedRevision ==
  ASSUME DraftsInv, NEW c \in Calls, call[c].reply = "ok"
  PROVE  LET r == CHOOSE r \in DOMAIN revs : revs[r].by = c
         IN  r \in DOMAIN revs /\ r \in Nat /\ revs[r].by = c
<1>1. Wrote(c) /\ HostTypeOK
  BY DEF DraftsInv, CallInv, ReplyIsTrue
<1>2. \E r \in DOMAIN revs : revs[r].by = c
  BY <1>1 DEF Wrote
<1>3. DOMAIN revs \subseteq Nat
  BY <1>1, RevisionTypes
<1> QED BY <1>2, <1>3

\* A component draft looks at the revision that is its own.
LEMMA ComponentAnsweredStep ==
  ASSUME DraftsInv, NEW c \in Calls, ComponentAnswered(c)
  PROVE  DraftsInv'
<1> DEFINE vid == CHOOSE r \in DOMAIN revs : revs[r].by = c
<1>1. /\ CallInv(c) /\ HostTypeOK /\ CallsTypeOK /\ call[c] \in Call
      /\ UNCHANGED <<host, wire>> /\ call[c].tool = "component" /\ call[c].pc = "wait"
  BY DEF DraftsInv, CallsTypeOK, ComponentAnswered, At
<1>2. CASE \/ call[c].reply = "refused" /\ End(c, "refused")
           \/ End(c, "missing") \/ End(c, "failed") \/ End(c, "uncertain")
  BY <1>1, <1>2, AnswerEnds
<1>3. CASE /\ call[c].reply = "ok"
           /\ call' = [call EXCEPT ![c].pc = "verify", ![c].vid = vid]
  <2>1. vid \in DOMAIN revs /\ vid \in Nat /\ revs[vid].by = c
    BY <1>3, SavedRevision
  <2> HIDE DEF vid
  <2>2. /\ call' = [call EXCEPT ![c] = call'[c]]
        /\ call'[c] = [call[c] EXCEPT !.pc = "verify", !.vid = vid]
    BY <1>1, <1>3 DEF CallsTypeOK
  <2>3. call'[c] \in Call
    <3>1. "verify" \in Pcs
      BY DEF Pcs, Late
    <3> QED BY <1>1, <2>1, <2>2, <3>1 DEF Call
  <2>4. /\ call'[c].tool = call[c].tool /\ call'[c].slot = call[c].slot
        /\ call'[c].seen = call[c].seen /\ call'[c].made = call[c].made
        /\ call'[c].heard = call[c].heard /\ call'[c].vid = vid
        /\ call'[c].pc = "verify" /\ call'[c].out = call[c].out
        /\ call'[c].reply = call[c].reply
    BY <1>1, <2>2 DEF Call
  <2>5. revs' = revs /\ wire' = wire /\ (Wrote(c)' <=> Wrote(c)) /\ HostTypeOK' /\ Moves(c)
    BY <1>1, <2>2, <2>3, <2>4 DEF host, Wrote, HostTypeOK, Moves
  <2>6. call[c].out = "none"
    BY <1>1 DEF CallInv, EndedIsDone, Ended
  <2>7. WritesOnce(c)' /\ ReplyIsTrue(c)' /\ EndedIsDone(c)' /\ RefusedIsClean(c)'
    BY <1>1, <2>4, <2>5, <2>6
       DEF CallInv, WritesOnce, ReplyIsTrue, EndedIsDone, RefusedIsClean, Ended, Early
  <2>8. Bookkept(c)' /\ RowsCounted(c)' /\ CoreIsAnUpdate(c)' /\ SetsOwnSlot(c)'
    BY <1>1, <2>4, <2>5, <2>6
       DEF CallInv, Bookkept, RowsCounted, CoreIsAnUpdate, SetsOwnSlot, SentBase
  <2>9. VerifiesOwn(c)' /\ PairExists(c)' /\ AliasChosen(c)' /\ Landed(c)'
    BY <1>1, <2>1, <2>4, <2>5, <2>6 DEF VerifiesOwn, PairExists, AliasChosen, Landed, Nested
  <2> QED BY <2>5, <2>7, <2>8, <2>9, MoveKeeps DEF CallInv
<1> QED BY <1>2, <1>3 DEF ComponentAnswered

\* A component draft or a translation that succeeds names its own revision.
LEMMA VerifyStep ==
  ASSUME DraftsInv, NEW c \in Calls, VerifyComponent(c) \/ TranslationAnswered(c)
  PROVE  DraftsInv'
<1>1. /\ UNCHANGED <<host, wire>> /\ call[c].tool \in {"component", "translation"}
      /\ call[c].pc # "done"
  BY DEF VerifyComponent, TranslationAnswered, At
<1>2. "finished" \in Outcomes
  BY DEF Outcomes
<1>3. ASSUME NEW vid \in Nat, vid \in DOMAIN revs, revs[vid].by = c,
             call' = Ending(c, "finished", vid)
      PROVE  DraftsInv'
  BY <1>1, <1>2, <1>3, EndKeeps
<1>4. CASE VerifyComponent(c)
  <2>1. call[c].vid \in Nat /\ call[c].vid \in DOMAIN revs /\ revs[call[c].vid].by = c
    BY <1>4 DEF VerifyComponent, At, DraftsInv, CallsTypeOK, Call, CallInv, VerifiesOwn
  <2>2. End(c, "uncertain") \/ call' = Ending(c, "finished", call[c].vid)
    BY <1>4 DEF VerifyComponent, Finish
  <2> QED BY <1>1, <1>3, <2>1, <2>2, AnswerEnds
<1>5. CASE TranslationAnswered(c)
  <2> DEFINE vid == CHOOSE r \in DOMAIN revs : revs[r].by = c
  <2>1. \/ call[c].reply = "refused" /\ End(c, "refused")
        \/ End(c, "missing") \/ End(c, "failed") \/ End(c, "uncertain")
        \/ call[c].reply = "ok" /\ call' = Ending(c, "finished", vid)
    BY <1>5 DEF TranslationAnswered, Finish
  <2>2. CASE call[c].reply = "ok" /\ call' = Ending(c, "finished", vid)
    <3>1. vid \in DOMAIN revs /\ vid \in Nat /\ revs[vid].by = c
      BY <2>2, SavedRevision
    <3> HIDE DEF vid
    <3> QED BY <1>3, <2>2, <3>1
  <2> QED BY <1>1, <2>1, <2>2, AnswerEnds
<1> QED BY <1>4, <1>5

\* A bulk call counts a row once, when Drupal has named its paragraph.
LEMMA RowHeard ==
  ASSUME NEW c, NEW heard \in SUBSET {<<c, i>> : i \in Items}, NEW i \in Items, <<c, i>> \notin heard
  PROVE  Cardinality(heard \cup {<<c, i>>}) = Cardinality(heard) + 1
<1>1. {<<c, j>> : j \in Items} = ({} \cup {<<c, 1>>}) \cup {<<c, 2>>}
  BY DEF Items
<1>2. IsFiniteSet(({} \cup {<<c, 1>>}) \cup {<<c, 2>>})
  <2>1. IsFiniteSet({})
    BY FS_EmptySet
  <2>2. IsFiniteSet({} \cup {<<c, 1>>})
    BY <2>1, FS_AddElement, Zenon
  <2> QED BY <2>2, FS_AddElement, Zenon
<1>3. IsFiniteSet(heard)
  BY <1>1, <1>2, FS_Subset
<1> QED BY <1>3, FS_AddElement

\* The books of a bulk call name every row that Drupal named.
LEMMA CreateItemStep ==
  ASSUME DraftsInv, NEW c \in Calls, CreateItem(c)
  PROVE  DraftsInv'
<1>1. /\ CallInv(c) /\ HostTypeOK /\ CallsTypeOK /\ call[c] \in Call
      /\ call[c].tool = "bulk" /\ call[c].pc = "start" /\ UNCHANGED <<host, wire>>
      /\ call[c].out = "none" /\ call[c].heard \subseteq call[c].told
      /\ call[c].heard \in SUBSET {<<c, i>> : i \in Items}
      /\ call[c].created = Cardinality(call[c].heard) /\ call[c].created \in Nat
  BY DEF DraftsInv, CallsTypeOK, CreateItem, At, CallInv, EndedIsDone, Ended, Bookkept,
         RowsCounted, Call
<1>2. PICK i \in Items \ Tried(c), made, answered, revision \in BOOLEAN :
        /\ \A j \in Items : j < i => j \in Tried(c)
        /\ answered => made
        /\ revision => answered
        /\ call' = [call EXCEPT
            ![c].made = IF made THEN @ \cup {<<c, i>>} ELSE @,
            ![c].heard = IF answered THEN @ \cup {<<c, i>>} ELSE @,
            ![c].told = @ \cup (IF answered THEN {<<c, i>>} ELSE {})
                          \cup (IF revision THEN {} ELSE {<<c, i, "failed">>}),
            ![c].created = @ + Counted(c, answered, revision)]
  BY Zenon DEF CreateItem
<1> DEFINE p == <<c, i>>
           row == <<c, i, "failed">>
           made2 == IF made THEN call[c].made \cup {p} ELSE call[c].made
           heard2 == IF answered THEN call[c].heard \cup {p} ELSE call[c].heard
           told2 == call[c].told \cup (IF answered THEN {p} ELSE {})
                                 \cup (IF revision THEN {} ELSE {row})
           created2 == call[c].created + IF answered THEN 1 ELSE 0
<1>3. /\ call' = [call EXCEPT ![c] = call'[c]]
      /\ call'[c] = [call[c] EXCEPT !.made = made2, !.heard = heard2, !.told = told2,
                                    !.created = created2]
  BY <1>1, <1>2 DEF CallsTypeOK, Counted, Call
<1>4. p \in Things /\ row \in Things /\ p \in {<<c, j>> : j \in Items} /\ i \in Items
  BY DEF Things, Authors, Items
<1>5. p \notin call[c].heard
  BY <1>1 DEF Tried
<1>6. created2 \in Nat /\ created2 = Cardinality(heard2) /\ heard2 \in SUBSET {<<c, j>> : j \in Items}
  <2>1. CASE answered
    <3>1. Cardinality(call[c].heard \cup {p}) = Cardinality(call[c].heard) + 1
      <4>1. /\ call[c].heard \in SUBSET {<<c, j>> : j \in Items} /\ i \in Items
            /\ <<c, i>> \notin call[c].heard
        BY <1>1, <1>4, <1>5
      <4> QED BY <4>1, RowHeard
    <3>2. heard2 = call[c].heard \cup {p} /\ created2 = call[c].created + 1
      BY <2>1
    <3> HIDE DEF p, heard2, created2
    <3> QED BY <1>1, <1>4, <3>1, <3>2
  <2>2. CASE ~answered
    <3>1. heard2 = call[c].heard /\ created2 = call[c].created
      BY <1>1, <2>2
    <3> HIDE DEF heard2, created2
    <3> QED BY <1>1, <3>1
  <2> QED BY <2>1, <2>2
<1>7. heard2 \subseteq told2
  BY <1>1
<1>8. made2 \in SUBSET Things /\ heard2 \in SUBSET Things /\ told2 \in SUBSET Things
  <2>1. /\ call[c].made \in SUBSET Things /\ call[c].heard \in SUBSET Things
        /\ call[c].told \in SUBSET Things
    BY <1>1 DEF Call
  <2> HIDE DEF p, row
  <2> QED BY <1>4, <2>1
<1> HIDE DEF made2, heard2, told2, created2
<1>9. call'[c] \in Call
  <2>1. call[c] \in Call /\ created2 \in Nat
    BY <1>1, <1>6
  <2>2. [call[c] EXCEPT !.made = made2, !.heard = heard2, !.told = told2, !.created = created2]
          \in Call
    BY ONLY <1>8, <2>1, CallUpdates
  <2> QED BY ONLY <1>3, <2>2
<1>10. /\ call'[c].tool = "bulk" /\ call'[c].slot = call[c].slot
       /\ call'[c].seen = call[c].seen
       /\ call'[c].parent = call[c].parent /\ call'[c].rev = call[c].rev
       /\ call'[c].made = made2 /\ call'[c].heard = heard2 /\ call'[c].told = told2
       /\ call'[c].created = created2 /\ call'[c].reply = call[c].reply
       /\ call'[c].pc = "start" /\ call'[c].out = "none"
       /\ call'[c].live = call[c].live /\ call'[c].work = call[c].work
  BY <1>1, <1>3 DEF Call
<1>11. Bookkept(c)' /\ RowsCounted(c)'
  BY <1>6, <1>7, <1>10 DEF Bookkept, RowsCounted
<1> QED BY <1>1, <1>3, <1>9, <1>10, <1>11, BooksKeep DEF Early, Nested

\* A bulk call always reports its rows.
LEMMA EndBulkStep ==
  ASSUME DraftsInv, NEW c \in Calls, EndBulk(c)
  PROVE  DraftsInv'
<1>1. /\ UNCHANGED <<host, wire>> /\ call' = Ending(c, "finished", 0)
      /\ call[c].pc # "done" /\ call[c].tool = "bulk" /\ "finished" \in Outcomes
  BY DEF EndBulk, End, At, Outcomes
<1> QED BY <1>1, EndKeeps

---------------------------------------------------------------------------
(* canonical-draft.js *)

\* No write is attempted by a call that refuses on its reads.
LEMMA RefuseCanonicalStep ==
  ASSUME DraftsInv, NEW c \in Calls, RefuseCanonical(c)
  PROVE  DraftsInv'
<1>1. /\ UNCHANGED <<host, wire>> /\ call' = Ending(c, "refused", 0)
      /\ call[c].pc # "done" /\ ~Wrote(c) /\ wire[c] = NoRequest /\ call[c].made = {}
  BY EarlyIsClean DEF RefuseCanonical, End, Canonical, Early
<1>2. "refused" \in Outcomes /\ 0 \in Nat
  BY DEF Outcomes
<1> QED BY <1>1, <1>2, EndKeeps

\* The reads before the write.
LEMMA CanonicalReadsStep ==
  ASSUME DraftsInv, NEW c \in Calls, Prepare(c) \/ BeforeLive(c) \/ BeforeWorking(c)
  PROVE  DraftsInv'
<1>1. /\ HostTypeOK /\ CallsTypeOK /\ call[c] \in Call /\ UNCHANGED <<host, wire>>
      /\ call[c].tool = "canonical" /\ call[c].tool \notin Nested
      /\ live \in Nat /\ work \in Nat
  BY RevisionTypes DEF DraftsInv, CallsTypeOK, HostTypeOK, Prepare, BeforeLive, BeforeWorking, At,
         Nested, Canonical
<1>2. {"start", "before", "beforeWorking", "select"} \subseteq Early \cap Pcs
  BY DEF Early, Pcs
<1>3. \E q \in Call :
        /\ call' = [call EXCEPT ![c] = q]
        /\ q.tool = call[c].tool /\ q.slot = call[c].slot /\ q.made = call[c].made
        /\ q.heard = call[c].heard /\ q.told = call[c].told /\ q.created = call[c].created
        /\ q.reply = call[c].reply /\ q.out = call[c].out /\ q.pc \in Early
        /\ call[c].pc \in Early
  <2>1. CASE Prepare(c)
    <3> DEFINE q == [call[c] EXCEPT !.pc = "before"]
    <3>1. /\ q \in Call /\ q.tool = call[c].tool /\ q.slot = call[c].slot
          /\ q.made = call[c].made /\ q.heard = call[c].heard /\ q.told = call[c].told
          /\ q.created = call[c].created /\ q.reply = call[c].reply /\ q.out = call[c].out
          /\ q.pc = "before"
      BY <1>1, <1>2 DEF Call
    <3>2. call' = [call EXCEPT ![c] = q] /\ call[c].pc = "start"
      BY <2>1 DEF Prepare, At
    <3> HIDE DEF q
    <3> QED BY <1>2, <3>1, <3>2
  <2>2. CASE BeforeLive(c)
    <3> DEFINE seen == IF revs[live].pub THEN "published" ELSE "unpublished"
               q == [call[c] EXCEPT !.pc = "beforeWorking", !.live = live, !.seen = seen]
    <3>1. seen \in Seens
      BY DEF Seens
    <3>2. call' = [call EXCEPT ![c] = q] /\ call[c].pc = "before"
      BY <2>2 DEF BeforeLive, At
    <3> HIDE DEF seen
    <3>3. /\ q \in Call /\ q.tool = call[c].tool /\ q.slot = call[c].slot
          /\ q.made = call[c].made /\ q.heard = call[c].heard /\ q.told = call[c].told
          /\ q.created = call[c].created /\ q.reply = call[c].reply /\ q.out = call[c].out
          /\ q.pc = "beforeWorking"
      BY <1>1, <1>2, <3>1 DEF Call
    <3> HIDE DEF q
    <3> QED BY <1>2, <3>2, <3>3
  <2>3. CASE BeforeWorking(c)
    <3> DEFINE next == IF work = call[c].live THEN 0 ELSE work
               q == [call[c] EXCEPT !.work = next, !.pc = "select"]
    <3>1. next \in Nat
      BY <1>1
    <3>2. call' = [call EXCEPT ![c] = q] /\ call[c].pc = "beforeWorking"
      BY <2>3 DEF BeforeWorking, At
    <3> HIDE DEF next
    <3>3. /\ q \in Call /\ q.tool = call[c].tool /\ q.slot = call[c].slot
          /\ q.made = call[c].made /\ q.heard = call[c].heard /\ q.told = call[c].told
          /\ q.created = call[c].created /\ q.reply = call[c].reply /\ q.out = call[c].out
          /\ q.pc = "select"
      BY <1>1, <1>2, <3>1 DEF Call
    <3> HIDE DEF q
    <3> QED BY <1>2, <3>2, <3>3
  <2> QED BY <2>1, <2>2, <2>3
<1> QED BY <1>1, <1>3, ReadsKeep

\* A plain PATCH of a host that was found published is sent as a draft.
LEMMA SendCanonicalStep ==
  ASSUME DraftsInv, NEW c \in Calls, SendCanonical(c)
  PROVE  DraftsInv'
<1>1. /\ CallsTypeOK /\ call[c].pc = "select" /\ "select" \in Early /\ "none" \in Paths
      /\ call[c].tool = "canonical" /\ call[c].tool \notin Nested
  BY DEF DraftsInv, SendCanonical, At, Canonical, Early, Paths, Nested
<1>2. CASE GovernedRequest(c)
  <2> DEFINE q == DraftRequest(c, "none", <<>>, "none")
  <2>1. q \in Request /\ q.kind = "draft" /\ q.edit # "set" /\ Send(c, q)
    BY <1>1, <1>2, RequestTypes DEF DraftRequest, GovernedRequest
  <2> HIDE DEF q
  <2> QED BY <1>1, <2>1, SendKeeps
<1>3. CASE PlainRequest(c)
  <2> DEFINE q == CoreRequest("none", Opening(c))
  <2>1. Opening(c) \in BOOLEAN /\ (~Opening(c) => call[c].seen # "published")
    BY DEF Opening
  <2>2. /\ q \in Request /\ q.kind = "core" /\ q.edit = "none" /\ q.draft = Opening(c)
        /\ Send(c, q)
    BY <1>1, <1>3, <2>1, RequestTypes DEF CoreRequest, PlainRequest
  <2> HIDE DEF q
  <2> QED BY <1>1, <2>1, <2>2, SendKeeps
<1> QED BY <1>2, <1>3 DEF SendCanonical

\* The reads after a write go on only under a definite answer.
LEMMA AfterKeeps ==
  ASSUME DraftsInv, NEW c \in Calls, UNCHANGED <<host, wire>>,
         call[c].tool = "canonical", call[c].reply \in {"ok", "refused"},
         call[c].pc # "done", NEW pc \in {"after", "afterWorking"},
         call' = [call EXCEPT ![c].pc = pc]
  PROVE  DraftsInv'
<1>1. CallInv(c) /\ HostTypeOK /\ CallsTypeOK /\ call[c] \in Call /\ pc \in Pcs
  BY DEF DraftsInv, CallsTypeOK, Pcs, Late
<1>2. call' = [call EXCEPT ![c] = call'[c]] /\ call'[c] = [call[c] EXCEPT !.pc = pc]
  BY <1>1 DEF CallsTypeOK
<1>3. call'[c] \in Call
  BY <1>1, <1>2 DEF Call
<1>4. /\ call'[c].tool = call[c].tool /\ call'[c].slot = call[c].slot
      /\ call'[c].seen = call[c].seen /\ call'[c].made = call[c].made
      /\ call'[c].heard = call[c].heard /\ call'[c].told = call[c].told
      /\ call'[c].pc = pc /\ call'[c].out = call[c].out /\ call'[c].reply = call[c].reply
  BY <1>1, <1>2 DEF Call
<1>5. revs' = revs /\ wire' = wire /\ (Wrote(c)' <=> Wrote(c)) /\ HostTypeOK' /\ Moves(c)
  BY <1>1, <1>2, <1>3, <1>4 DEF host, Wrote, HostTypeOK, Moves
<1>6. call[c].out = "none"
  BY <1>1 DEF CallInv, EndedIsDone, Ended
<1>7. WritesOnce(c)' /\ ReplyIsTrue(c)' /\ EndedIsDone(c)' /\ RefusedIsClean(c)'
  BY <1>1, <1>4, <1>5, <1>6
     DEF CallInv, WritesOnce, ReplyIsTrue, EndedIsDone, RefusedIsClean, Ended, Early
<1>8. Bookkept(c)' /\ RowsCounted(c)' /\ CoreIsAnUpdate(c)' /\ SetsOwnSlot(c)'
  BY <1>1, <1>4, <1>5, <1>6
     DEF CallInv, Bookkept, RowsCounted, CoreIsAnUpdate, SetsOwnSlot, SentBase
<1>9. VerifiesOwn(c)' /\ PairExists(c)' /\ AliasChosen(c)' /\ Landed(c)'
  BY <1>4, <1>6 DEF VerifiesOwn, PairExists, AliasChosen, Landed, Nested
<1> QED BY <1>5, <1>7, <1>8, <1>9, MoveKeeps DEF CallInv

\* A canonical update reports a refusal on Drupal's word, and success when it
\* has saved.
LEMMA CanonicalAfterStep ==
  ASSUME DraftsInv, NEW c \in Calls, CanonicalAnswered(c) \/ AfterLive(c) \/ AfterWorking(c)
  PROVE  DraftsInv'
<1>1. /\ CallInv(c) /\ HostTypeOK /\ UNCHANGED <<host, wire>>
      /\ call[c].tool = "canonical" /\ call[c].pc \in {"wait", "after", "afterWorking"}
  BY DEF DraftsInv, CanonicalAnswered, AfterLive, AfterWorking, At, Canonical
<1>2. call[c].pc \in {"after", "afterWorking"} => call[c].reply \in {"ok", "refused"}
  BY <1>1 DEF CallInv, ReplyIsTrue
<1>3. CASE CanonicalAnswered(c)
  <2>1. \/ End(c, "missing") \/ End(c, "uncertain")
        \/ call[c].reply \in {"ok", "refused"} /\ call' = [call EXCEPT ![c].pc = "after"]
    BY <1>3 DEF CanonicalAnswered, Definitive
  <2> QED BY <1>1, <2>1, AnswerEnds, AfterKeeps
<1>4. CASE AfterLive(c)
  <2>1. call[c].pc = "after"
    BY <1>4 DEF AfterLive, At
  <2>2. End(c, "uncertain") \/ call' = [call EXCEPT ![c].pc = "afterWorking"]
    BY <1>4 DEF AfterLive
  <2> QED BY <1>1, <1>2, <2>1, <2>2, AnswerEnds, AfterKeeps
<1>5. CASE AfterWorking(c)
  <2>1. call[c].pc = "afterWorking"
    BY <1>5 DEF AfterWorking, At
  <2>2. \/ End(c, "uncertain")
        \/ call[c].reply # "ok" /\ End(c, "refused")
        \/ call[c].reply = "ok" /\ call' = Ending(c, "finished", work)
    BY <1>5 DEF AfterWorking, Finish
  <2>3. CASE call[c].reply = "ok" /\ call' = Ending(c, "finished", work)
    <3>1. /\ Wrote(c) /\ work \in Nat /\ work \in DOMAIN revs /\ "finished" \in Outcomes
          /\ call[c].pc # "done"
      BY <1>1, <2>1, <2>3, RevisionTypes DEF CallInv, ReplyIsTrue, HostTypeOK, Outcomes
    <3> QED BY <1>1, <2>3, <3>1, EndKeeps
  <2> QED BY <1>1, <1>2, <2>1, <2>2, <2>3, AnswerEnds
<1> QED BY <1>3, <1>4, <1>5

---------------------------------------------------------------------------
(* The invariant *)

\* The calls have done nothing yet, on a host that has one revision.
LEMMA DraftsInit == Init => DraftsInv
<1> SUFFICES ASSUME Init PROVE DraftsInv
  OBVIOUS
<1>1. PICK s \in Scenarios :
        /\ HostInit(s.published)
        /\ call = [c \in Calls |-> NewCall(s.tool[c], s.slot[c])]
  BY DEF Init
<1>2. /\ \A c \in Calls : s.tool[c] \in Tools /\ s.slot[c] \in Slots
      /\ s.published \in BOOLEAN
  BY ScenarioAssumption
<1> DEFINE pins == [t \in Slots |-> Pin(Original(t), 1)]
           first == [pins |-> pins, pub |-> s.published, by |-> Editor, prev |-> 0]
<1>3. revs = <<first>> /\ live = 1 /\ work = 1 /\ alias = "old" /\ edits = 0
  BY <1>1 DEF HostInit
<1>4. pins \in Pins /\ \A t \in Slots : pins[t].rev = 1
  BY DEF Pins, Pin, Original, Authors
<1>5. first \in Revision /\ first.pins = pins /\ first.by = Editor
  <2> HIDE DEF pins
  <2> QED BY <1>2, <1>4 DEF Revision, Authors
<1> HIDE DEF first, pins
<1>6. revs \in Seq(Revision) /\ Len(revs) = 1 /\ DOMAIN revs = {1} /\ revs[1] = first
  BY <1>3, <1>5
<1>7. HostTypeOK
  BY <1>3, <1>6 DEF HostTypeOK, Aliases
<1>8. RevsBounded /\ SavedOnTop /\ \A c \in Calls : ~Wrote(c)
  BY <1>4, <1>5, <1>6, HostAssumption DEF RevsBounded, SavedOnTop, Wrote
<1>9. \A c \in Calls : wire[c] = NoRequest
  BY DEF Init
<1>10. \A c \in Calls : call[c] \in Call
  <2> SUFFICES ASSUME NEW c \in Calls PROVE NewCall(s.tool[c], s.slot[c]) \in Call
    BY <1>1
  <2>1. /\ "start" \in Pcs /\ "unread" \in Seens /\ <<>> \in Parents /\ "none" \in Replies
        /\ "none" \in Paths /\ "none" \in Outs
    BY DEF Pcs, Early, Seens, Parents, Replies, Paths, Outs
  <2> QED BY <1>2, <2>1 DEF NewCall, Call
<1>11. CallsTypeOK
  BY <1>1, <1>10 DEF Init, CallsTypeOK
<1>12. ASSUME NEW c \in Calls PROVE CallInv(c)
  <2>1. /\ call[c].pc = "start" /\ call[c].reply = "none" /\ call[c].out = "none"
        /\ call[c].made = {} /\ call[c].heard = {} /\ call[c].told = {} /\ call[c].created = 0
        /\ wire[c].kind = "none" /\ call[c].rev <= 2 * Len(revs)
    BY <1>1, <1>6, <1>9 DEF NewCall, NoRequest
  <2>2. WritesOnce(c) /\ ReplyIsTrue(c) /\ EndedIsDone(c) /\ RefusedIsClean(c)
    BY <1>8, <1>9, <2>1 DEF WritesOnce, ReplyIsTrue, EndedIsDone, Ended, RefusedIsClean
  <2>3. Bookkept(c) /\ RowsCounted(c)
    BY <2>1, FS_EmptySet DEF Bookkept, RowsCounted
  <2>4. CoreIsAnUpdate(c) /\ PairExists(c) /\ AliasChosen(c) /\ SetsOwnSlot(c) /\ VerifiesOwn(c)
        /\ Landed(c)
    BY <2>1 DEF CoreIsAnUpdate, PairExists, AliasChosen, SetsOwnSlot, VerifiesOwn, Landed
  <2> QED BY <2>2, <2>3, <2>4 DEF CallInv
<1>13. AgentNeverPublishes /\ NoLostDraft
  BY <1>8 DEF AgentNeverPublishes, NoLostDraft, Wrote
<1> QED BY <1>7, <1>8, <1>11, <1>12, <1>13 DEF DraftsInv

\* Every step of the calls, of Drupal and of the editor keeps the invariant.
LEMMA DraftsStep == DraftsInv /\ [Next]_vars => DraftsInv'
<1> SUFFICES ASSUME DraftsInv, [Next]_vars PROVE DraftsInv'
  OBVIOUS
<1>1. ASSUME NEW c \in Calls, NestedNext(c) PROVE DraftsInv'
  BY <1>1, RefuseNestedStep, InventoryStep, NestedStagesStep, ReadWorkingStep, CreateStep,
     SendHostStep, ConfirmWorkingStep DEF NestedNext
<1>2. ASSUME NEW c \in Calls, PatchNext(c) PROVE DraftsInv'
  BY <1>2, RefusePatchStep, PatchReadsStep, PatchStagesStep, SendPatchStep, PatchAnsweredStep,
     FinishPatchStep, ComponentAnsweredStep, VerifyStep, CreateItemStep, EndBulkStep
     DEF PatchNext
<1>3. ASSUME NEW c \in Calls, CanonicalNext(c) PROVE DraftsInv'
  BY <1>3, RefuseCanonicalStep, CanonicalReadsStep, SendCanonicalStep, CanonicalAfterStep
     DEF CanonicalNext
<1>4. CASE UNCHANGED vars
  <2>1. UNCHANGED <<revs, live, work, alias, edits, call, wire>>
    BY <1>4 DEF vars, host
  <2>2. HostTypeOK' /\ CallsTypeOK' /\ RevsBounded' /\ SavedOnTop'
    BY <2>1 DEF DraftsInv, HostTypeOK, CallsTypeOK, RevsBounded, SavedOnTop
  <2>3. \A c \in Calls : RevsKept(c)
    BY <2>1, RevisionTypes DEF RevsKept, DraftsInv
  <2>4. \A c \in Calls : CallInv(c)'
    BY <2>1, <2>3, CallKept DEF DraftsInv
  <2>5. AgentNeverPublishes' /\ NoLostDraft'
    BY <2>1 DEF DraftsInv, AgentNeverPublishes, NoLostDraft
  <2> QED BY <2>2, <2>4, <2>5 DEF DraftsInv
<1> QED BY <1>1, <1>2, <1>3, <1>4, HandleStep, LoseStep, EditorStep DEF Next

\* The invariant holds for any number of calls, components, revisions and edits,
\* whatever is late, refused or lost.
THEOREM DraftsInvariant == Spec => []DraftsInv
<1>1. Init => DraftsInv
  BY DraftsInit
<1>2. DraftsInv /\ [Next]_vars => DraftsInv'
  BY DraftsStep
<1> QED BY <1>1, <1>2, PTL DEF Spec

---------------------------------------------------------------------------
(* What follows for the code *)

\* No call publishes a host that its own first read showed published: neither a
\* late request nor an interleaved edit makes an update publish.
THEOREM AgentsNeverPublish == Spec => []AgentNeverPublishes
<1>1. DraftsInv => AgentNeverPublishes
  BY DEF DraftsInv
<1> QED BY <1>1, DraftsInvariant, PTL

\* A governed save, however late, loses no component of the draft it lands on
\* other than the one its call replaces.
THEOREM DraftsAreKept == Spec => []NoLostDraft
<1>1. DraftsInv => NoLostDraft
  BY DEF DraftsInv
<1> QED BY <1>1, DraftsInvariant, PTL

\* A refusal is clean: no revision, no paragraph, nothing on its way.
THEOREM RefusalsAreClean == Spec => []RefusedWroteNothing
<1>1. DraftsInv => RefusedWroteNothing
  BY DEF DraftsInv, CallInv, RefusedIsClean, Wrote, RefusedWroteNothing
<1> QED BY <1>1, DraftsInvariant, PTL

\* A call that ends reports every paragraph Drupal confirmed to it.
THEOREM PreparedIsReported == Spec => []EveryPreparedReported
<1>1. DraftsInv => EveryPreparedReported
  <2> SUFFICES ASSUME DraftsInv, NEW c \in Calls, Ended(c)
               PROVE  call[c].heard \cap call[c].made
                        \subseteq IF call[c].out \in {"refused", "failed"} THEN {} ELSE call[c].told
    BY DEF EveryPreparedReported
  <2>1. CallInv(c)
    BY DEF DraftsInv
  <2> QED BY <2>1 DEF CallInv, Bookkept, RefusedIsClean
<1> QED BY <1>1, DraftsInvariant, PTL

\* A reported success is in Drupal: the call's own save, its parent pinned, or
\* its alias in place; and a bulk summary counts the paragraphs that exist.
THEOREM FinishedWorkIsThere == Spec => []FinishedMeansLanded
<1>1. DraftsInv => FinishedMeansLanded
  <2> SUFFICES ASSUME DraftsInv, NEW c \in Calls
               PROVE  /\ call[c].out = "finished" /\ call[c].tool = "patch" =>
                           call[c].heard = {call[c].path}
                      /\ call[c].out = "finished" /\ call[c].tool \notin {"bulk", "patch"} =>
                           SavedOrPinned(c)
                      /\ call[c].tool = "bulk" => call[c].created = Cardinality(call[c].heard)
    BY Zenon DEF FinishedMeansLanded
  <2>1. Landed(c) /\ RowsCounted(c)
    BY DEF DraftsInv, CallInv
  <2>2. call[c].vid \in DOMAIN revs => call[c].vid \in Line(call[c].vid)
    BY DEF Line
  <2> QED BY <2>1, <2>2 DEF Landed, RowsCounted, SavedOrPinned, Wrote
<1> QED BY <1>1, DraftsInvariant, PTL
=============================================================================
