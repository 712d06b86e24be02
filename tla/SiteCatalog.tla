---------------------------- MODULE SiteCatalog ----------------------------
(***************************************************************************)
(* The catalog of one site: a cache entry per principal, the walk of the   *)
(* source that fills it, the listings that wait for the walk or give up,   *)
(* and the list_changed notifications that make up for what a listing      *)
(* could not wait for.                                                     *)
(***************************************************************************)
EXTENDS SourceSessions

CONSTANTS
  Clients,      \* sessions of MCP clients
  PrincipalOf,  \* the principal of each
  Direct,       \* calls that no walk makes: invocations of a module tool
  MaxWalks      \* walks of the source: bounds the model

ASSUME CatalogAssumption ==
  /\ PrincipalOf \in [Clients -> Principals] /\ MaxWalks \in Nat
  /\ ((1..MaxWalks) \X {"tools", "prompts"}) \cup Direct \subseteq Calls

CatalogCalls == ((1..MaxWalks) \X {"tools", "prompts"}) \cup Direct

VARIABLES
  cache,      \* the entry of each principal
  inflight,   \* the walk of each principal that is running, 0 for none
  walks,      \* every walk there has been
  client,     \* each client's listing and, history, what it was last answered and told
  pending,    \* kinds that wait for the debounce timer
  advert,     \* what the source advertises
  down        \* stdin or the transport has closed

catalogVars == <<cache, inflight, walks, client, pending, advert, down>>
vars == <<setup, sessionVars, catalogVars>>

Kinds == {"tools", "prompts"}

\* No entry; an omitted site when it is an answer.
Nothing == [kept |-> FALSE, fresh |-> FALSE, ok |-> FALSE, complete |-> FALSE,
            tools |-> None, prompts |-> None]

\* for: the kind that is being listed; on: the walk it waits for.
NewClient == [for |-> None, on |-> 0, seen |-> [k \in Kinds |-> "never"], told |-> {}, excused |-> {}]

CatalogInit ==
  /\ setup.surface \subseteq Kinds /\ setup.clients \subseteq Clients
  /\ cache = [p \in Principals |-> Nothing]
  /\ inflight = [p \in Principals |-> 0]
  /\ walks = <<>> /\ pending = {} /\ advert = "v1" /\ down = FALSE
  /\ client = [c \in Clients |-> NewClient]

---------------------------------------------------------------------------
(* The cache *)

\* tools/list takes a catalog whose tools are in, prompts/list a complete one.
Satisfies(e, kind) == e.ok /\ (kind = "prompts" => e.complete)

AdvertisedIn(e, kind) == IF e.ok THEN e[kind] ELSE None

ChangedM1(before, after) ==
  IF before.ok THEN {k \in Kinds : AdvertisedIn(before, k) # AdvertisedIn(after, k)} ELSE {}

\* emitIfCatalogAdvertisementChanged.
Changed(before, after) == {k \in Kinds : AdvertisedIn(before, k) # AdvertisedIn(after, k)}

\* A client's listing ends with an entry.
Answered(q, e) == [q EXCEPT !.for = None, !.on = 0, !.seen[q.for] = AdvertisedIn(e, q.for),
                            !.excused = @ \ {q.for}]

Waiting(p) == {c \in Clients : client[c].for # None /\ PrincipalOf[c] = p}

\* storeSnapshot.  Waiters the entry satisfies have it.
Store(p, e, previous) ==
  /\ cache' = [cache EXCEPT ![p] = e]
  /\ pending' = pending \cup Changed(previous, e)

Notified(p, e) ==
  [c \in Clients |-> IF c \in Waiting(p) /\ Satisfies(e, client[c].for)
                     THEN Answered(client[c], e) ELSE client[c]]

\* The promise of a walk settles: whoever still waits for it has what it gives.
Settled(p, e) == [c \in Clients |-> IF c \in Waiting(p) THEN Answered(client[c], e) ELSE client[c]]

\* invalidateSiteCatalogsForSite, with the principal as the budgets name it.  A
\* walk that is running goes on.
Invalidated(key) == [p \in Principals |-> IF p = key THEN Nothing ELSE cache[p]]

---------------------------------------------------------------------------
(* Listings *)

Served(e, kind) == e.kept /\ (Satisfies(e, kind) \/ (~e.ok /\ e.fresh))
Needed(e, kind) == ~(e.kept /\ e.fresh /\ (Satisfies(e, kind) \/ ~e.ok))

\* Nothing is enabled for the principal, or the process is going down: a walk
\* ends where it starts.
Idle == down \/ setup.surface = {}

Starts(p, kind) == Needed(cache[p], kind) /\ inflight[p] = 0 /\ ~Idle

NewWalk(p) == [who |-> p, pc |-> "gov", prev |-> cache[p]]

\* loadSiteCatalog up to its wait.
Load(p, kind) ==
  IF Starts(p, kind)
  THEN /\ Len(walks) < MaxWalks
       /\ walks' = Append(walks, NewWalk(p))
       /\ inflight' = [inflight EXCEPT ![p] = Len(walks) + 1]
  ELSE UNCHANGED <<walks, inflight>>

\* initialize starts the walk and waits for nothing.
Prefetch(c) ==
  /\ Starts(PrincipalOf[c], "tools") /\ Load(PrincipalOf[c], "tools")
  /\ UNCHANGED <<setup, sessionVars, cache, client, pending, advert, down>>

List(c, kind) ==
  LET p == PrincipalOf[c]
      q == [client[c] EXCEPT !.for = kind, !.told = @ \ {kind}, !.on = inflight'[p]]
  IN  /\ client[c].for = None
      /\ Load(p, kind)
      /\ client' = [client EXCEPT ![c] =
           IF Served(cache[p], kind) THEN Answered(q, cache[p])
           ELSE IF inflight'[p] = 0 THEN Answered(q, Nothing) ELSE q]
      /\ UNCHANGED <<setup, sessionVars, cache, pending, advert, down>>

\* The wait is over first: the site is left out.  A walk that found an entry when
\* it started will compare with that entry, not with what was listed.
GiveUp(c) ==
  LET q == client[c]
  IN  /\ q.for # None
      /\ client' = [client EXCEPT ![c] =
           [Answered(q, Nothing) EXCEPT !.excused = IF walks[q.on].prev.ok THEN @ \cup {q.for} ELSE @]]
      /\ UNCHANGED <<setup, sessionVars, cache, inflight, walks, pending, advert, down>>

---------------------------------------------------------------------------
(* Walks *)

Hops(w) == {<<w, hop>> : hop \in setup.surface}
Ended(w) == inflight' = [inflight EXCEPT ![walks[w].who] = 0]
Goes(w, pc) == walks' = [walks EXCEPT ![w].pc = pc]

\* The source's governance is proven before it is contacted.
Governed(w) ==
  /\ walks[w].pc = "gov" /\ ~down
  /\ Goes(w, "tools")
  /\ UNCHANGED <<setup, sessionVars, cache, inflight, client, pending, advert, down>>

\* A hop is sent: the two of a walk overlap.
Send(w, hop) ==
  LET c == <<w, hop>>
      q == Begun(c, walks[w].who, TRUE)
  IN  /\ walks[w].pc \in {"tools", "prompts", "failed"} /\ c \in Hops(w) /\ call[c].pc = "idle" /\ ~down
      /\ call' = [call EXCEPT ![c] = q] /\ shakes' = Shaking(q)
      /\ UNCHANGED <<setup, table, alive, token, drops, evicted, catalogVars>>

Back(w, hop) == hop \in setup.surface => call[<<w, hop>>].pc = "done" /\ call[<<w, hop>>].res = "ok"
Value(w, hop) == IF hop \in setup.surface THEN call[<<w, hop>>].value ELSE None

\* onTools: the tools are advertised with the prompts that were known.
ToolsIn(w) ==
  LET p == walks[w].who
      e == [kept |-> TRUE, fresh |-> TRUE, ok |-> TRUE, complete |-> "prompts" \notin setup.surface,
            tools |-> Value(w, "tools"), prompts |-> walks[w].prev.prompts]
  IN  /\ walks[w].pc = "tools" /\ Back(w, "tools")
      /\ Goes(w, "prompts")
      /\ IF down THEN UNCHANGED <<cache, pending, client>>
         ELSE Store(p, e, walks[w].prev) /\ client' = Notified(p, e)
      /\ UNCHANGED <<setup, sessionVars, inflight, advert, down>>

PromptsIn(w) ==
  LET p == walks[w].who
      e == [kept |-> TRUE, fresh |-> TRUE, ok |-> TRUE, complete |-> TRUE,
            tools |-> Value(w, "tools"), prompts |-> Value(w, "prompts")]
  IN  /\ walks[w].pc = "prompts" /\ Back(w, "prompts")
      /\ Goes(w, "done") /\ Ended(w)
      /\ IF down THEN client' = Settled(p, Nothing) /\ UNCHANGED <<cache, pending>>
         ELSE /\ Store(p, e, IF cache[p].kept THEN cache[p] ELSE walks[w].prev)
              /\ client' = Settled(p, e)
      /\ UNCHANGED <<setup, sessionVars, advert, down>>

\* The walk fails: governance cannot be proven, or the hop it waits for failed.
\* The last good catalog is given, and not stored again; without one the failure
\* is cached.
WalkFails(w) ==
  LET p == walks[w].who
      latest == IF cache[p].kept THEN cache[p] ELSE walks[w].prev
      e == [Nothing EXCEPT !.kept = TRUE, !.fresh = TRUE]
  IN  /\ \/ walks[w].pc = "gov" /\ (Happens("faults") \/ down)
         \/ \E hop \in setup.surface : /\ walks[w].pc = hop
                                       /\ call[<<w, hop>>].pc = "done" /\ call[<<w, hop>>].res # "ok"
      /\ Goes(w, IF walks[w].pc = "gov" THEN "done" ELSE "failed") /\ Ended(w)
      /\ IF latest.ok
         THEN client' = Settled(p, latest) /\ UNCHANGED <<cache, pending>>
         ELSE Store(p, e, walks[w].prev) /\ client' = Settled(p, e)
      /\ UNCHANGED <<setup, sessionVars, advert, down>>

---------------------------------------------------------------------------
(* Around them *)

\* A module tool is invoked; a write is not replayed.
Invoke(c, p, retry) ==
  LET q == Begun(c, p, retry)
  IN  /\ call[c].pc = "idle" /\ ~down
      /\ call' = [call EXCEPT ![c] = q] /\ shakes' = Shaking(q)
      /\ UNCHANGED <<setup, table, alive, token, drops, evicted, catalogVars>>

Expire(p) ==
  /\ Happens("ages") /\ cache[p].kept /\ cache[p].fresh
  /\ cache' = [cache EXCEPT ![p].fresh = FALSE]
  /\ UNCHANGED <<setup, sessionVars, inflight, walks, client, pending, advert, down>>

Advertise ==
  /\ Happens("advert") /\ advert = "v1" /\ advert' = "v2"
  /\ UNCHANGED <<setup, sessionVars, cache, inflight, walks, client, pending, down>>

\* The debounce timer: one notification for each kind, to every client it reaches.
Flush ==
  /\ pending # {} /\ pending' = {}
  /\ client' = [c \in Clients |-> IF c \in setup.reach THEN [client[c] EXCEPT !.told = @ \cup pending]
                                  ELSE client[c]]
  /\ UNCHANGED <<setup, sessionVars, cache, inflight, walks, advert, down>>

\* abortCatalogWork.  The hops that are out are aborted one by one.
Shutdown ==
  /\ Happens("shutdown") /\ ~down /\ down' = TRUE
  /\ UNCHANGED <<setup, sessionVars, cache, inflight, walks, client, pending, advert>>

Abort(c) ==
  /\ down /\ call[c].pc \in {"joining", "sent", "back"}
  /\ call' = [call EXCEPT ![c].pc = "done", ![c].res = "failed"]
  /\ UNCHANGED <<setup, table, shakes, alive, token, drops, evicted, catalogVars>>

\* requestServerTool finds its session expired.
Expired(c) ==
  /\ Reinit(c)
  /\ cache' = Invalidated(BudgetKey[call[c].who])
  /\ UNCHANGED <<inflight, walks, client, pending, advert, down>>

Next ==
  \/ \E c \in setup.clients : Prefetch(c) \/ GiveUp(c) \/ (\E kind \in Kinds : List(c, kind))
  \/ \E w \in DOMAIN walks : \/ Governed(w) \/ ToolsIn(w) \/ PromptsIn(w) \/ WalkFails(w)
                             \/ \E hop \in setup.surface : Send(w, hop)
  \/ \E who \in setup.callers, retry \in BOOLEAN : Invoke(who[1], who[2], retry)
  \/ \E p \in Principals : Expire(p)
  \/ Advertise \/ Flush \/ Shutdown
  \/ \E c \in Calls : Abort(c) \/ Expired(c)
  \/ \E c \in CatalogCalls : Serve(c, advert) /\ UNCHANGED catalogVars
  \/ SessionStep /\ UNCHANGED catalogVars

---------------------------------------------------------------------------
(* Properties *)

Quiet == ~down /\ pending = {} /\ \A p \in Principals : inflight[p] = 0

\* site-catalog.js:514.  "The rest arrives as list_changed": once nothing is under
\* way, a client that notifications reach was last answered what the catalog now
\* advertises, or has been told of a change since it asked, whatever expired,
\* failed or was invalidated under the walk it waited for.  Left out: a listing
\* that gave up on a walk which had found an entry when it started, and prompts
\* while the hops for them have failed and the catalog has its tools only.
ListedOrTold ==
  Quiet =>
    \A c \in setup.reach \cap setup.clients, kind \in Kinds :
      LET e == cache[PrincipalOf[c]]
      IN  Satisfies(e, kind) /\ client[c].seen[kind] # "never" /\ client[c].for # kind =>
            \/ client[c].seen[kind] = e[kind]
            \/ kind \in client[c].told \/ kind \in client[c].excused
=============================================================================
