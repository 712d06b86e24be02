--------------------------- MODULE SourceSessions ---------------------------
(***************************************************************************)
(* Calls to a site's MCP endpoint: each needs a session of its principal   *)
(* and token, shares the handshake that is under way for it, and is        *)
(* replayed once when the source has dropped its session and once when its *)
(* token was refused.                                                      *)
(***************************************************************************)
EXTENDS Naturals, FiniteSets, Sequences, SequencesExt

CONSTANTS
  Principals,   \* callers, as the catalog cache names them
  BudgetKey,    \* as data-flow.js names each of them
  Calls,        \* requests to the endpoint
  SessionCap,   \* sessions kept
  MaxDrops,     \* times the source drops its sessions: bounds the model
  MaxTokens     \* tokens that are issued: bounds the model

ASSUME SessionAssumption == SessionCap \in Nat \ {0} /\ MaxDrops \in Nat /\ MaxTokens \in Nat \ {0}

VARIABLES
  setup,      \* what this process serves, and what happens around it
  table,      \* sessions: key and session id, in insertion order
  shakes,     \* handshakeInflight: the handshake of a key
  alive,      \* sessions the source knows
  token,      \* the token in use: how many there were before
  call,       \* each request
  drops,      \* history: times the source has dropped its sessions
  evicted     \* history: keys whose session the cap has pushed out

sessionVars == <<table, shakes, alive, token, call, drops, evicted>>

\* No caller, no answer, nothing advertised.
None == ""

\* res is the answer on its way or read; ran, history: what it did at the source.
NewCall == [who |-> None, retry |-> TRUE, pc |-> "idle", key |-> <<>>, sid |-> 0, res |-> "none",
            value |-> None, refreshed |-> FALSE, reinited |-> FALSE, ran |-> 0]

SessionsInit ==
  /\ table = <<>> /\ shakes = <<>> /\ alive = {} /\ token = 1
  /\ call = [c \in Calls |-> NewCall]
  /\ drops = 0 /\ evicted = {}

Happens(event) == event \in setup.env

---------------------------------------------------------------------------
(* Sessions and handshakes *)

Without(t, key) == RemoveFirstMatch(t, LAMBDA row : row.key = key)

\* ensureSession, in a table: the session at hand, the handshake that is under
\* way, or a new handshake.
Ensured(c, q, t) ==
  LET cached == {i \in DOMAIN t : t[i].key = q.key}
  IN  IF cached # {}
      THEN [q EXCEPT !.pc = "sent", !.sid = t[CHOOSE i \in cached : TRUE].sid]
      ELSE [q EXCEPT !.pc = "joining"]

\* The handshake of a key, once a call has come to need it.
Shaking(q) ==
  IF q.pc = "joining" /\ ~\E i \in DOMAIN shakes : shakes[i].key = q.key
  THEN Append(shakes, [key |-> q.key, sid |-> 0, refreshed |-> FALSE])
  ELSE shakes

\* requestServerTool up to its first wait.
Begun(c, who, retry) ==
  Ensured(c, [NewCall EXCEPT !.who = who, !.retry = retry, !.key = <<who, token>>], table)

Joined(key) == {c \in Calls : call[c].pc = "joining" /\ call[c].key = key}

\* The source answers initialize with a new session.
Issue(i) ==
  /\ shakes[i].sid = 0
  /\ LET sid == CHOOSE n \in 1..(Cardinality(alive) + Len(table) + Len(shakes) + 2 * Cardinality(Calls) + 1) :
                  /\ n \notin alive
                  /\ \A j \in DOMAIN table : table[j].sid # n
                  /\ \A j \in DOMAIN shakes : shakes[j].sid # n
                  /\ \A c \in Calls : call[c].sid # n
     IN  /\ alive' = alive \cup {sid}
         /\ shakes' = [shakes EXCEPT ![i].sid = sid]
  /\ UNCHANGED <<setup, table, token, call, drops, evicted>>

\* A 401 refreshes the token, once; the handshake goes on with the new one.
ShakeRefused(i) ==
  /\ Happens("tokens") /\ shakes[i].sid = 0 /\ ~shakes[i].refreshed /\ token < MaxTokens
  /\ shakes' = [shakes EXCEPT ![i].refreshed = TRUE]
  /\ token' = token + 1
  /\ UNCHANGED <<setup, table, alive, call, drops, evicted>>

\* notifications/initialized has been tried: the session is kept, and every call
\* that waited goes on with it.
Establish(i) ==
  LET key == shakes[i].key
      full == Len(table) >= SessionCap
      kept == IF full THEN Tail(table) ELSE table
      row  == [key |-> key, sid |-> shakes[i].sid]
  IN  /\ shakes[i].sid # 0
      /\ table' = IF \E j \in DOMAIN kept : kept[j].key = key
                  THEN [j \in DOMAIN kept |-> IF kept[j].key = key THEN row ELSE kept[j]]
                  ELSE Append(kept, row)
      /\ evicted' = IF full THEN evicted \cup {Head(table).key} ELSE evicted
      /\ shakes' = RemoveAt(shakes, i)
      /\ call' = [c \in Calls |-> IF c \in Joined(key)
                                  THEN [call[c] EXCEPT !.pc = "sent", !.sid = row.sid] ELSE call[c]]
      /\ UNCHANGED <<setup, alive, token, drops>>

\* A handshake fails, and with it every call that shares it.
ShakeFails(i) ==
  /\ Happens("faults")
  /\ shakes' = RemoveAt(shakes, i)
  /\ call' = [c \in Calls |-> IF c \in Joined(shakes[i].key)
                              THEN [call[c] EXCEPT !.pc = "done", !.res = "no_session"] ELSE call[c]]
  /\ UNCHANGED <<setup, table, alive, token, drops, evicted>>

\* The source drops every session it knows.
SourceDrops ==
  /\ Happens("drops") /\ drops < MaxDrops /\ (drops > 0 => Happens("again"))
  /\ alive' = {} /\ drops' = drops + 1
  /\ UNCHANGED <<setup, table, shakes, token, call, evicted>>

---------------------------------------------------------------------------
(* One call *)

\* The source takes the request.  A session it does not know stops it first.
Serve(c, advert) ==
  /\ call[c].pc = "sent"
  /\ \/ /\ call[c].sid \notin alive
        /\ call' = [call EXCEPT ![c].pc = "back", ![c].res = "expired"]
     \/ /\ call[c].sid \in alive
        /\ call' = [call EXCEPT ![c].pc = "back", ![c].res = "ok", ![c].value = advert,
                                ![c].ran = @ + 1]
     \/ /\ Happens("tokens") /\ (~call[c].refreshed => token < MaxTokens)
        /\ call' = [call EXCEPT ![c].pc = "back", ![c].res = "unauthorized"]
     \/ /\ Happens("faults") /\ call[c].sid \in alive
        /\ \E ran \in {0, 1} :
             call' = [call EXCEPT ![c].pc = "back", ![c].res = "failed", ![c].ran = @ + ran]
  /\ UNCHANGED <<setup, table, shakes, alive, token, drops, evicted>>

MayRefresh(q) == q.res = "unauthorized" /\ ~q.refreshed /\ q.retry
MayReinit(q) == q.res = "expired" /\ ~q.reinited /\ q.retry

\* A refused token is cleared, and the request sent again in the same session.
Refresh(c) ==
  /\ call[c].pc = "back" /\ MayRefresh(call[c])
  /\ token' = token + 1
  /\ call' = [call EXCEPT ![c].pc = "sent", ![c].refreshed = TRUE]
  /\ UNCHANGED <<setup, table, shakes, alive, drops, evicted>>

DropSessionM1(key) == table

\* The session that is deleted is the one the table has now: it may be one that
\* another call's handshake has just stored.
DropSession(key) == Without(table, key)

Reinit(c) ==
  LET q == Ensured(c, [call[c] EXCEPT !.reinited = TRUE], DropSession(call[c].key))
  IN  /\ call[c].pc = "back" /\ MayReinit(call[c])
      /\ table' = DropSession(call[c].key)
      /\ call' = [call EXCEPT ![c] = q]
      /\ shakes' = Shaking(q)
      /\ UNCHANGED <<setup, alive, token, drops, evicted>>

Finish(c) ==
  /\ call[c].pc = "back" /\ ~MayRefresh(call[c]) /\ ~MayReinit(call[c])
  /\ call' = [call EXCEPT ![c].pc = "done"]
  /\ UNCHANGED <<setup, table, shakes, alive, token, drops, evicted>>

SessionStep ==
  \/ \E i \in DOMAIN shakes : Issue(i) \/ ShakeRefused(i) \/ Establish(i) \/ ShakeFails(i)
  \/ SourceDrops
  \/ \E c \in Calls : Refresh(c) \/ Finish(c)

---------------------------------------------------------------------------
(* Properties *)

\* server-tools.js:608.  However many calls find one session expired at a time,
\* and whichever of them deletes the session or joins the handshake of another,
\* one drop of the source's sessions fails no call that may be replayed, unless
\* the cap has pushed out a session of its key while calls still used it; and
\* nothing is run twice.
OneExpiryIsSurvived ==
  \A c \in Calls :
    /\ call[c].ran <= 1
    /\ call[c].pc = "done" /\ call[c].res = "expired" /\ call[c].retry =>
         drops >= 2 \/ call[c].key \in evicted
=============================================================================
