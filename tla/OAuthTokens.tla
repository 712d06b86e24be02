---------------------------- MODULE OAuthTokens ----------------------------
(***************************************************************************)
(* The access-token cache of one Drupal site (src/lib/oauth.js) under      *)
(* concurrent calls of drupalFetch (src/lib/drupal-fetch.js), which clears *)
(* the token and replays its request once when Drupal answers 401.         *)
(*                                                                         *)
(* getAccessToken suspends twice: on the value it read from the cache, a   *)
(* resolved entry or the promise of another call's token request, and on   *)
(* its own request.  It does not look at the cache again in between.       *)
(***************************************************************************)
EXTENDS Naturals, FiniteSets

CONSTANTS
  Callers,     \* drupalFetch calls: bounds the model
  MaxTokens,   \* tokens the issuer can grant: bounds the model
  MaxRevoked,  \* tokens Drupal can come to reject: bounds the model
  CanExpire,   \* TRUE when tokens run out while the calls are made
  None

ASSUME TokenAssumption ==
  /\ MaxTokens \in Nat /\ MaxRevoked \in Nat /\ CanExpire \in BOOLEAN
  /\ None \notin Callers \cup Nat

VARIABLES
  cache,    \* the site's entry: absent, resolved, or the promise of a request
  call,     \* each call's progress
  granted,  \* tokens granted so far: 1 .. granted
  expired,  \* tokens within the expiry skew of their end
  revoked,  \* tokens Drupal answers 401
  cleared   \* history: tokens a call cleared the cache for

vars == <<cache, call, granted, expired, revoked, cleared>>

Tokens == 1..MaxTokens

\* A resolved entry keeps its refresh token, if it has one.
Absent == [kind |-> "absent", token |-> None, refresh |-> FALSE, by |-> None]
Resolved(token, refresh) ==
  [kind |-> "resolved", token |-> token, refresh |-> refresh, by |-> None]
Promise(c) == [kind |-> "promise", token |-> None, refresh |-> FALSE, by |-> c]

Entry == [kind : {"absent", "resolved", "promise"}, token : Tokens \cup {None},
          refresh : BOOLEAN, by : Callers \cup {None}]

\* "reading": suspended on a resolved entry.  "joined": on the promise of
\* another call.  "requesting": on its own request.  "fetching": its request
\* to Drupal carries the token.
Call ==
  [st : {"idle", "reading", "joined", "requesting", "fetching", "done", "failed"},
   read : Entry,                     \* what it read from the cache
   grant : {"base", "refresh"},      \* the grant its token request uses
   token : Tokens \cup {None},       \* the token it presents to Drupal
   retry : BOOLEAN]                  \* its one replay was used

Idle == [st |-> "idle", read |-> Absent, grant |-> "base", token |-> None, retry |-> FALSE]

Requesting == {c \in Callers : call[c].st = "requesting"}

---------------------------------------------------------------------------
(* getAccessToken *)

\* Start a token request and store its promise, with the refresh token of the entry that was read.
Acquire(c, read) ==
  /\ cache' = Promise(c)
  /\ call' = [call EXCEPT ![c].st = "requesting", ![c].read = Absent,
       ![c].grant = IF read.refresh THEN "refresh" ELSE "base"]

Awaits(c, st) ==
  call' = [call EXCEPT ![c].st = st, ![c].read = cache] /\ UNCHANGED cache

\* Up to the first await.
Begin(c) ==
  /\ call[c].st = "idle"
  /\ CASE cache.kind = "absent"   -> Acquire(c, Absent)
       [] cache.kind = "resolved" -> Awaits(c, "reading")
       [] cache.kind = "promise"  -> Awaits(c, "joined")
  /\ UNCHANGED <<granted, expired, revoked, cleared>>

\* After it: the token that was read is used, unless it expired.
Resume(c) ==
  /\ call[c].st = "reading"
  /\ IF call[c].read.token \notin expired
     THEN /\ call' = [call EXCEPT ![c].st = "fetching", ![c].read = Absent,
                                  ![c].token = call[c].read.token]
          /\ UNCHANGED cache
     ELSE Acquire(c, call[c].read)
  /\ UNCHANGED <<granted, expired, revoked, cleared>>

JoinedM1(c) == {}

\* The calls that await the promise of c's request.
Joined(c) == {d \in Callers : call[d].st = "joined" /\ call[d].read.by = c}

\* The refresh grant failed: ask once more with the base grant.
RefreshFails(c) ==
  /\ call[c].st = "requesting" /\ call[c].grant = "refresh"
  /\ call' = [call EXCEPT ![c].grant = "base"]
  /\ UNCHANGED <<cache, granted, expired, revoked, cleared>>

\* The issuer grants a token; one with a short life is born expired.  A call
\* that joined the promise does not learn the refresh token.
Granted(c, refresh, short) ==
  LET token == granted + 1 IN
  /\ call[c].st = "requesting"
  /\ granted < MaxTokens
  /\ granted' = token
  /\ expired' = IF short THEN expired \cup {token} ELSE expired
  /\ cache' = Resolved(token, refresh)
  /\ call' = [d \in Callers |->
       IF d = c THEN [call[c] EXCEPT !.st = "fetching", !.token = token]
       ELSE IF d \in Joined(c)
            THEN [call[d] EXCEPT !.st = "reading", !.read = Resolved(token, FALSE)]
       ELSE call[d]]
  /\ UNCHANGED <<revoked, cleared>>

\* A request that fails empties the cache, whatever is in it by then.
AfterFailureM1 == cache
AfterFailure == Absent

\* The base grant is refused, unreachable or timed out: the call fails, and
\* every call that joined its promise.
AcquireFails(c) ==
  /\ call[c].st = "requesting" /\ call[c].grant = "base"
  /\ cache' = AfterFailure
  /\ call' = [d \in Callers |->
       IF d \in {c} \cup Joined(c) THEN [call[d] EXCEPT !.st = "failed", !.read = Absent]
       ELSE call[d]]
  /\ UNCHANGED <<granted, expired, revoked, cleared>>

---------------------------------------------------------------------------
(* drupalFetch *)

RefusedM1(c) == ~call[c].retry

\* A 401 that the call may still replay.
Refused(c) == call[c].token \in revoked /\ ~call[c].retry

\* Drupal accepts the token, or answers a replay with 401.
FetchEnds(c) ==
  /\ call[c].st = "fetching" /\ ~Refused(c)
  /\ call' = [call EXCEPT ![c].st = IF call[c].token \in revoked THEN "failed" ELSE "done"]
  /\ UNCHANGED <<cache, granted, expired, revoked, cleared>>

ReplaysM1(c) == IF cache.kind = "resolved" THEN cache ELSE Promise(c)
Replays(c) == Promise(c)

\* 401 on the first attempt: clearToken, and the replay, which finds no entry
\* and starts a request of its own, in one go.
FetchRejected(c) ==
  /\ call[c].st = "fetching" /\ Refused(c)
  /\ cleared' = cleared \cup {call[c].token}
  /\ cache' = Replays(c)
  /\ call' = [call EXCEPT ![c].st = "requesting", ![c].grant = "base", ![c].retry = TRUE]
  /\ UNCHANGED <<granted, expired, revoked>>

---------------------------------------------------------------------------
(* The issuer and the clock *)

Expire(token) ==
  /\ CanExpire
  /\ token \in 1..granted \ expired
  /\ expired' = expired \cup {token}
  /\ UNCHANGED <<cache, call, granted, revoked, cleared>>

Revoke(token) ==
  /\ token \in 1..granted \ revoked
  /\ Cardinality(revoked) < MaxRevoked
  /\ revoked' = revoked \cup {token}
  /\ UNCHANGED <<cache, call, granted, expired, cleared>>

---------------------------------------------------------------------------
(* Specification *)

Init ==
  /\ cache = Absent
  /\ call = [c \in Callers |-> Idle]
  /\ granted = 0
  /\ expired = {} /\ revoked = {} /\ cleared = {}

Next ==
  \/ \E c \in Callers :
       \/ Begin(c) \/ Resume(c)
       \/ RefreshFails(c) \/ AcquireFails(c)
       \/ FetchEnds(c) \/ FetchRejected(c)
  \/ \E c \in Callers, refresh \in BOOLEAN, short \in BOOLEAN :
       /\ short => CanExpire
       /\ Granted(c, refresh, short)
  \/ \E token \in Tokens : Expire(token) \/ Revoke(token)

Spec == Init /\ [][Next]_vars

\* Every fetch is bounded by an abort timeout, and promises that settled are
\* resumed.
FairSpec ==
  /\ Spec
  /\ \A c \in Callers :
       /\ WF_vars(Resume(c)) /\ WF_vars(RefreshFails(c)) /\ WF_vars(AcquireFails(c))
       /\ WF_vars(FetchEnds(c)) /\ WF_vars(FetchRejected(c))

---------------------------------------------------------------------------
(* Properties *)

\* Every variable keeps its type.
TokensTypeOK ==
  /\ cache \in Entry
  /\ call \in [Callers -> Call]
  /\ granted \in 0..MaxTokens
  /\ expired \subseteq 1..granted /\ revoked \subseteq 1..granted

\* Only a running request is shared: the cache, and a call that joined one,
\* never wait for a request that is over, so a transient failure does not
\* poison the cache.
NoSettledPromise ==
  /\ cache.kind = "promise" => call[cache.by].st = "requesting"
  /\ \A c \in Callers : call[c].st = "joined" => call[call[c].read.by].st = "requesting"

\* A token the cache was cleared for on a 401 never comes back to it, whatever
\* older requests are still running when it is cleared.
ClearedTokenStaysOut ==
  cache.kind = "resolved" => cache.token \notin cleared

\* Every call is answered, however requests fail and are shared.
EveryCallEnds ==
  \A c \in Callers : call[c].st # "idle" ~> call[c].st \in {"done", "failed"}

\* "Concurrent callers share a single in-flight token request via the cache"
\* (oauth.js): while no token was cleared, one request runs at most.
OneTokenRequest == cleared = {} => Cardinality(Requesting) <= 1

============================================================================
