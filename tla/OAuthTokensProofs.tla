------------------------- MODULE OAuthTokensProofs -------------------------
(***************************************************************************)
(* The safety of the token cache, for every number of calls and tokens.    *)
(*                                                                         *)
(* The promise in the cache, and the one a call joined, belong to a        *)
(* running request because each handler that ends a request also settles   *)
(* the calls that joined it and overwrites the cache (NoSettledPromise is  *)
(* inductive once the entries have their shape).  A cleared token stays    *)
(* out because only a request that is granted stores one, and the tokens   *)
(* the issuer grants are new: the cleared ones are among those granted     *)
(* before (TokensGranted).                                                 *)
(***************************************************************************)
EXTENDS OAuthTokens, TLAPS

\* A promise names its caller, and a resolved entry a token that was granted.
EntryShape(e) ==
  /\ e.kind = "promise" => e.by \in Callers
  /\ e.kind = "resolved" => e.token \in 1..granted

\* What a call waits for is what its state says.
ReadShape ==
  \A c \in Callers :
    /\ EntryShape(call[c].read)
    /\ call[c].st = "joined" => call[c].read.kind = "promise"
    /\ call[c].st = "reading" => call[c].read.kind = "resolved"

\* A call presents a token that was granted, and only such ones are cleared.
TokensGranted ==
  /\ \A c \in Callers : call[c].st = "fetching" => call[c].token \in 1..granted
  /\ cleared \subseteq 1..granted

CacheInv ==
  /\ TokensTypeOK
  /\ EntryShape(cache)
  /\ ReadShape
  /\ TokensGranted
  /\ NoSettledPromise
  /\ ClearedTokenStaysOut

---------------------------------------------------------------------------
(* The entries *)

\* The three kinds of entry have their type and shape.
LEMMA EntryTypes ==
  /\ Absent \in Entry /\ EntryShape(Absent)
  /\ \A c \in Callers : Promise(c) \in Entry /\ EntryShape(Promise(c))
  /\ \A token \in Tokens, refresh \in BOOLEAN : Resolved(token, refresh) \in Entry
BY DEF Entry, Absent, Promise, Resolved, EntryShape

\* What a handler writes into a call leaves it one.
LEMMA CallUpdates ==
  ASSUME NEW q \in Call
  PROVE  /\ \A read \in Entry, st \in {"reading", "joined"} :
              [q EXCEPT !.st = st, !.read = read] \in Call
         /\ \A grant \in {"base", "refresh"} :
              [q EXCEPT !.st = "requesting", !.read = Absent, !.grant = grant] \in Call
         /\ \A token \in Tokens :
              /\ [q EXCEPT !.st = "fetching", !.read = Absent, !.token = token] \in Call
              /\ [q EXCEPT !.st = "fetching", !.token = token] \in Call
         /\ [q EXCEPT !.st = "failed", !.read = Absent] \in Call
         /\ \A st \in {"done", "failed"} : [q EXCEPT !.st = st] \in Call
         /\ [q EXCEPT !.grant = "base"] \in Call
         /\ [q EXCEPT !.st = "requesting", !.grant = "base", !.retry = TRUE] \in Call
BY EntryTypes DEF Call

\* The entries that existed keep their shape while tokens are granted.
LEMMA ShapeKept ==
  ASSUME NEW e, granted \in Nat, granted' \in Nat, granted <= granted', EntryShape(e)
  PROVE  /\ e.kind = "promise" => e.by \in Callers
         /\ e.kind = "resolved" => e.token \in 1..granted'
BY DEF EntryShape

---------------------------------------------------------------------------
(* The steps of getAccessToken *)

\* A token request starts: its caller was waiting for no other request, and
\* nobody had joined one of its own.
LEMMA AcquireStep ==
  ASSUME CacheInv, NEW c \in Callers, NEW read \in Entry, Acquire(c, read),
         call[c].st \in {"idle", "reading"},
         UNCHANGED <<granted, expired, revoked, cleared>>
  PROVE  CacheInv'
<1> DEFINE grant == IF read.refresh THEN "refresh" ELSE "base"
<1>s. /\ call \in [Callers -> Call] /\ call[c] \in Call
      /\ granted \in Nat /\ cache' = Promise(c)
  BY TokenAssumption DEF CacheInv, TokensTypeOK, TokenAssumption, Acquire
<1>e. call' = [call EXCEPT ![c].st = "requesting", ![c].read = Absent, ![c].grant = grant]
  BY DEF Acquire
<1>u. call' = [call EXCEPT ![c] =
                [call[c] EXCEPT !.st = "requesting", !.read = Absent, !.grant = grant]]
  <2> HIDE DEF grant
  <2> QED BY <1>s, <1>e
<1>t. /\ call \in [Callers -> Call] /\ call[c] \in Call
      /\ granted \in Nat /\ cache' = Promise(c)
      /\ call' = [call EXCEPT ![c] =
                    [call[c] EXCEPT !.st = "requesting", !.read = Absent, !.grant = grant]]
  BY <1>s, <1>u
<1>1. TokensTypeOK'
  <2>1. grant \in {"base", "refresh"}
    OBVIOUS
  <2> HIDE DEF grant
  <2>2. call' \in [Callers -> Call]
    BY <1>t, <2>1, CallUpdates
  <2> QED BY <1>t, <2>2, EntryTypes DEF CacheInv, TokensTypeOK
<1> HIDE DEF grant
<1>2. /\ call'[c].st = "requesting" /\ call'[c].read = Absent
      /\ \A d \in Callers \ {c} : call'[d] = call[d]
  BY <1>t DEF Call
<1>3. EntryShape(cache)'
  BY <1>t DEF EntryShape, Promise
<1>4. ReadShape'
  BY <1>2 DEF CacheInv, ReadShape, EntryShape, Absent
<1>5. TokensGranted'
  BY <1>2 DEF CacheInv, TokensGranted
<1>6. NoSettledPromise'
  <2>1. cache'.by = c
    BY <1>t DEF Promise
  <2>2. ASSUME NEW d \in Callers, call'[d].st = "joined"
        PROVE  call'[call'[d].read.by].st = "requesting"
    <3>1. d # c /\ call'[d] = call[d]
      BY <1>2, <2>2
    <3>2. call[d].read.by \in Callers /\ call[call[d].read.by].st = "requesting"
      BY <2>2, <3>1 DEF CacheInv, ReadShape, EntryShape, NoSettledPromise
    <3> QED BY <1>2, <3>1, <3>2
  <2> QED BY <1>2, <2>1, <2>2 DEF NoSettledPromise
<1>7. ClearedTokenStaysOut'
  BY <1>t DEF ClearedTokenStaysOut, Promise
<1> QED BY <1>1, <1>3, <1>4, <1>5, <1>6, <1>7 DEF CacheInv

\* A call that suspends on what it read from the cache.
LEMMA AwaitsStep ==
  ASSUME CacheInv, NEW c \in Callers, call[c].st = "idle",
         NEW st \in {"reading", "joined"}, Awaits(c, st),
         st = "reading" => cache.kind = "resolved",
         st = "joined" => cache.kind = "promise",
         UNCHANGED <<granted, expired, revoked, cleared>>
  PROVE  CacheInv'
<1>t. /\ call \in [Callers -> Call] /\ call[c] \in Call /\ cache \in Entry
      /\ cache' = cache
      /\ call' = [call EXCEPT ![c] = [call[c] EXCEPT !.st = st, !.read = cache]]
  BY DEF CacheInv, TokensTypeOK, Awaits
<1>1. TokensTypeOK'
  <2>1. call' \in [Callers -> Call]
    BY <1>t, CallUpdates
  <2> QED BY <1>t, <2>1 DEF CacheInv, TokensTypeOK
<1>2. /\ call'[c].st = st /\ call'[c].read = cache
      /\ \A d \in Callers \ {c} : call'[d] = call[d]
  BY <1>t DEF Call
<1>3. EntryShape(cache)' /\ ClearedTokenStaysOut'
  BY <1>t DEF CacheInv, EntryShape, ClearedTokenStaysOut
<1>4. ReadShape'
  BY <1>2 DEF CacheInv, ReadShape, EntryShape
<1>5. TokensGranted'
  BY <1>2 DEF CacheInv, TokensGranted
<1>6. NoSettledPromise'
  <2>1. cache.kind = "promise" =>
          /\ cache.by \in Callers \ {c}
          /\ call'[cache.by].st = "requesting"
    BY <1>2 DEF CacheInv, EntryShape, NoSettledPromise
  <2>2. ASSUME NEW d \in Callers \ {c}, call'[d].st = "joined"
        PROVE  call'[call'[d].read.by].st = "requesting"
    <3>1. /\ call'[d] = call[d]
          /\ call[d].read.by \in Callers /\ call[call[d].read.by].st = "requesting"
      BY <1>2, <2>2 DEF CacheInv, ReadShape, EntryShape, NoSettledPromise
    <3> QED BY <1>2, <3>1
  <2> QED BY <1>t, <1>2, <2>1, <2>2 DEF NoSettledPromise
<1> QED BY <1>1, <1>3, <1>4, <1>5, <1>6 DEF CacheInv

\* getAccessToken up to its first await.
LEMMA BeginStep ==
  ASSUME CacheInv, NEW c \in Callers, Begin(c)
  PROVE  CacheInv'
<1>1. cache.kind \in {"absent", "resolved", "promise"}
  BY DEF CacheInv, TokensTypeOK, Entry
<1>2. call[c].st = "idle" /\ UNCHANGED <<granted, expired, revoked, cleared>>
  BY DEF Begin
<1>3. CASE cache.kind = "absent"
  BY <1>2, <1>3, EntryTypes, AcquireStep DEF Begin
<1>4. CASE cache.kind = "resolved"
  BY <1>2, <1>4, AwaitsStep DEF Begin
<1>5. CASE cache.kind = "promise"
  BY <1>2, <1>5, AwaitsStep DEF Begin
<1> QED BY <1>1, <1>3, <1>4, <1>5

\* A step of one call that neither is nor was waiting for a request, and that
\* leaves the cache, or puts the promise of its own request there.
LEMMA OneCallStep ==
  ASSUME CacheInv, TokensTypeOK', NEW c \in Callers, UNCHANGED granted,
         \A d \in Callers \ {c} : call'[d] = call[d],
         call[c].st = "requesting" => call'[c].st = "requesting",
         call'[c].st \notin {"reading", "joined"},
         call'[c].read \in {call[c].read, Absent},
         call'[c].st = "fetching" => call'[c].token \in 1..granted,
         cleared' \subseteq 1..granted,
         \/ cache' = cache /\ cleared' = cleared
         \/ cache' = Promise(c) /\ call'[c].st = "requesting"
  PROVE  CacheInv'
<1>1. EntryShape(cache)' /\ ClearedTokenStaysOut'
  BY DEF CacheInv, EntryShape, ClearedTokenStaysOut, Promise
<1>2. ReadShape'
  BY DEF CacheInv, ReadShape, EntryShape, Absent
<1>3. TokensGranted'
  BY DEF CacheInv, TokensGranted
<1>4. NoSettledPromise'
  <2>1. \A b \in Callers : call[b].st = "requesting" => call'[b].st = "requesting"
    OBVIOUS
  <2>2. \A d \in Callers : call'[d].st = "joined" =>
          call[d].st = "joined" /\ call'[d].read = call[d].read /\ call[d].read.by \in Callers
    BY DEF CacheInv, ReadShape, EntryShape
  <2>3. cache'.kind = "promise" => call'[cache'.by].st = "requesting"
    BY <2>1 DEF CacheInv, EntryShape, NoSettledPromise, Promise
  <2> QED BY <2>1, <2>2, <2>3 DEF CacheInv, NoSettledPromise
<1> QED BY <1>1, <1>2, <1>3, <1>4 DEF CacheInv

\* getAccessToken after its first await: the token that was read is used, or a
\* request starts.
LEMMA ResumeStep ==
  ASSUME CacheInv, NEW c \in Callers, Resume(c)
  PROVE  CacheInv'
<1>t. /\ call \in [Callers -> Call] /\ call[c] \in Call /\ call[c].read \in Entry
      /\ call[c].st = "reading" /\ UNCHANGED <<granted, expired, revoked, cleared>>
  BY DEF CacheInv, TokensTypeOK, Call, Resume
<1>1. CASE call[c].read.token \in expired
  BY <1>t, <1>1, AcquireStep DEF Resume
<1>2. CASE call[c].read.token \notin expired
  <2> DEFINE token == call[c].read.token
  <2>1. token \in 1..granted /\ token \in Tokens
    BY <1>t, TokenAssumption
       DEF CacheInv, ReadShape, EntryShape, TokensTypeOK, Tokens, TokenAssumption
  <2>2. /\ cache' = cache
        /\ call' = [call EXCEPT ![c] =
                      [call[c] EXCEPT !.st = "fetching", !.read = Absent, !.token = token]]
    BY <1>2 DEF Resume
  <2> HIDE DEF token
  <2>3. call' \in [Callers -> Call]
    BY <1>t, <2>1, <2>2, CallUpdates
  <2>4. /\ call'[c].st = "fetching" /\ call'[c].read = Absent /\ call'[c].token = token
        /\ \A d \in Callers \ {c} : call'[d] = call[d]
    BY <1>t, <2>2 DEF Call
  <2>5. TokensTypeOK'
    BY <1>t, <2>2, <2>3 DEF CacheInv, TokensTypeOK
  <2>6. cleared \subseteq 1..granted
    BY DEF CacheInv, TokensGranted
  <2> QED BY <1>t, <2>1, <2>2, <2>4, <2>5, <2>6, OneCallStep
<1> QED BY <1>1, <1>2

\* The refresh grant failed: the request goes on with the base grant.
LEMMA RefreshFailsStep ==
  ASSUME CacheInv, NEW c \in Callers, RefreshFails(c)
  PROVE  CacheInv'
<1>t. /\ call \in [Callers -> Call] /\ call[c] \in Call /\ call[c].st = "requesting"
      /\ call' = [call EXCEPT ![c] = [call[c] EXCEPT !.grant = "base"]]
      /\ UNCHANGED <<cache, granted, expired, revoked, cleared>>
  BY DEF CacheInv, TokensTypeOK, RefreshFails
<1>1. call' \in [Callers -> Call]
  BY <1>t, CallUpdates
<1>2. /\ call'[c].st = "requesting" /\ call'[c].read = call[c].read
      /\ \A d \in Callers \ {c} : call'[d] = call[d]
  BY <1>t DEF Call
<1>3. TokensTypeOK'
  BY <1>t, <1>1 DEF CacheInv, TokensTypeOK
<1>4. cleared \subseteq 1..granted
  BY DEF CacheInv, TokensGranted
<1> QED BY <1>t, <1>2, <1>3, <1>4, OneCallStep

\* A settled request: its caller goes on, those that joined it no longer wait,
\* and the cache holds no promise.
LEMMA RequestEnds ==
  ASSUME CacheInv, TokensTypeOK', NEW c \in Callers, call[c].st = "requesting",
         granted <= granted', UNCHANGED cleared,
         cache'.kind # "promise", EntryShape(cache)',
         cache'.kind = "resolved" => cache'.token \notin cleared,
         call'[c].st \in {"fetching", "failed"}, call'[c].read \in {call[c].read, Absent},
         call'[c].st = "fetching" => call'[c].token \in 1..granted',
         \A d \in Joined(c) :
           /\ EntryShape(call[d].read)'
           /\ \/ call'[d].st = "failed"
              \/ call'[d].st = "reading" /\ call'[d].read.kind = "resolved",
         \A d \in Callers \ ({c} \cup Joined(c)) : call'[d] = call[d]
  PROVE  CacheInv'
<1>t. granted \in Nat /\ granted' \in Nat
  BY TokenAssumption DEF CacheInv, TokensTypeOK, TokenAssumption
<1>1. ReadShape'
  <2> SUFFICES ASSUME NEW d \in Callers
               PROVE  /\ EntryShape(call[d].read)'
                      /\ call'[d].st = "joined" => call'[d].read.kind = "promise"
                      /\ call'[d].st = "reading" => call'[d].read.kind = "resolved"
    BY DEF ReadShape
  <2>1. /\ EntryShape(call[d].read)
        /\ call[d].st = "joined" => call[d].read.kind = "promise"
        /\ call[d].st = "reading" => call[d].read.kind = "resolved"
    BY DEF CacheInv, ReadShape
  <2>2. CASE d = c
    BY <1>t, <2>1, <2>2 DEF EntryShape, Absent
  <2>3. CASE d \in Joined(c)
    BY <2>3
  <2>4. CASE d \notin {c} \cup Joined(c)
    <3>1. call'[d] = call[d]
      BY <2>4
    <3> QED BY <1>t, <2>1, <3>1 DEF EntryShape
  <2> QED BY <2>2, <2>3, <2>4
<1>2. TokensGranted'
  <2>1. cleared' \subseteq 1..granted'
    BY <1>t DEF CacheInv, TokensGranted
  <2>2. ASSUME NEW d \in Callers, call'[d].st = "fetching" PROVE call'[d].token \in 1..granted'
    <3>1. CASE d = c
      BY <2>2, <3>1
    <3>2. CASE d \in Joined(c)
      BY <2>2, <3>2
    <3>3. CASE d \notin {c} \cup Joined(c)
      BY <1>t, <2>2, <3>3 DEF CacheInv, TokensGranted
    <3> QED BY <3>1, <3>2, <3>3
  <2> QED BY <2>1, <2>2 DEF TokensGranted
<1>3. NoSettledPromise'
  <2> SUFFICES ASSUME NEW d \in Callers, call'[d].st = "joined"
               PROVE  call'[call'[d].read.by].st = "requesting"
    BY DEF NoSettledPromise
  <2>1. d # c /\ d \notin Joined(c) /\ call'[d] = call[d]
    OBVIOUS
  <2> DEFINE b == call[d].read.by
  <2>2. b \in Callers /\ call[b].st = "requesting" /\ b # c
    BY <2>1 DEF CacheInv, ReadShape, EntryShape, NoSettledPromise, Joined
  <2>3. call'[b] = call[b]
    BY <2>2 DEF Joined
  <2> QED BY <2>1, <2>2, <2>3
<1>4. ClearedTokenStaysOut'
  BY DEF ClearedTokenStaysOut
<1> QED BY <1>1, <1>2, <1>3, <1>4 DEF CacheInv

\* The token the issuer grants is new: it was cleared by nobody.
LEMMA GrantedStep ==
  ASSUME CacheInv, NEW c \in Callers, NEW refresh \in BOOLEAN, NEW short \in BOOLEAN,
         Granted(c, refresh, short)
  PROVE  CacheInv'
<1> DEFINE token == granted + 1
<1>s. /\ call \in [Callers -> Call] /\ \A d \in Callers : call[d] \in Call
      /\ granted \in 0..MaxTokens
  BY DEF CacheInv, TokensTypeOK
<1>g. /\ call[c].st = "requesting" /\ granted < MaxTokens /\ granted' = token
      /\ UNCHANGED <<revoked, cleared>>
      /\ expired' \subseteq expired \cup {token}
  BY DEF Granted
<1>n. /\ granted \in Nat /\ token \in Tokens /\ token \in 1..token
      /\ 1..granted \subseteq 1..token
  BY <1>s, <1>g, TokenAssumption DEF TokenAssumption, Tokens
<1>t. /\ call \in [Callers -> Call] /\ \A d \in Callers : call[d] \in Call
      /\ call[c].st = "requesting"
      /\ granted \in Nat /\ token \in Tokens /\ token \in 1..token /\ granted' = token
      /\ 1..granted \subseteq 1..token
      /\ UNCHANGED <<revoked, cleared>>
      /\ expired' \subseteq expired \cup {token}
  BY <1>s, <1>g, <1>n
<1>e. /\ cache' = Resolved(token, refresh)
      /\ \A d \in Callers :
           call'[d] = IF d = c THEN [call[c] EXCEPT !.st = "fetching", !.token = token]
                      ELSE IF d \in Joined(c)
                           THEN [call[d] EXCEPT !.st = "reading", !.read = Resolved(token, FALSE)]
                      ELSE call[d]
  BY DEF Granted
<1>f. call' = [d \in Callers |-> call'[d]]
  BY DEF Granted
<1>c. token \notin cleared
  BY <1>t DEF CacheInv, TokensGranted
<1> HIDE DEF token
<1>1. Resolved(token, refresh) \in Entry /\ Resolved(token, FALSE) \in Entry
  BY <1>t, EntryTypes
<1>2. TokensTypeOK'
  <2>1. ASSUME NEW d \in Callers PROVE call'[d] \in Call
    <3>1. CASE d = c
      <4>1. call'[d] = [call[d] EXCEPT !.st = "fetching", !.token = token]
        BY <1>e, <3>1
      <4>2. call[d] \in Call /\ token \in Tokens
        BY <1>s, <1>n
      <4>3. [call[d] EXCEPT !.st = "fetching", !.token = token] \in Call
        BY <4>2 DEF Call
      <4> QED BY <4>1, <4>3
    <3>2. CASE d # c /\ d \in Joined(c)
      <4>1. call'[d] = [call[d] EXCEPT !.st = "reading", !.read = Resolved(token, FALSE)]
        BY <1>e, <3>2
      <4>2. call[d] \in Call
        BY <1>s
      <4>3. [call[d] EXCEPT !.st = "reading", !.read = Resolved(token, FALSE)] \in Call
        BY ONLY <1>1, <4>2, CallUpdates
      <4> QED BY ONLY <4>1, <4>3
    <3>3. CASE d # c /\ d \notin Joined(c)
      BY <1>t, <1>e, <3>3
    <3> QED BY <3>1, <3>2, <3>3
  <2>2. call' \in [Callers -> Call]
    BY <1>f, <2>1
  <2>3. granted' \in 0..MaxTokens
    BY <1>t, TokenAssumption DEF Tokens, TokenAssumption
  <2> QED BY <1>t, <1>e, <1>1, <2>2, <2>3 DEF CacheInv, TokensTypeOK
<1>3. /\ cache'.kind = "resolved" /\ cache'.token = token /\ EntryShape(cache)'
  BY <1>t, <1>e DEF Resolved, EntryShape
<1>4. /\ call'[c].st = "fetching" /\ call'[c].token = token /\ call'[c].read = call[c].read
  BY <1>t, <1>e DEF Call
<1>5. ASSUME NEW d \in Joined(c)
      PROVE  call'[d].st = "reading" /\ call'[d].read.kind = "resolved" /\ EntryShape(call[d].read)'
  <2>1. d \in Callers /\ d # c
    BY <1>t DEF Joined
  <2>2. call'[d].st = "reading" /\ call'[d].read = Resolved(token, FALSE)
    BY <1>t, <1>e, <2>1 DEF Call
  <2> QED BY <1>t, <2>2 DEF Resolved, EntryShape
<1>6. \A d \in Callers \ ({c} \cup Joined(c)) : call'[d] = call[d]
  BY <1>e
<1>7. granted <= granted'
  BY <1>t DEF token
<1> QED BY <1>t, <1>c, <1>2, <1>3, <1>4, <1>5, <1>6, <1>7, RequestEnds

\* A failed request takes every call that joined it along, and its promise out
\* of the cache.
LEMMA AcquireFailsStep ==
  ASSUME CacheInv, NEW c \in Callers, AcquireFails(c)
  PROVE  CacheInv'
<1>s. /\ call \in [Callers -> Call] /\ \A d \in Callers : call[d] \in Call
      /\ granted \in Nat
  BY TokenAssumption DEF CacheInv, TokensTypeOK, TokenAssumption
<1>t. /\ call[c].st = "requesting"
      /\ cache' = Absent
      /\ call' = [d \in Callers |->
           IF d \in {c} \cup Joined(c) THEN [call[d] EXCEPT !.st = "failed", !.read = Absent]
           ELSE call[d]]
      /\ UNCHANGED <<granted, expired, revoked, cleared>>
  BY DEF AcquireFails, AfterFailure
<1>1. call' \in [Callers -> Call]
  BY <1>s, <1>t, CallUpdates
<1>2. TokensTypeOK'
  BY <1>t, <1>1, EntryTypes DEF CacheInv, TokensTypeOK
<1>3. \A d \in Callers : d \in {c} \cup Joined(c) =>
        call'[d].st = "failed" /\ call'[d].read = Absent
  BY <1>s, <1>t DEF Call
<1>4. \A d \in Callers \ ({c} \cup Joined(c)) : call'[d] = call[d]
  BY <1>t
<1>5. \A d \in Joined(c) :
        d \in Callers /\ call'[d].st = "failed" /\ EntryShape(call[d].read)'
  BY <1>3 DEF Joined, EntryShape, Absent
<1>6. cache'.kind = "absent" /\ EntryShape(cache)'
  BY <1>t DEF Absent, EntryShape
<1>7. granted <= granted'
  <2>1. granted' = granted
    BY <1>t
  <2> QED BY <1>s, <2>1
<1> QED BY <1>t, <1>2, <1>3, <1>4, <1>5, <1>6, <1>7, RequestEnds

---------------------------------------------------------------------------
(* The steps of drupalFetch *)

\* An answered fetch changes no entry.
LEMMA FetchEndsStep ==
  ASSUME CacheInv, NEW c \in Callers, FetchEnds(c)
  PROVE  CacheInv'
<1> DEFINE st == IF call[c].token \in revoked THEN "failed" ELSE "done"
<1>t. /\ call \in [Callers -> Call] /\ call[c] \in Call /\ call[c].st = "fetching"
      /\ call' = [call EXCEPT ![c] = [call[c] EXCEPT !.st = st]]
      /\ UNCHANGED <<cache, granted, expired, revoked, cleared>>
  BY DEF CacheInv, TokensTypeOK, FetchEnds
<1>s. st \in {"done", "failed"}
  OBVIOUS
<1> HIDE DEF st
<1>1. call' \in [Callers -> Call]
  BY <1>t, <1>s, CallUpdates
<1>2. /\ call'[c].st = st /\ call'[c].read = call[c].read
      /\ \A d \in Callers \ {c} : call'[d] = call[d]
  BY <1>t DEF Call
<1>3. TokensTypeOK'
  BY <1>t, <1>1 DEF CacheInv, TokensTypeOK
<1>4. cleared \subseteq 1..granted
  BY DEF CacheInv, TokensGranted
<1> QED BY <1>t, <1>s, <1>2, <1>3, <1>4, OneCallStep

\* A 401 clears a token that was granted, and leaves the promise of the
\* replay in the cache.
LEMMA FetchRejectedStep ==
  ASSUME CacheInv, NEW c \in Callers, FetchRejected(c)
  PROVE  CacheInv'
<1>t. /\ call \in [Callers -> Call] /\ call[c] \in Call /\ call[c].st = "fetching"
      /\ cleared' = cleared \cup {call[c].token} /\ cache' = Promise(c)
      /\ call' = [call EXCEPT ![c] =
                    [call[c] EXCEPT !.st = "requesting", !.grant = "base", !.retry = TRUE]]
      /\ UNCHANGED <<granted, expired, revoked>>
  BY DEF CacheInv, TokensTypeOK, FetchRejected, Replays
<1>1. call' \in [Callers -> Call]
  BY <1>t, CallUpdates
<1>2. /\ call'[c].st = "requesting" /\ call'[c].read = call[c].read
      /\ \A d \in Callers \ {c} : call'[d] = call[d]
  BY <1>t DEF Call
<1>3. TokensTypeOK'
  BY <1>t, <1>1, EntryTypes DEF CacheInv, TokensTypeOK
<1>4. cleared' \subseteq 1..granted
  BY <1>t DEF CacheInv, TokensGranted
<1> QED BY <1>t, <1>2, <1>3, <1>4, OneCallStep

---------------------------------------------------------------------------
(* The inductive invariant *)

\* The process starts with an empty cache and no call.
LEMMA CacheInit == Init => CacheInv
<1> SUFFICES ASSUME Init PROVE CacheInv
  OBVIOUS
<1>1. Idle \in Call /\ EntryShape(Absent) /\ Absent \in Entry
  BY EntryTypes DEF Idle, Call
<1>2. \A c \in Callers : call[c] = Idle
  BY DEF Init
<1>3. TokensTypeOK
  BY <1>1, TokenAssumption DEF Init, TokensTypeOK, TokenAssumption
<1>4. \A c \in Callers : call[c].st = "idle" /\ call[c].read = Absent
  BY <1>2 DEF Idle
<1>5. cache = Absent /\ cache.kind = "absent" /\ cleared = {}
  BY DEF Init, Absent
<1> QED
  BY <1>1, <1>3, <1>4, <1>5
     DEF CacheInv, ReadShape, TokensGranted, NoSettledPromise, ClearedTokenStaysOut

\* Every step of the calls, the issuer and the clock keeps the invariant.
LEMMA CacheStep == CacheInv /\ [Next]_vars => CacheInv'
<1> SUFFICES ASSUME CacheInv, [Next]_vars PROVE CacheInv'
  OBVIOUS
<1>1. ASSUME UNCHANGED <<cache, call, granted, cleared>>,
             expired' \subseteq 1..granted, revoked' \subseteq 1..granted
      PROVE  CacheInv'
  <2>1. TokensTypeOK' /\ EntryShape(cache)' /\ ReadShape'
    BY <1>1 DEF CacheInv, TokensTypeOK, EntryShape, ReadShape
  <2>2. TokensGranted' /\ NoSettledPromise' /\ ClearedTokenStaysOut'
    BY <1>1 DEF CacheInv, TokensGranted, NoSettledPromise, ClearedTokenStaysOut
  <2> QED BY <2>1, <2>2 DEF CacheInv
<1>2. ASSUME NEW token \in Tokens, Expire(token) \/ Revoke(token)
      PROVE  CacheInv'
  BY <1>1, <1>2 DEF Expire, Revoke, CacheInv, TokensTypeOK
<1>3. CASE UNCHANGED vars
  BY <1>1, <1>3 DEF vars, CacheInv, TokensTypeOK
<1> QED
  BY <1>2, <1>3, BeginStep, ResumeStep, RefreshFailsStep, AcquireFailsStep, FetchEndsStep,
     FetchRejectedStep, GrantedStep DEF Next

\* The invariant holds for any number of concurrent calls, however their
\* requests succeed, fail and are shared.
THEOREM CacheInvariant == Spec => []CacheInv
<1>1. Init => CacheInv
  BY CacheInit
<1>2. CacheInv /\ [Next]_vars => CacheInv'
  BY CacheStep
<1> QED BY <1>1, <1>2, PTL DEF Spec

---------------------------------------------------------------------------
(* What follows for the code *)

\* getAccessToken shares only running requests: a settled promise is neither
\* in the cache nor awaited.
THEOREM PromisesAreRunning == Spec => []NoSettledPromise
<1>1. CacheInv => NoSettledPromise
  BY DEF CacheInv
<1> QED BY <1>1, CacheInvariant, PTL

\* clearToken is final: no older request puts the rejected token back.
THEOREM ClearedTokensStayOut == Spec => []ClearedTokenStaysOut
<1>1. CacheInv => ClearedTokenStaysOut
  BY DEF CacheInv
<1> QED BY <1>1, CacheInvariant, PTL

============================================================================
