------------------------- MODULE HttpRequestsProofs -------------------------
(***************************************************************************)
(* The five invariants of HttpRequests, for any number of requests, tokens *)
(* and sites.  Three groups of facts are kept by every step: what the      *)
(* session map holds, how far each tool call has come, and how old the     *)
(* evidence about the source may be.                                       *)
(***************************************************************************)
EXTENDS HttpRequests, FiniteSetTheorems, SequenceTheorems, TLAPS

Fields == {"ask", "pc", "out", "todo", "via", "handed", "site", "left", "sent",
           "afterKill", "afterStop", "lag"}

\* Each request is a record of these fields.
Shaped == DOMAIN req = Requests /\ \A r \in Requests : DOMAIN req[r] = Fields

---------------------------------------------------------------------------
(* What a step does to the requests *)

\* The step leaves what the request asks for and what its call has done.
SameCall(r) ==
  /\ req'[r].ask = req[r].ask
  /\ req'[r].site = req[r].site
  /\ req'[r].left = req[r].left
  /\ req'[r].sent = req[r].sent
  /\ req'[r].afterKill = req[r].afterKill
  /\ req'[r].afterStop = req[r].afterStop

OthersStay(r) == \A q \in Requests \ {r} : req'[q] = req[q]

\* The request goes to pc, and that is all its call and the others notice.
Moved(r, pc) ==
  Shaped' /\ OthersStay(r) /\ SameCall(r) /\ req'[r].lag = req[r].lag /\ req'[r].pc = pc
SameHanded(r) == req'[r].handed = req[r].handed

\* A request that goes on moves, and is handed to nothing.
LEMMA GoesMoves ==
  ASSUME Shaped, NEW r \in Requests, NEW pc, Goes(r, pc)
  PROVE  Moved(r, pc) /\ SameHanded(r)
BY DEF Shaped, Fields, Goes, Moved, SameHanded, OthersStay, SameCall

\* So does one that is answered.
LEMMA EndsMoves ==
  ASSUME Shaped, NEW r \in Requests, NEW out, Ends(r, out)
  PROVE  Moved(r, "done") /\ SameHanded(r)
<1> DEFINE o == IF req[r].via # "" /\ transport[req[r].via] # "open" THEN "lost" ELSE out
<1>1. req' = [req EXCEPT ![r].pc = "done", ![r].out = o]
  BY DEF Ends
<1> HIDE DEF o
<1> QED BY <1>1 DEF Shaped, Fields, Moved, SameHanded, OthersStay, SameCall

\* The step changes neither who asks for what, nor how the process runs.
LEMMA SameAsk ==
  ASSUME NEW r \in Requests, req'[r].ask = req[r].ask, setup' = setup
  PROVE  Who(r)' = Who(r) /\ Call(r)' = Call(r) /\ Id(r)' = Id(r)
BY DEF Who, Call, Id, Ask

---------------------------------------------------------------------------
(* The session map *)

Distinct(seq) == \A i, j \in 1..Len(seq) : seq[i] = seq[j] => i = j

\* An id that is removed from a sequence without repetitions is gone, and no
\* other: closeSession, onclose and touch all start with it.
LEMMA RemoveFirstFacts ==
  ASSUME NEW S, NEW seq \in Seq(S), Distinct(seq), NEW s
  PROVE  LET t == RemoveFirst(seq, s)
         IN  /\ t \in Seq(S) /\ Distinct(t)
             /\ Len(t) = IF Contains(seq, s) THEN Len(seq) - 1 ELSE Len(seq)
             /\ \A i \in 1..Len(t) : t[i] # s /\ \E j \in 1..Len(seq) : t[i] = seq[j]
<1> DEFINE t == RemoveFirst(seq, s)
<1>1. CASE ~Contains(seq, s)
  <2>1. t = seq
    BY <1>1 DEF RemoveFirst, Contains
  <2> QED BY <2>1, <1>1 DEF Contains
<1>2. CASE Contains(seq, s)
  <2>1. PICK k \in 1..Len(seq) : seq[k] = s
    BY <1>2 DEF Contains
  <2> DEFINE I == {i \in 1..Len(seq) : seq[i] = s}
  <2>2. I = {k}
    BY <2>1 DEF Distinct
  <2>3. Min(I) = k
    BY <2>2 DEF Min
  <2>4. t = RemoveAt(seq, k)
    BY <2>1, <2>2, <2>3 DEF RemoveFirst, SelectInSeq
  <2> DEFINE before == SubSeq(seq, 1, k - 1)
             after == SubSeq(seq, k + 1, Len(seq))
  <2>5. t = before \o after
    BY <2>4 DEF RemoveAt
  <2>6. /\ before \in Seq(S) /\ Len(before) = k - 1
        /\ \A i \in 1..k - 1 : before[i] = seq[i]
    BY SubSeqProperties
  <2>7. /\ after \in Seq(S) /\ Len(after) = Len(seq) - k
        /\ \A i \in 1..Len(seq) - k : after[i] = seq[k + i]
    BY SubSeqProperties
  <2> HIDE DEF t, before, after
  <2>8. t \in Seq(S) /\ Len(t) = Len(seq) - 1
    BY <2>5, <2>6, <2>7, ConcatProperties
  <2>9. \A i \in 1..Len(t) : t[i] = IF i < k THEN seq[i] ELSE seq[i + 1]
    <3>1. \A i \in 1..Len(t) : t[i] = IF i <= k - 1 THEN before[i] ELSE after[i - (k - 1)]
      BY <2>5, <2>8, <2>6, <2>7, ConcatProperties
    <3> QED BY <3>1, <2>8, <2>6, <2>7
  <2>10. \A i \in 1..Len(t) : t[i] # s /\ \E j \in 1..Len(seq) : t[i] = seq[j]
    <3> SUFFICES ASSUME NEW i \in 1..Len(t)
                 PROVE  t[i] # s /\ \E j \in 1..Len(seq) : t[i] = seq[j]
      OBVIOUS
    <3>1. CASE i < k
      BY <2>1, <2>8, <2>9, <3>1 DEF Distinct
    <3>2. CASE i >= k
      <4>1. i + 1 \in 1..Len(seq) /\ t[i] = seq[i + 1] /\ i + 1 # k
        BY <2>8, <2>9, <3>2
      <4> QED BY <4>1, <2>1 DEF Distinct
    <3> QED BY <3>1, <3>2
  <2>11. Distinct(t)
    BY <2>8, <2>9 DEF Distinct
  <2> HIDE DEF t
  <2> QED BY <1>2, <2>8, <2>10, <2>11 DEF t
<1> QED BY <1>1, <1>2

\* An id that is not in the sequence is appended.
LEMMA AppendFacts ==
  ASSUME NEW S, NEW seq \in Seq(S), Distinct(seq), NEW s \in S,
         \A i \in 1..Len(seq) : seq[i] # s
  PROVE  LET t == Append(seq, s)
         IN  /\ t \in Seq(S) /\ Distinct(t) /\ Len(t) = Len(seq) + 1
             /\ \A i \in 1..Len(t) : t[i] = s \/ \E j \in 1..Len(seq) : t[i] = seq[j]
BY AppendProperties DEF Distinct

\* The map holds sessions whose transport is open, each once, and no request
\* that is still on its way; the initializes past the eviction are counted.
SessionsInv ==
  /\ sessions \in Seq(Transports) /\ Distinct(sessions)
  /\ DOMAIN transport = Transports
  /\ \A i \in 1..Len(sessions) : transport[sessions[i]] = "open"
  /\ \A i \in 1..Len(sessions) : sessions[i] \in Requests => At(sessions[i], "done")
  /\ crowd \in Nat /\ Cardinality(Builders) \in 0..crowd
  /\ NeverHandedToClosing /\ SessionsBounded

\* What a step must leave alone for the map to stay right.
StillDone == \A q \in Requests : At(q, "done") => At(q, "done")'
MapQuiet == StillDone /\ Builders' = Builders /\ NeverHandedToClosing'

\* A request that moves and neither begins nor ends a building is such a step.
LEMMA MoveIsQuiet ==
  ASSUME SessionsInv, NEW r \in Requests, OthersStay(r), SameHanded(r),
         req[r].pc \notin {"done", "build"}, req'[r].pc # "build"
  PROVE  MapQuiet
<1>1. StillDone /\ Builders' = Builders
  BY DEF StillDone, At, Builders, OthersStay
<1>2. \A q \in Requests : req'[q].handed = req[q].handed
  BY DEF OthersStay, SameHanded
<1> QED BY <1>1, <1>2 DEF MapQuiet, SessionsInv, NeverHandedToClosing

\* The map as it was.
LEMMA MapUnchanged ==
  ASSUME SessionsInv, MapQuiet, UNCHANGED sessionVars
  PROVE  SessionsInv'
<1>1. SessionsBounded'
  BY DEF SessionsInv, MapQuiet, SessionsBounded, sessionVars
<1> QED BY <1>1 DEF SessionsInv, MapQuiet, StillDone, sessionVars, At

\* A session leaves the map, and its transport is asked to close or has closed.
LEMMA MapShrinks ==
  ASSUME SessionsInv, MapQuiet, crowd' = crowd, NEW s, NEW state,
         sessions' = RemoveFirst(sessions, s),
         transport' = [transport EXCEPT ![s] = state]
  PROVE  SessionsInv'
<1> DEFINE t == RemoveFirst(sessions, s)
<1>1. /\ t \in Seq(Transports) /\ Distinct(t)
      /\ Len(t) \in Nat /\ Len(t) <= Len(sessions)
      /\ \A i \in 1..Len(t) : t[i] # s /\ \E j \in 1..Len(sessions) : t[i] = sessions[j]
  BY RemoveFirstFacts DEF SessionsInv
<1>2. sessions' = t
  OBVIOUS
<1> HIDE DEF t
<1>3. DOMAIN transport' = Transports
  BY DEF SessionsInv
<1>4. \A i \in 1..Len(t) : transport'[t[i]] = "open"
  BY <1>1 DEF SessionsInv
<1>5. \A i \in 1..Len(t) : t[i] \in Requests => req'[t[i]].pc = "done"
  BY <1>1 DEF SessionsInv, MapQuiet, StillDone, At
<1>6. SessionsBounded'
  <2>1. Cardinality(Builders)' = Cardinality(Builders)
    BY DEF MapQuiet
  <2> DEFINE n == Cardinality(Builders)
             bound == MaxSessions + IF crowd = 0 THEN 0 ELSE crowd - 1
  <2>2. Len(sessions) + n <= bound /\ n \in Nat /\ Len(sessions) \in Nat
    BY DEF SessionsInv, SessionsBounded
  <2>3. bound \in Nat /\ bound' = bound
    BY RequestAssumption DEF SessionsInv
  <2> HIDE DEF n, bound
  <2>4. Len(t) + n <= bound
    BY <2>2, <2>3, <1>1
  <2>5. Len(sessions)' + Cardinality(Builders)' <= bound
    BY <2>1, <2>4, <1>2 DEF n
  <2>6. bound' = MaxSessions + IF crowd' = 0 THEN 0 ELSE crowd' - 1
    BY DEF bound
  <2> QED BY <2>3, <2>5, <2>6 DEF SessionsBounded
<1> QED BY <1>1, <1>2, <1>3, <1>4, <1>5, <1>6 DEF SessionsInv, MapQuiet, At

---------------------------------------------------------------------------
(* The pipeline of a request *)

\* Where a step of the pipeline may leave a request.
Lands(r, pcs) == SameHanded(r) /\ \E pc \in pcs : Moved(r, pc)

\* The checks after the principal is known let the request on or answer it.
LEMMA ScreenLands ==
  ASSUME Shaped, NEW r \in Requests, Screen(r)
  PROVE  Lands(r, {"body", "enter", "done"})
<1>1. \/ \E c : Status(r, c)
      \/ Goes(r, "body") \/ Goes(r, "enter")
  BY DEF Screen
<1>2. ASSUME NEW c, Status(r, c) PROVE Lands(r, {"body", "enter", "done"})
  BY <1>2, EndsMoves DEF Status, Lands
<1>3. ASSUME NEW pc \in {"body", "enter"}, Goes(r, pc) PROVE Lands(r, {"body", "enter", "done"})
  BY <1>3, GoesMoves DEF Lands
<1> QED BY <1>1, <1>2, <1>3

Early == {"new", "auth", "body", "enter", "handed", "listing"}
Landing == {"auth", "body", "enter", "handed", "listing", "done"}

\* A step of the pipeline moves its request and touches nothing but, when it
\* starts a probe, the governance cache.
LEMMA PipelineSteps ==
  ASSUME Shaped, NEW r \in Requests,
         \/ Arrive(r) \/ Authenticated(r) \/ ReadBody(r) \/ OpenStream(r)
         \/ ListTools(r) \/ ListingGivesUp(r) \/ RefuseLegacy(r)
  PROVE  /\ req[r].pc \in Early /\ Lands(r, Landing)
         /\ UNCHANGED <<setup, sessionVars, callVars, world>>
<1>1. ASSUME NEW pc \in Landing, Goes(r, pc) PROVE Lands(r, Landing)
  BY <1>1, GoesMoves DEF Lands
<1>2. ASSUME NEW out, Ends(r, out) PROVE Lands(r, Landing)
  BY <1>2, EndsMoves DEF Lands, Landing
<1>3. ASSUME NEW code, Status(r, code) PROVE Lands(r, Landing)
  BY <1>2, <1>3 DEF Status
<1>4. ASSUME Screen(r) PROVE Lands(r, Landing)
  BY <1>4, ScreenLands DEF Lands, Landing
<1>5. CASE Arrive(r)
  BY <1>5, <1>1, <1>3, <1>4 DEF Arrive, At, Early, Landing
<1>6. CASE Authenticated(r)
  BY <1>6, <1>3, <1>4 DEF Authenticated, At, Early
<1>7. CASE ReadBody(r)
  <2>1. \/ \E code : Status(r, code)
        \/ Goes(r, "enter") \/ Goes(r, "handed")
    BY <1>7 DEF ReadBody
  <2> QED BY <2>1, <1>7, <1>1, <1>3 DEF ReadBody, At, Early, Landing
<1>8. CASE OpenStream(r)
  BY <1>8, <1>2 DEF OpenStream, At, Early
<1>9. CASE ListTools(r)
  <2>1. \/ \E out : Ends(r, out)
        \/ Goes(r, "listing")
    BY <1>9 DEF ListTools
  <2> QED BY <2>1, <1>9, <1>1, <1>2 DEF ListTools, At, Early, Landing
<1>10. CASE ListingGivesUp(r)
  BY <1>10, <1>2 DEF ListingGivesUp, At, Early
<1>11. CASE RefuseLegacy(r)
  <2>1. \E out : Ends(r, out)
    BY <1>11 DEF RefuseLegacy
  <2> QED BY <2>1, <1>11, <1>2 DEF RefuseLegacy, At, Early
<1> QED BY <1>5, <1>6, <1>7, <1>8, <1>9, <1>10, <1>11

---------------------------------------------------------------------------
(* The steps on the session map *)

InMap == {"evict", "closing", "making_room", "ending", "capacity", "build"}

\* Dropping a session moves the request, and is handed to nothing.
LEMMA DropMoves ==
  ASSUME Shaped, NEW r \in Requests, NEW s, NEW pc, Drop(r, s, pc)
  PROVE  /\ Moved(r, pc) /\ SameHanded(r) /\ sessions' = RemoveFirst(sessions, s)
         /\ \E state : transport' = [transport EXCEPT ![s] = state]
<1>1. \E state : transport' = [transport EXCEPT ![s] = state]
  BY DEF Drop
<1>2. req' = [req EXCEPT ![r].pc = pc, ![r].via = s] /\ sessions' = RemoveFirst(sessions, s)
  BY DEF Drop
<1> QED BY <1>1, <1>2 DEF Shaped, Fields, Moved, SameHanded, OthersStay, SameCall

\* The eviction's next session is closed, or was used meanwhile and stays.
LEMMA EvictNextMoves ==
  ASSUME Shaped, NEW r \in Requests, EvictNext(r)
  PROVE  /\ SameHanded(r) /\ req[r].pc = "evict" /\ crowd' = crowd
         /\ \/ Moved(r, "evict") /\ UNCHANGED <<sessions, transport>>
            \/ /\ Moved(r, "closing")
               /\ \E s, state : /\ sessions' = RemoveFirst(sessions, s)
                                /\ transport' = [transport EXCEPT ![s] = state]
<1> DEFINE s == Head(req[r].todo)
           rest == [req EXCEPT ![r].todo = Tail(@)]
<1>1. /\ DOMAIN rest = Requests /\ \A q \in Requests : DOMAIN rest[q] = Fields
      /\ \A q \in Requests \ {r} : rest[q] = req[q]
      /\ \A f \in Fields \ {"todo"} : rest[r][f] = req[r][f]
  BY DEF Shaped, Fields
<1>2. At(r, "evict") /\ crowd' = crowd
  BY DEF EvictNext
<1>3. \/ /\ \E state : transport' = [transport EXCEPT ![s] = state]
         /\ sessions' = RemoveFirst(sessions, s)
         /\ req' = [rest EXCEPT ![r].pc = "closing", ![r].via = s]
      \/ req' = rest /\ UNCHANGED <<sessions, transport>>
  BY DEF EvictNext
<1> HIDE DEF rest, s
<1>4. ASSUME req' = rest PROVE Moved(r, "evict") /\ SameHanded(r)
  BY <1>1, <1>2, <1>4 DEF At, Shaped, Fields, Moved, SameHanded, OthersStay, SameCall
<1>5. ASSUME req' = [rest EXCEPT ![r].pc = "closing", ![r].via = s]
      PROVE  Moved(r, "closing") /\ SameHanded(r)
  BY <1>1, <1>5 DEF Shaped, Fields, Moved, SameHanded, OthersStay, SameCall
<1> QED BY <1>2, <1>3, <1>4, <1>5 DEF At

\* A transport has closed: the request that waited for it goes on.
LEMMA ClosedMoves ==
  ASSUME Shaped, NEW r \in Requests, Closed(r)
  PROVE  /\ req[r].pc \in {"closing", "making_room", "ending"} /\ SameHanded(r)
         /\ \E pc \in {"evict", "capacity", "done"} : Moved(r, pc)
         /\ \E s, state : /\ sessions' = RemoveFirst(sessions, s)
                          /\ transport' = [transport EXCEPT ![s] = state]
         /\ UNCHANGED <<setup, crowd, callVars, world, gov>>
<1>1. PICK pc \in {"evict", "capacity", "done"} :
         \E out : req' = [req EXCEPT ![r].via = "", ![r].pc = pc, ![r].out = out]
  BY DEF Closed, At
<1>2. PICK out : req' = [req EXCEPT ![r].via = "", ![r].pc = pc, ![r].out = out]
  BY <1>1
<1>3. Moved(r, pc) /\ SameHanded(r)
  BY <1>2 DEF Shaped, Fields, Moved, SameHanded, OthersStay, SameCall
<1> QED BY <1>3 DEF Closed

\* Whatever a step of the session handler does, the request goes to a place
\* where no call runs, and its call is as before.
LEMMA LegacyLands ==
  ASSUME Shaped, NEW r \in Requests, LegacyNext(r)
  PROVE  /\ req[r].pc \in Early \cup InMap
         /\ \E pc \in Landing \cup InMap : Moved(r, pc)
         /\ UNCHANGED <<setup, callVars, world, gov>>
<1>1. ASSUME NEW out, Ends(r, out) PROVE \E pc \in Landing \cup InMap : Moved(r, pc)
  BY <1>1, EndsMoves DEF Landing
<1>2. CASE StartEviction(r)
  <2>1. PICK list : req' = [req EXCEPT ![r].pc = "evict", ![r].todo = list]
    BY <1>2 DEF StartEviction
  <2>2. Moved(r, "evict")
    BY <2>1 DEF Shaped, Fields, Moved, OthersStay, SameCall
  <2> QED BY <2>2, <1>2 DEF StartEviction, At, Early, InMap
<1>3. CASE RefuseLegacy(r)
  BY <1>3, PipelineSteps DEF RefuseLegacy, Lands
<1>4. CASE EvictNext(r)
  BY <1>4, EvictNextMoves DEF EvictNext, InMap
<1>5. CASE Route(r)
  <2>1. At(r, "evict") /\ UNCHANGED <<setup, callVars, world, gov>>
    BY <1>5 DEF Route
  <2>2. \/ \E out : Ends(r, out)
        \/ Goes(r, "capacity")
        \/ Drop(r, Sid(r), "ending")
        \/ \E state : req' = [req EXCEPT ![r].pc = "handed", ![r].via = Sid(r), ![r].handed = state]
    BY <1>5 DEF Route
  <2>3. ASSUME NEW state,
               req' = [req EXCEPT ![r].pc = "handed", ![r].via = Sid(r), ![r].handed = state]
        PROVE  Moved(r, "handed")
    BY <2>3 DEF Shaped, Fields, Moved, OthersStay, SameCall
  <2> QED BY <2>1, <2>2, <2>3, <1>1, GoesMoves, DropMoves DEF At, InMap, Landing
<1>6. CASE Closed(r)
  BY <1>6, ClosedMoves DEF InMap, Landing
<1>7. CASE MakeRoom(r)
  BY <1>7, DropMoves DEF MakeRoom, At, InMap
<1>8. CASE StartBuild(r)
  BY <1>8, GoesMoves DEF StartBuild, At, InMap
<1>9. CASE Initialized(r)
  <2>1. \E out : Ends(r, out)
    BY <1>9 DEF Initialized
  <2> QED BY <2>1, <1>9, <1>1 DEF Initialized, At, InMap
<1> QED BY <1>2, <1>3, <1>4, <1>5, <1>6, <1>7, <1>8, <1>9 DEF LegacyNext

\* Every step of the session handler keeps the map right: a session leaves it
\* before its transport is asked to close, and one is added only after the
\* eviction has made room.
LEMMA LegacyKeepsSessions ==
  ASSUME Shaped, SessionsInv, NEW r \in Requests, LegacyNext(r)
  PROVE  SessionsInv'
<1>1. ASSUME NEW pc, Moved(r, pc), SameHanded(r), req[r].pc \notin {"done", "build"}, pc # "build",
             UNCHANGED sessionVars
      PROVE  SessionsInv'
  BY <1>1, MoveIsQuiet, MapUnchanged DEF Moved
<1>2. ASSUME NEW pc, Moved(r, pc), SameHanded(r), req[r].pc \notin {"done", "build"}, pc # "build",
             crowd' = crowd,
             \E s, state : /\ sessions' = RemoveFirst(sessions, s)
                           /\ transport' = [transport EXCEPT ![s] = state]
      PROVE  SessionsInv'
  BY <1>2, MoveIsQuiet, MapShrinks DEF Moved
<1>3. ASSUME NEW s, NEW pc, Drop(r, s, pc), pc # "build", req[r].pc \notin {"done", "build"},
             crowd' = crowd
      PROVE  SessionsInv'
  BY <1>3, <1>2, DropMoves
<1>4. CASE StartEviction(r)
  <2>1. PICK list : req' = [req EXCEPT ![r].pc = "evict", ![r].todo = list]
    BY <1>4 DEF StartEviction
  <2>2. Moved(r, "evict") /\ SameHanded(r)
    BY <2>1 DEF Shaped, Fields, Moved, SameHanded, OthersStay, SameCall
  <2> QED BY <2>2, <1>4, <1>1 DEF StartEviction, At
<1>5. CASE RefuseLegacy(r)
  <2>1. req[r].pc \in Early /\ Lands(r, Landing) /\ UNCHANGED sessionVars
    BY <1>5, PipelineSteps
  <2> QED BY <2>1, <1>1 DEF Lands, Landing, Early
<1>6. CASE EvictNext(r)
  <2>1. UNCHANGED idle
    BY <1>6 DEF EvictNext
  <2> QED BY <2>1, <1>6, <1>1, <1>2, EvictNextMoves DEF sessionVars
<1>7. CASE Closed(r)
  BY <1>7, <1>2, ClosedMoves
<1>8. CASE MakeRoom(r)
  BY <1>8, <1>3 DEF MakeRoom, At
<1>9. CASE Route(r)
  <2>1. At(r, "evict")
    BY <1>9 DEF Route
  <2>2. \/ \E out : Ends(r, out) /\ UNCHANGED sessionVars
        \/ Goes(r, "capacity") /\ UNCHANGED sessionVars
        \/ Drop(r, Sid(r), "ending") /\ UNCHANGED crowd
        \/ /\ sessions' = Append(RemoveFirst(sessions, Sid(r)), Sid(r))
           /\ req' = [req EXCEPT ![r].pc = "handed", ![r].via = Sid(r),
                                 ![r].handed = transport[Sid(r)]]
           /\ UNCHANGED <<transport, crowd>>
           /\ RouteRefusal(r) = "none" /\ Sid(r) # ""
    BY <1>9 DEF Route
  <2>3. CASE \E out : Ends(r, out) /\ UNCHANGED sessionVars
    BY <2>1, <2>3, <1>1, EndsMoves DEF At
  <2>4. CASE Goes(r, "capacity") /\ UNCHANGED sessionVars
    BY <2>1, <2>4, <1>1, GoesMoves DEF At
  <2>5. CASE Drop(r, Sid(r), "ending") /\ UNCHANGED crowd
    BY <2>1, <2>5, <1>3 DEF At
  <2>6. CASE /\ sessions' = Append(RemoveFirst(sessions, Sid(r)), Sid(r))
             /\ req' = [req EXCEPT ![r].pc = "handed", ![r].via = Sid(r),
                                   ![r].handed = transport[Sid(r)]]
             /\ UNCHANGED <<transport, crowd>>
             /\ RouteRefusal(r) = "none" /\ Sid(r) # ""
    <3> DEFINE rest == RemoveFirst(sessions, Sid(r))
               u == Append(rest, Sid(r))
    <3>1. PICK k \in 1..Len(sessions) : sessions[k] = Sid(r)
      BY <2>6 DEF RouteRefusal, Contains
    <3>2. /\ rest \in Seq(Transports) /\ Distinct(rest) /\ Len(rest) = Len(sessions) - 1
          /\ \A i \in 1..Len(rest) : rest[i] # Sid(r) /\ \E j \in 1..Len(sessions) : rest[i] = sessions[j]
      BY <3>1, RemoveFirstFacts DEF SessionsInv, Contains
    <3>3. Sid(r) \in Transports
      BY <3>1 DEF SessionsInv
    <3> HIDE DEF rest
    <3>4. /\ u \in Seq(Transports) /\ Distinct(u) /\ Len(u) = Len(sessions)
          /\ \A i \in 1..Len(u) : \E j \in 1..Len(sessions) : u[i] = sessions[j]
      <4>1. /\ u \in Seq(Transports) /\ Distinct(u) /\ Len(u) = Len(rest) + 1
            /\ \A i \in 1..Len(u) : u[i] = Sid(r) \/ \E j \in 1..Len(rest) : u[i] = rest[j]
        BY <3>2, <3>3, AppendFacts
      <4> HIDE DEF u
      <4>2. Len(u) = Len(sessions)
        BY <4>1, <3>2 DEF SessionsInv
      <4>3. ASSUME NEW i \in 1..Len(u) PROVE \E j \in 1..Len(sessions) : u[i] = sessions[j]
        <5>1. CASE u[i] = Sid(r)
          BY <5>1, <3>1
        <5>2. CASE \E j \in 1..Len(rest) : u[i] = rest[j]
          BY <5>2, <3>2
        <5> QED BY <4>1, <5>1, <5>2
      <4> QED BY <4>1, <4>2, <4>3
    <3> HIDE DEF u
    <3>5. sessions' = u
      BY <2>6 DEF u, rest
    <3>6. Moved(r, "handed") /\ req'[r].handed = "open"
      BY <2>6, <3>1 DEF SessionsInv, Shaped, Fields, Moved, OthersStay, SameCall
    <3>7. MapQuiet
      BY <2>1, <3>6 DEF MapQuiet, StillDone, At, Builders, Moved, OthersStay, SessionsInv,
                        NeverHandedToClosing
    <3>8. SessionsBounded'
      <4>1. Len(sessions)' = Len(sessions) /\ Builders' = Builders /\ crowd' = crowd
        BY <2>6, <3>4, <3>5, <3>7 DEF MapQuiet
      <4> QED BY <4>1 DEF SessionsInv, SessionsBounded
    <3>9. /\ \A i \in 1..Len(u) : transport'[u[i]] = "open"
          /\ \A i \in 1..Len(u) : u[i] \in Requests => req'[u[i]].pc = "done"
      <4> SUFFICES ASSUME NEW i \in 1..Len(u)
                   PROVE  transport'[u[i]] = "open" /\ (u[i] \in Requests => req'[u[i]].pc = "done")
        OBVIOUS
      <4>1. PICK j \in 1..Len(sessions) : u[i] = sessions[j]
        BY <3>4
      <4>2. transport[u[i]] = "open" /\ (u[i] \in Requests => req[u[i]].pc = "done")
        BY <4>1 DEF SessionsInv, At
      <4> QED BY <4>2, <2>6, <3>7 DEF MapQuiet, StillDone, At
    <3> QED BY <2>6, <3>4, <3>5, <3>7, <3>8, <3>9 DEF SessionsInv, MapQuiet, At
  <2> QED BY <2>2, <2>3, <2>4, <2>5, <2>6
<1>10. IsFiniteSet(Builders) /\ Cardinality(Builders) \in Nat
  BY RequestAssumption, FS_Subset, FS_CardinalityType DEF Builders
<1>11. CASE StartBuild(r)
  <2>1. /\ req[r].pc = "capacity" /\ Len(sessions) < MaxSessions
        /\ Moved(r, "build") /\ SameHanded(r) /\ UNCHANGED <<sessions, transport>>
        /\ crowd' = IF Cardinality(Builders) + 1 > crowd THEN Cardinality(Builders) + 1 ELSE crowd
    BY <1>11, GoesMoves, RequestAssumption DEF StartBuild, At, Full, SessionsInv
  <2>2. Builders' = Builders \cup {r} /\ r \notin Builders
    BY <2>1 DEF Builders, At, Moved, OthersStay
  <2>3. Cardinality(Builders') = Cardinality(Builders) + 1
    BY <2>2, <1>10, FS_AddElement
  <2>4. StillDone /\ NeverHandedToClosing'
    BY <2>1 DEF StillDone, At, Moved, OthersStay, SameHanded, SessionsInv, NeverHandedToClosing
  <2>5. SessionsBounded' /\ crowd' \in Nat /\ Cardinality(Builders)' \in 0..crowd'
    <3> DEFINE n == Cardinality(Builders)
               len == Len(sessions)
               c == crowd
    <3>1. n \in Nat /\ len \in Nat /\ c \in Nat /\ n <= c /\ len < MaxSessions
      BY <1>10, <2>1 DEF SessionsInv
    <3>2. Len(sessions)' = len /\ Cardinality(Builders)' = n + 1
      BY <2>1, <2>3
    <3>3. crowd' = IF n + 1 > c THEN n + 1 ELSE c
      BY <2>1
    <3> HIDE DEF n, len, c
    <3>4. crowd' \in Nat /\ crowd' > 0 /\ n + 1 <= crowd'
      BY <3>1, <3>3
    <3>5. len + (n + 1) <= MaxSessions + crowd' - 1
      <4>1. PICK m \in Nat, d \in Nat : m = MaxSessions /\ d = crowd'
        BY <3>4, RequestAssumption
      <4>2. len < m /\ n + 1 <= d
        BY <3>1, <3>4, <4>1
      <4>3. len + (n + 1) <= m + d - 1
        BY <3>1, <4>2
      <4> QED BY <4>1, <4>3
    <3> QED BY <3>1, <3>2, <3>4, <3>5 DEF SessionsBounded
  <2> QED BY <2>1, <2>4, <2>5 DEF SessionsInv, StillDone, At
<1>12. CASE Initialized(r)
  <2>1. req[r].pc = "build" /\ Moved(r, "done") /\ SameHanded(r) /\ crowd' = crowd
    BY <1>12, EndsMoves DEF Initialized, At
  <2>2. Builders' = Builders \ {r} /\ r \in Builders
    BY <2>1 DEF Builders, At, Moved, OthersStay
  <2>3. Cardinality(Builders') = Cardinality(Builders) - 1 /\ Cardinality(Builders) > 0
    BY <2>2, <1>10, FS_RemoveElement, FS_EmptySet
  <2>4. StillDone /\ NeverHandedToClosing'
    BY <2>1 DEF StillDone, At, Moved, OthersStay, SameHanded, SessionsInv, NeverHandedToClosing
  <2>5. ASSUME Len(sessions)' \in {Len(sessions), Len(sessions) + 1}
        PROVE  SessionsBounded' /\ Cardinality(Builders)' \in 0..crowd'
    <3> DEFINE n == Cardinality(Builders)
               len == Len(sessions)
               bound == MaxSessions + IF crowd = 0 THEN 0 ELSE crowd - 1
    <3>1. /\ n \in Nat /\ n > 0 /\ n <= crowd /\ crowd \in Nat /\ len \in Nat
          /\ len + n <= bound
      BY <1>10, <2>3 DEF SessionsInv, SessionsBounded
    <3>2. Cardinality(Builders)' = n - 1 /\ Len(sessions)' \in {len, len + 1}
      BY <2>3, <2>5
    <3>3. bound' = bound /\ bound \in Int
      BY <2>1, <3>1, RequestAssumption
    <3>4. Len(sessions)' + Cardinality(Builders)' <= bound'
      <4> HIDE DEF n, len, bound
      <4> QED BY <3>1, <3>2, <3>3
    <3>5. Cardinality(Builders)' \in 0..crowd'
      <4> HIDE DEF n, len, bound
      <4> QED BY <3>1, <3>2, <2>1
    <3> QED BY <3>4, <3>5 DEF SessionsBounded
  <2>6. CASE UNCHANGED <<sessions, transport>>
    <3>1. SessionsBounded' /\ Cardinality(Builders)' \in 0..crowd'
      BY <2>1, <2>6, <2>5
    <3> QED BY <2>1, <2>4, <2>6, <3>1 DEF SessionsInv, StillDone, At
  <2>7. CASE sessions' = Append(sessions, r) /\ transport' = [transport EXCEPT ![r] = "open"]
    <3> DEFINE u == Append(sessions, r)
    <3>1. \A i \in 1..Len(sessions) : sessions[i] # r
      BY <2>1 DEF SessionsInv, At
    <3>2. /\ u \in Seq(Transports) /\ Distinct(u) /\ Len(u) = Len(sessions) + 1
          /\ \A i \in 1..Len(u) : u[i] = r \/ \E j \in 1..Len(sessions) : u[i] = sessions[j]
      BY <3>1, AppendFacts DEF SessionsInv, Transports
    <3> HIDE DEF u
    <3>3. sessions' = u
      BY <2>7 DEF u
    <3>4. SessionsBounded' /\ Cardinality(Builders)' \in 0..crowd'
      BY <2>1, <2>5, <3>2, <3>3
    <3>5. \A i \in 1..Len(u) : transport'[u[i]] = "open"
      BY <2>7, <3>2 DEF SessionsInv, Transports
    <3>6. \A i \in 1..Len(u) : u[i] \in Requests => req'[u[i]].pc = "done"
      BY <3>2, <2>1, <2>4 DEF SessionsInv, StillDone, Moved, At
    <3> QED BY <2>1, <2>4, <2>7, <3>2, <3>3, <3>4, <3>5, <3>6 DEF SessionsInv, At
  <2> QED BY <2>6, <2>7, <1>12 DEF Initialized
<1> QED BY <1>4, <1>5, <1>6, <1>7, <1>8, <1>9, <1>11, <1>12 DEF LegacyNext

---------------------------------------------------------------------------
(* How far a call has come *)

\* The writes of a tool are what WritesAssumption says.
WritesAsDeclared(k) ==
  k.tool \in DOMAIN ToolTable =>
    /\ k.writes \in Nat
    /\ k.writes > 0 => WriteLike(k)
    /\ ToolTable[k.tool].via # "http" => k.writes <= 1

\* The call goes to the site that was chosen for it; a call that writes has
\* passed its handler's checks there.
Chosen(r) == CallTarget(Id(r), Call(r)) # NoTarget /\ req[r].site = CallTarget(Id(r), Call(r)).site
Allowed(r) == Chosen(r) /\ Call(r).writes > 0 /\ HandlerAllows(req[r].site, Call(r))
InRegistry(r) == Unkeyed(r) \/ r \in flights \cup aborted

Writing == {"check", "send"}
Pending == Running \ {"report", "asking", "answer"}

CallInv(r) ==
  /\ req[r].left \in Nat /\ req[r].sent \in Nat
  /\ req[r].afterKill \in Nat /\ req[r].afterStop \in Nat
  /\ WritesAsDeclared(Call(r))
  /\ req[r].pc \in Running => Entitled(Id(r), Call(r)) /\ InRegistry(r)
  /\ req[r].pc \in Pending => Chosen(r) /\ req[r].left + req[r].sent = Call(r).writes
  /\ req[r].pc \in Writing => req[r].left > 0 /\ Allowed(r)
  /\ At(r, "send") /\ Via(r) = "http" => ~Unkeyed(r) /\ req[r].afterKill = 0
  /\ req[r].sent > 0 =>
       /\ req[r].pc \in Writing \cup {"answer", "done"}
       /\ Allowed(r) /\ req[r].sent <= Call(r).writes
       /\ Unkeyed(r) => Via(r) # "http"
  /\ req[r].afterKill <= 1 /\ req[r].afterKill <= req[r].sent
  /\ Who(r) \notin killed => req[r].afterKill = 0
  /\ req[r].afterStop > 0 => Via(r) = "drush"

\* A call that a denial stopped has its signal aborted.
CallsInv == (\A r \in Requests : CallInv(r)) /\ stopped \subseteq aborted

\* A step that does not write keeps these facts of a request that stays where
\* it is, is answered, or has no call running before and after.
LEMMA CallStays ==
  ASSUME NEW r \in Requests, CallInv(r), SameCall(r), setup' = setup, killed \subseteq killed',
         \/ req'[r].pc = req[r].pc /\ (r \in flights \cup aborted => r \in flights' \cup aborted')
         \/ req'[r].pc = "done"
         \/ req[r].pc \in Early \cup InMap /\ req'[r].pc \notin Running
  PROVE  CallInv(r)'
<1>1. Who(r)' = Who(r) /\ Call(r)' = Call(r) /\ Id(r)' = Id(r)
  BY SameAsk DEF SameCall
<1>2. /\ Unkeyed(r)' <=> Unkeyed(r)
      /\ Via(r)' = Via(r)
  BY <1>1 DEF Unkeyed, Via
<1>3. /\ Chosen(r)' <=> Chosen(r)
      /\ Allowed(r)' <=> Allowed(r)
  BY <1>1 DEF Chosen, Allowed, SameCall
<1>4. Entitled(Id(r), Call(r))' <=> Entitled(Id(r), Call(r))
  BY <1>1
<1>5. WritesAsDeclared(Call(r))' <=> WritesAsDeclared(Call(r))
  BY <1>1
<1> QED
  BY <1>1, <1>2, <1>3, <1>4, <1>5 DEF CallInv, SameCall, At, InRegistry, Running, Pending, Writing, Early, InMap

\* What the steps of a call have in common.
CallStep(r) ==
  /\ Shaped' /\ OthersStay(r) /\ SameHanded(r)
  /\ req[r].pc \in Running \cup {"handed"} /\ req'[r].pc \in Running \cup {"done"}
  /\ UNCHANGED <<setup, sessionVars, world>>

\* The other requests' calls are as they were, if whoever has left the registry
\* has its signal aborted.
LEMMA OthersCallsStay ==
  ASSUME CallsInv, NEW r \in Requests, OthersStay(r), setup' = setup, killed \subseteq killed',
         flights \cup aborted \subseteq flights' \cup aborted' \cup {r},
         CallInv(r)', stopped' \subseteq aborted'
  PROVE  CallsInv'
<1>1. ASSUME NEW q \in Requests \ {r} PROVE CallInv(q)'
  <2>1. CallInv(q) /\ SameCall(q) /\ req'[q].pc = req[q].pc
    BY DEF CallsInv, OthersStay, SameCall
  <2> QED BY <2>1, CallStays
<1> QED BY <1>1 DEF CallsInv

\* A call that ends leaves the registry.
LEMMA EndsCallKeeps ==
  ASSUME Shaped, CallsInv, NEW r \in Requests, NEW out, EndsCall(r, out),
         UNCHANGED <<setup, aborted, stopped, world>>
  PROVE  CallsInv' /\ Moved(r, "done") /\ SameHanded(r)
<1>1. Moved(r, "done") /\ SameHanded(r) /\ flights' = flights \ {r}
  BY EndsMoves DEF EndsCall
<1>2. CallInv(r)'
  BY <1>1, CallStays DEF CallsInv, Moved, world
<1> QED BY <1>1, <1>2, OthersCallsStay DEF CallsInv, Moved, world

\* A call that goes on, from one pending step to the next, keeps what it has.
LEMMA PendingGoesOn ==
  ASSUME NEW r \in Requests, CallInv(r), SameCall(r), NEW pc \in Running, req'[r].pc = pc,
         req[r].pc \in Pending, pc \in Writing => req[r].left > 0 /\ Allowed(r),
         pc = "send" /\ Via(r) = "http" => ~Unkeyed(r) /\ req[r].afterKill = 0,
         pc \notin Writing \cup {"answer"} => req[r].pc \notin Writing,
         UNCHANGED <<setup, flights, aborted, world>>
  PROVE  CallInv(r)'
<1>1. Who(r)' = Who(r) /\ Call(r)' = Call(r) /\ Id(r)' = Id(r)
  BY SameAsk DEF SameCall
<1>2. /\ Unkeyed(r)' <=> Unkeyed(r)
      /\ Via(r)' = Via(r)
  BY <1>1 DEF Unkeyed, Via
<1>3. /\ Chosen(r)' <=> Chosen(r)
      /\ Allowed(r)' <=> Allowed(r)
  BY <1>1 DEF Chosen, Allowed, SameCall
<1>4. /\ Entitled(Id(r), Call(r))' <=> Entitled(Id(r), Call(r))
      /\ WritesAsDeclared(Call(r))' <=> WritesAsDeclared(Call(r))
  BY <1>1
<1>5. InRegistry(r)' <=> InRegistry(r)
  BY <1>2 DEF InRegistry
<1> QED
  BY <1>1, <1>2, <1>3, <1>4, <1>5 DEF CallInv, SameCall, At, Running, Pending, Writing, world

\* So does the report of a diagnostic, which writes nothing.
Reporting == {"report", "asking"}
LEMMA ReportGoesOn ==
  ASSUME NEW r \in Requests, CallInv(r), SameCall(r), req[r].pc \in Reporting,
         req'[r].pc \in {"asking", "answer"}, UNCHANGED <<setup, aborted, world>>,
         r \in flights => r \in flights'
  PROVE  CallInv(r)'
<1>1. Who(r)' = Who(r) /\ Call(r)' = Call(r) /\ Id(r)' = Id(r)
  BY SameAsk DEF SameCall
<1>2. /\ Unkeyed(r)' <=> Unkeyed(r)
      /\ Via(r)' = Via(r)
  BY <1>1 DEF Unkeyed, Via
<1>3. /\ Entitled(Id(r), Call(r))' <=> Entitled(Id(r), Call(r))
      /\ WritesAsDeclared(Call(r))' <=> WritesAsDeclared(Call(r))
  BY <1>1
<1>4. InRegistry(r) => InRegistry(r)'
  BY <1>2 DEF InRegistry
<1> QED
  BY <1>1, <1>2, <1>3, <1>4
  DEF CallInv, SameCall, At, Reporting, Running, Pending, Writing, world

\* A call begins: it has its site, unless it is a diagnostic that needs none, and
\* a place in the registry unless it is the local operator's.
LEMMA BeginCallKeeps ==
  ASSUME Shaped, CallsInv, NEW r \in Requests, BeginCall(r)
  PROVE  CallsInv' /\ CallStep(r)
<1> DEFINE target == CallTarget(Id(r), Call(r))
           lists == Call(r).tool = "drupal_list_sites"
           noSite == /\ lists \/ (Call(r).tool = "drupal_governance_status" /\ Call(r).hint = "")
                     /\ Entitled(Id(r), Call(r))
<1>1. req[r].pc = "handed" /\ UNCHANGED <<setup, sessionVars, aborted, stopped, spent, world, gov>>
  BY DEF BeginCall, At
<1>2. CallInv(r) /\ req[r].sent = 0
  BY <1>1 DEF CallsInv, CallInv, Writing
<1>3. CASE Ends(r, "denied") /\ UNCHANGED flights
  <2>1. Moved(r, "done") /\ SameHanded(r)
    BY <1>3, EndsMoves
  <2>2. CallInv(r)'
    BY <1>1, <1>2, <2>1, CallStays DEF Moved, world
  <2>3. CallsInv'
    BY <1>1, <1>3, <2>1, <2>2, OthersCallsStay DEF Moved, CallsInv, world
  <2> QED BY <1>1, <2>1, <2>3 DEF CallStep, Moved
<1>4. CASE /\ target # NoTarget \/ noSite
           /\ req' = [req EXCEPT ![r].pc = IF ~noSite THEN "govern"
                                           ELSE IF lists THEN "answer" ELSE "report",
                                 ![r].site = IF noSite THEN "" ELSE target.site,
                                 ![r].left = Call(r).writes]
           /\ flights' = IF Unkeyed(r) THEN flights ELSE flights \cup {r}
  <2> DEFINE pc == IF ~noSite THEN "govern" ELSE IF lists THEN "answer" ELSE "report"
             site == IF noSite THEN "" ELSE target.site
             writes == Call(r).writes
  <2>1. req' = [req EXCEPT ![r].pc = pc, ![r].site = site, ![r].left = writes]
    BY <1>4
  <2>2. /\ pc \in {"answer", "report", "govern"}
        /\ pc = "govern" => target # NoTarget /\ site = target.site
    BY <1>4
  <2>3. Entitled(Id(r), Call(r))
    BY <1>4 DEF CallTarget
  <2>4. writes \in Nat
    BY <1>2, <2>3 DEF CallInv, WritesAsDeclared, Entitled, Scoped
  <2> HIDE DEF pc, site, writes
  <2>5. /\ Shaped' /\ OthersStay(r) /\ SameHanded(r)
        /\ req'[r].pc = pc /\ req'[r].site = site /\ req'[r].left = writes
        /\ req'[r].ask = req[r].ask /\ req'[r].sent = req[r].sent
        /\ req'[r].afterKill = req[r].afterKill /\ req'[r].afterStop = req[r].afterStop
    BY <2>1 DEF Shaped, Fields, OthersStay, SameHanded
  <2>6. Who(r)' = Who(r) /\ Call(r)' = Call(r) /\ Id(r)' = Id(r)
    BY <1>1, <2>5, SameAsk
  <2>7. /\ Unkeyed(r)' <=> Unkeyed(r)
        /\ Via(r)' = Via(r)
        /\ Entitled(Id(r), Call(r))' <=> Entitled(Id(r), Call(r))
        /\ WritesAsDeclared(Call(r))' <=> WritesAsDeclared(Call(r))
    BY <2>6 DEF Unkeyed, Via
  <2>8. InRegistry(r)'
    BY <1>1, <1>4, <2>7 DEF InRegistry
  <2>9. pc = "govern" => Chosen(r)' /\ writes = Call(r)'.writes
    BY <2>2, <2>5, <2>6 DEF Chosen, writes
  <2>10. CallInv(r)'
    BY <1>1, <1>2, <2>2, <2>3, <2>4, <2>5, <2>6, <2>7, <2>8, <2>9
    DEF CallInv, At, Running, Pending, Writing, world
  <2>11. CallsInv'
    BY <1>1, <1>4, <2>5, <2>10, OthersCallsStay DEF CallsInv, world
  <2> QED BY <1>1, <2>2, <2>5, <2>11 DEF CallStep, Running
<1> QED BY <1>3, <1>4 DEF BeginCall

\* Governance lets the call on, refuses it, or has it wait for the probe.
LEMMA GovernKeeps ==
  ASSUME Shaped, CallsInv, NEW r \in Requests, Govern(r)
  PROVE  CallsInv' /\ CallStep(r)
<1>1. req[r].pc = "govern" /\ UNCHANGED <<setup, sessionVars, aborted, stopped, spent, world>>
  BY DEF Govern, At
<1>2. \/ \E lag : req' = [req EXCEPT ![r].pc = "passed", ![r].lag = lag] /\ UNCHANGED flights
      \/ EndsCall(r, "ungoverned")
      \/ Goes(r, "waiting") /\ UNCHANGED flights
  BY DEF Govern
<1>3. ASSUME NEW pc \in {"passed", "waiting"}, Shaped', OthersStay(r), SameHanded(r), SameCall(r),
             req'[r].pc = pc, UNCHANGED flights
      PROVE  CallsInv' /\ CallStep(r)
  <2>1. CallInv(r)'
    BY <1>1, <1>3, PendingGoesOn DEF CallsInv, Running, Pending, Writing
  <2>2. CallsInv'
    BY <1>1, <1>3, <2>1, OthersCallsStay DEF CallsInv, world
  <2> QED BY <1>1, <1>3, <2>2 DEF CallStep, Running
<1>4. CASE \E lag : req' = [req EXCEPT ![r].pc = "passed", ![r].lag = lag] /\ UNCHANGED flights
  <2>1. PICK lag : req' = [req EXCEPT ![r].pc = "passed", ![r].lag = lag] /\ UNCHANGED flights
    BY <1>4
  <2>2. Shaped' /\ OthersStay(r) /\ SameHanded(r) /\ SameCall(r) /\ req'[r].pc = "passed"
    BY <2>1 DEF Shaped, Fields, OthersStay, SameHanded, SameCall
  <2> QED BY <1>3, <2>1, <2>2
<1>5. CASE EndsCall(r, "ungoverned")
  BY <1>1, <1>5, EndsCallKeeps DEF CallStep, Moved, Running
<1>6. CASE Goes(r, "waiting") /\ UNCHANGED flights
  BY <1>3, <1>6, GoesMoves DEF Moved
<1> QED BY <1>2, <1>4, <1>5, <1>6

\* The operation gate and the chained-action window let the call on, or end it.
LEMMA AdmitKeeps ==
  ASSUME Shaped, CallsInv, NEW r \in Requests, Admit(r)
  PROVE  CallsInv' /\ CallStep(r)
<1>1. req[r].pc = "passed" /\ UNCHANGED <<setup, sessionVars, aborted, stopped, world>>
  BY DEF Admit, At
<1>2. \/ EndsCall(r, "denied")
      \/ \E pc \in {"live", "handler"} : Goes(r, pc) /\ UNCHANGED flights
  BY DEF Admit
<1>3. CASE EndsCall(r, "denied")
  BY <1>1, <1>3, EndsCallKeeps DEF CallStep, Moved, Running
<1>4. ASSUME NEW pc \in {"live", "handler"}, Goes(r, pc), UNCHANGED flights
      PROVE  CallsInv' /\ CallStep(r)
  <2>1. Moved(r, pc) /\ SameHanded(r)
    BY <1>4, GoesMoves
  <2>2. CallInv(r)'
    BY <1>1, <1>4, <2>1, PendingGoesOn DEF CallsInv, Running, Pending, Writing, Moved
  <2>3. CallsInv'
    BY <1>1, <1>4, <2>1, <2>2, OthersCallsStay DEF CallsInv, Moved, world
  <2> QED BY <1>1, <2>1, <2>3 DEF CallStep, Moved, Running
<1> QED BY <1>2, <1>3, <1>4

\* The handler's own checks let the call write or answer, or end it.
LEMMA HandleKeeps ==
  ASSUME Shaped, CallsInv, NEW r \in Requests, Handle(r)
  PROVE  CallsInv' /\ CallStep(r)
<1> DEFINE pc == IF req[r].left > 0 THEN NextWrite(r)
                 ELSE IF Call(r).tool = "drupal_governance_status" THEN "report" ELSE "answer"
<1>1. req[r].pc = "handler" /\ UNCHANGED <<setup, sessionVars, aborted, stopped, world>>
  BY DEF Handle, At
<1>2. \/ EndsCall(r, "denied")
      \/ HandlerAllows(req[r].site, Call(r)) /\ Goes(r, pc) /\ UNCHANGED flights
  BY DEF Handle
<1>3. CASE EndsCall(r, "denied")
  BY <1>1, <1>3, EndsCallKeeps DEF CallStep, Moved, Running
<1>4. CASE HandlerAllows(req[r].site, Call(r)) /\ Goes(r, pc) /\ UNCHANGED flights
  <2>1. /\ pc \in {"report", "answer", "check", "send"}
        /\ pc \in Writing => req[r].left > 0
        /\ pc = "send" => Via(r) # "http"
    BY DEF NextWrite, Writing
  <2> HIDE DEF pc
  <2>2. Moved(r, pc) /\ SameHanded(r)
    BY <1>4, GoesMoves
  <2>3. CallInv(r)
    BY DEF CallsInv
  <2>4. pc \in Writing => req[r].left > 0 /\ Allowed(r)
    <3>1. /\ req[r].left \in Nat /\ req[r].sent \in Nat /\ Chosen(r)
          /\ req[r].left + req[r].sent = Call(r).writes
      BY <1>1, <2>3 DEF CallInv, Running, Pending
    <3> QED BY <1>4, <2>1, <3>1 DEF Allowed
  <2>5. CallInv(r)'
    BY <1>1, <1>4, <2>1, <2>2, <2>3, <2>4, PendingGoesOn DEF Running, Pending, Writing, Moved
  <2>6. CallsInv'
    BY <1>1, <1>4, <2>2, <2>5, OthersCallsStay DEF CallsInv, Moved, world
  <2> QED BY <1>1, <2>1, <2>2, <2>6 DEF CallStep, Moved, Running
<1> QED BY <1>2, <1>3, <1>4

\* A diagnostic reports at once, or waits for the probe.
LEMMA ReportKeeps ==
  ASSUME Shaped, CallsInv, NEW r \in Requests, Report(r)
  PROVE  CallsInv' /\ CallStep(r)
<1>1. req[r].pc = "report" /\ UNCHANGED <<setup, sessionVars, flights, aborted, stopped, world>>
  BY DEF Report, At, callVars
<1>2. PICK pc \in {"asking", "answer"} : Goes(r, pc)
  BY DEF Report
<1>3. Moved(r, pc) /\ SameHanded(r)
  BY <1>2, GoesMoves
<1>4. CallInv(r)'
  BY <1>1, <1>3, ReportGoesOn DEF CallsInv, Moved, Reporting, world
<1>5. CallsInv'
  BY <1>1, <1>3, <1>4, OthersCallsStay DEF CallsInv, Moved, world
<1> QED BY <1>1, <1>3, <1>5 DEF CallStep, Moved, Running

\* The call answers.
LEMMA AnsweredKeeps ==
  ASSUME Shaped, CallsInv, NEW r \in Requests, Answered(r)
  PROVE  CallsInv' /\ CallStep(r)
<1>1. req[r].pc = "answer" /\ UNCHANGED <<setup, sessionVars, aborted, stopped, world>>
  BY DEF Answered, At
<1>2. \E out : EndsCall(r, out)
  BY DEF Answered
<1> QED BY <1>1, <1>2, EndsCallKeeps DEF CallStep, Moved, Running

\* The whole process has one mode: all requests are the local operator's or none.
LEMMA OneMode ==
  ASSUME NEW r \in Requests, NEW q \in Requests, ~Unkeyed(r)
  PROVE  ~Unkeyed(q)
BY DEF Unkeyed, Id, LocalOperator, Identity

\* A denial aborts every running call that it covers.
LEMMA DenialKeeps ==
  ASSUME Shaped, CallsInv, NEW r \in Requests, req[r].pc \in {"live", "check"}, DenyAndCancel(r),
         UNCHANGED <<setup, sessionVars, world>>
  PROVE  CallsInv' /\ CallStep(r)
<1> DEFINE covered == IF Unkeyed(r) THEN {} ELSE {q \in flights : Covers(Id(r), Id(q))}
           also == {q \in Requests : req[q].pc \in Running /\ ~Unkeyed(r)
                      /\ (Id(q).human = Id(r).human \/ Id(q).tenant = Id(r).tenant)}
<1>1. /\ aborted' = aborted \cup covered /\ flights' = flights \ (covered \cup {r})
      /\ stopped' = stopped \cup also /\ Ends(r, "denied")
  BY DEF DenyAndCancel
<1>2. Moved(r, "done") /\ SameHanded(r)
  BY <1>1, EndsMoves
<1>3. also \subseteq covered \cup aborted
  <2> SUFFICES ASSUME NEW q \in also PROVE q \in covered \cup aborted
    OBVIOUS
  <2>1. /\ q \in Requests /\ req[q].pc \in Running /\ ~Unkeyed(r)
        /\ Id(q).human = Id(r).human \/ Id(q).tenant = Id(r).tenant
    OBVIOUS
  <2>2. q \in flights \cup aborted
    BY <2>1, OneMode DEF CallsInv, CallInv, InRegistry
  <2>3. Entitled(Id(r), Call(r))
    BY DEF CallsInv, CallInv, Running
  <2>4. Id(r).tenant # ""
    BY <2>1, <2>3 DEF Entitled, Frozen, Unkeyed
  <2>5. Covers(Id(r), Id(q))
    BY <2>1, <2>4 DEF Covers
  <2> QED BY <2>1, <2>2, <2>5
<1> HIDE DEF covered, also
<1>4. CallInv(r)'
  BY <1>2, CallStays DEF CallsInv, Moved, world
<1>5. CallsInv'
  <2>1. flights \cup aborted \subseteq flights' \cup aborted' \cup {r} /\ stopped' \subseteq aborted'
    BY <1>1, <1>3 DEF CallsInv
  <2> QED BY <1>2, <1>4, <2>1, OthersCallsStay DEF Moved, world
<1> QED BY <1>2, <1>5 DEF CallStep, Moved, Running

\* The live check lets the call on while its token is not killed, or denies it.
LEMMA LiveCheckKeeps ==
  ASSUME Shaped, CallsInv, NEW r \in Requests, LiveCheck(r)
  PROVE  CallsInv' /\ CallStep(r)
<1> DEFINE pc == IF At(r, "live") THEN "handler" ELSE "send"
<1>1. req[r].pc \in {"live", "check"} /\ UNCHANGED <<setup, sessionVars, world>>
  BY DEF LiveCheck
<1>2. CASE ~Unkeyed(r) /\ Answer(Who(r)) = "active"
  <2>1. Goes(r, pc) /\ UNCHANGED <<flights, aborted, stopped>>
    BY <1>2 DEF LiveCheck
  <2>2. /\ pc \in {"handler", "send"} /\ (pc = "send" => req[r].pc = "check")
        /\ pc = "handler" => req[r].pc = "live"
    BY <1>1 DEF At
  <2> HIDE DEF pc
  <2>3. Moved(r, pc) /\ SameHanded(r)
    BY <2>1, GoesMoves
  <2>4. CallInv(r) /\ Who(r) \notin killed
    BY <1>2 DEF CallsInv, Answer
  <2>5. pc \in Writing => req[r].left > 0 /\ Allowed(r)
    BY <2>2, <2>4 DEF CallInv, Writing
  <2>6. req[r].afterKill = 0
    BY <2>4 DEF CallInv
  <2>7. CallInv(r)'
    BY <1>1, <1>2, <2>1, <2>2, <2>3, <2>4, <2>5, <2>6, PendingGoesOn
    DEF Running, Pending, Writing, Moved
  <2>8. CallsInv'
    BY <1>1, <2>1, <2>3, <2>7, OthersCallsStay DEF CallsInv, Moved, world
  <2> QED BY <1>1, <2>2, <2>3, <2>8 DEF CallStep, Moved, Running
<1>3. CASE ~(~Unkeyed(r) /\ Answer(Who(r)) = "active")
  <2>1. DenyAndCancel(r)
    BY <1>3 DEF LiveCheck
  <2> QED BY <1>1, <2>1, DenialKeeps
<1> QED BY <1>2, <1>3

\* A write goes out.  Over JSON:API it is the one its check let pass, and over
\* the bridge or drush the only one; an aborted call writes only over ssh.
LEMMA SendKeeps ==
  ASSUME Shaped, CallsInv, NEW r \in Requests, Send(r)
  PROVE  CallsInv' /\ CallStep(r) /\ req'[r].lag = req[r].lag
<1>1. req[r].pc = "send" /\ UNCHANGED <<setup, sessionVars, aborted, stopped, world>>
  BY DEF Send, At
<1>2. CASE EndsCall(r, "denied")
  BY <1>1, <1>2, EndsCallKeeps DEF CallStep, Moved, Running
<1>3. ASSUME ~(r \in aborted /\ Via(r) # "drush"), UNCHANGED flights,
             NEW pc \in {IF req[r].left = 1 THEN "answer" ELSE NextWrite(r), "answer"},
             req' = [req EXCEPT ![r].pc = pc, ![r].left = @ - 1, ![r].sent = @ + 1,
                        ![r].afterKill = IF Who(r) \in killed THEN @ + 1 ELSE @,
                        ![r].afterStop = IF r \in stopped THEN @ + 1 ELSE @]
      PROVE  CallsInv' /\ CallStep(r) /\ req'[r].lag = req[r].lag
  <2> DEFINE c == req[r]
             kills == IF Who(r) \in killed THEN c.afterKill + 1 ELSE c.afterKill
             stops == IF r \in stopped THEN c.afterStop + 1 ELSE c.afterStop
  <2>1. CallInv(r)
    BY DEF CallsInv
  <2>2. /\ c.left \in Nat /\ c.sent \in Nat /\ c.afterKill \in Nat /\ c.afterStop \in Nat
        /\ c.left > 0 /\ Allowed(r) /\ c.left + c.sent = Call(r).writes
        /\ Via(r) = "http" => ~Unkeyed(r) /\ c.afterKill = 0
        /\ c.afterKill <= 1 /\ c.afterKill <= c.sent
        /\ Who(r) \notin killed => c.afterKill = 0
        /\ c.afterStop > 0 => Via(r) = "drush"
        /\ Entitled(Id(r), Call(r)) /\ InRegistry(r) /\ WritesAsDeclared(Call(r))
    BY <1>1, <2>1 DEF CallInv, At, Running, Pending, Writing
  <2>3. pc \in {"answer", "check", "send"} /\ (pc \in Writing => c.left # 1 /\ (pc = "send" => Via(r) # "http"))
    BY <1>3 DEF NextWrite, Writing
  <2>4. /\ Shaped' /\ OthersStay(r) /\ SameHanded(r) /\ req'[r].lag = req[r].lag
        /\ req'[r].ask = c.ask /\ req'[r].site = c.site /\ req'[r].pc = pc
        /\ req'[r].left = c.left - 1 /\ req'[r].sent = c.sent + 1
        /\ req'[r].afterKill = kills /\ req'[r].afterStop = stops
    BY <1>3 DEF Shaped, Fields, OthersStay, SameHanded
  <2>5. Via(r) # "http" => c.afterKill = 0
    <3>1. Call(r).tool \in DOMAIN ToolTable
      BY <2>2 DEF Entitled, Scoped
    <3>2. Via(r) # "http" => Call(r).writes <= 1
      BY <2>2, <3>1 DEF WritesAsDeclared, Via
    <3> HIDE DEF c
    <3> QED BY <2>2, <3>2
  <2>6. kills \in Nat /\ kills <= 1 /\ kills <= c.sent + 1 /\ (Who(r) \notin killed => kills = 0)
    BY <2>2, <2>5
  <2>7. stops \in Nat /\ (stops > 0 => Via(r) = "drush")
    BY <1>3, <2>2 DEF CallsInv
  <2>8. Who(r)' = Who(r) /\ Call(r)' = Call(r) /\ Id(r)' = Id(r)
    BY <1>1, <2>4, SameAsk
  <2>9. /\ Unkeyed(r)' <=> Unkeyed(r)
        /\ Via(r)' = Via(r)
        /\ Entitled(Id(r), Call(r))' <=> Entitled(Id(r), Call(r))
        /\ WritesAsDeclared(Call(r))' <=> WritesAsDeclared(Call(r))
    BY <2>8 DEF Unkeyed, Via
  <2>10. /\ InRegistry(r)' <=> InRegistry(r)
         /\ Chosen(r)' <=> Chosen(r)
         /\ Allowed(r)' <=> Allowed(r)
    BY <1>1, <1>3, <2>4, <2>8, <2>9 DEF InRegistry, Chosen, Allowed
  <2>11. Chosen(r)
    BY <2>2 DEF Allowed
  <2> HIDE DEF c, kills, stops
  <2>12. /\ c.left - 1 \in Nat /\ c.sent + 1 \in Nat
         /\ (c.left - 1) + (c.sent + 1) = Call(r).writes
         /\ c.sent + 1 <= Call(r).writes
         /\ pc \in Writing => c.left - 1 > 0
    BY <2>2, <2>3
  <2>13. CallInv(r)'
    BY <1>1, <2>2, <2>3, <2>4, <2>6, <2>7, <2>8, <2>9, <2>10, <2>11, <2>12
    DEF CallInv, At, Running, Pending, Writing, world
  <2>14. CallsInv'
    BY <1>1, <1>3, <2>4, <2>13, OthersCallsStay DEF CallsInv, world
  <2> QED BY <1>1, <2>3, <2>4, <2>14 DEF CallStep, Running
<1>4. EndsCall(r, "denied") => req'[r].lag = req[r].lag
  BY EndsMoves DEF EndsCall, Moved
<1> QED BY <1>2, <1>3, <1>4 DEF Send

---------------------------------------------------------------------------
(* The shared probe, and what goes on around the requests *)

\* When the probe ends, those who waited for it go on, end or are answered.
LEMMA ProbeEndsMoves ==
  ASSUME Shaped, ProbeEnds
  PROVE  /\ Shaped'
         /\ \A q \in Requests :
              /\ SameCall(q) /\ SameHanded(q)
              /\ \/ req'[q] = req[q]
                 \/ /\ At(q, "waiting") /\ Verdict.ok
                    /\ req'[q].pc = "passed" /\ req'[q].lag = Lag
                 \/ /\ req[q].pc \in {"waiting", "listing"}
                    /\ req'[q].pc = "done" /\ req'[q].lag = req[q].lag
                 \/ /\ At(q, "asking")
                    /\ req'[q].pc = "answer" /\ req'[q].lag = req[q].lag
         /\ \A q \in flights : q \in flights' \/ (q \in Requests /\ req'[q].pc = "done")
         /\ UNCHANGED <<setup, sessionVars, aborted, stopped, spent, world>>
<1> DEFINE ok == Verdict.ok
           calls == {r \in Requests : At(r, "waiting")}
           lists == {r \in Requests : At(r, "listing")}
           asks == {r \in Requests : At(r, "asking")}
           next(r) == IF r \in calls
                      THEN IF ok THEN [req[r] EXCEPT !.pc = "passed", !.lag = Lag]
                           ELSE [req[r] EXCEPT !.pc = "done", !.out = "ungoverned"]
                      ELSE IF r \in lists
                      THEN [req[r] EXCEPT !.pc = "done",
                                          !.out = IF ok THEN "tools" ELSE "diagnostics"]
                      ELSE IF r \in asks THEN [req[r] EXCEPT !.pc = "answer"]
                      ELSE req[r]
<1>1. calls \cap lists = {} /\ calls \cap asks = {} /\ lists \cap asks = {}
  BY DEF At
<1>2. req' = [r \in Requests |->
         CASE r \in calls /\ ok -> [req[r] EXCEPT !.pc = "passed", !.lag = Lag]
           [] r \in calls /\ ~ok -> [req[r] EXCEPT !.pc = "done", !.out = "ungoverned"]
           [] r \in lists -> [req[r] EXCEPT !.pc = "done",
                                            !.out = IF ok THEN "tools" ELSE "diagnostics"]
           [] At(r, "asking") -> [req[r] EXCEPT !.pc = "answer"]
           [] OTHER -> req[r]]
  BY DEF ProbeEnds
<1>3. DOMAIN req' = Requests /\ \A q \in Requests : req'[q] = next(q)
  <2>1. \A q \in Requests : At(q, "asking") <=> q \in asks
    OBVIOUS
  <2> HIDE DEF ok, calls, lists, asks
  <2> QED BY <1>1, <1>2, <2>1
<1>4. ASSUME NEW q \in Requests
      PROVE  /\ DOMAIN req'[q] = Fields /\ SameCall(q) /\ SameHanded(q)
             /\ \/ req'[q] = req[q]
                \/ q \in calls /\ ok /\ req'[q].pc = "passed" /\ req'[q].lag = Lag
                \/ q \in calls \cup lists /\ req'[q].pc = "done" /\ req'[q].lag = req[q].lag
                \/ q \in asks /\ req'[q].pc = "answer" /\ req'[q].lag = req[q].lag
             /\ q \in calls /\ ~ok => req'[q].pc = "done"
  <2>1. req'[q] = next(q) /\ DOMAIN req[q] = Fields
    BY <1>3 DEF Shaped
  <2> HIDE DEF ok, calls, lists, asks
  <2> QED BY <1>1, <2>1 DEF Fields, SameCall, SameHanded
<1>5. flights' = IF ok THEN flights ELSE flights \ calls
  BY DEF ProbeEnds
<1>6. UNCHANGED <<setup, sessionVars, aborted, stopped, spent, world>>
  BY DEF ProbeEnds
<1> QED BY <1>3, <1>4, <1>5, <1>6 DEF Shaped, At

\* The probe's end keeps the map and the calls right.
LEMMA ProbeEndsKeeps ==
  ASSUME Shaped, SessionsInv, CallsInv, ProbeEnds
  PROVE  Shaped' /\ SessionsInv' /\ CallsInv'
<1>1. MapQuiet
  <2>1. StillDone /\ Builders' = Builders
    BY ProbeEndsMoves DEF StillDone, At, Builders
  <2>2. NeverHandedToClosing'
    BY ProbeEndsMoves DEF SessionsInv, NeverHandedToClosing, SameHanded
  <2> QED BY <2>1, <2>2 DEF MapQuiet
<1>2. SessionsInv'
  BY <1>1, ProbeEndsMoves, MapUnchanged
<1>3. ASSUME NEW q \in Requests PROVE CallInv(q)'
  <2>1. CallInv(q) /\ SameCall(q) /\ UNCHANGED <<setup, aborted, world>>
    BY ProbeEndsMoves DEF CallsInv
  <2>2. CASE req'[q] = req[q] /\ req[q].pc # "done"
    <3>1. q \in flights \cup aborted => q \in flights' \cup aborted'
      BY <2>1, <2>2, ProbeEndsMoves
    <3> QED BY <2>1, <2>2, <3>1, CallStays DEF world
  <2>3. CASE req'[q].pc = "done"
    BY <2>1, <2>3, CallStays DEF world
  <2>4. CASE At(q, "waiting") /\ Verdict.ok /\ req'[q].pc = "passed"
    <3>1. UNCHANGED flights
      BY <2>4 DEF ProbeEnds
    <3> QED BY <2>1, <2>4, <3>1, PendingGoesOn DEF At, Running, Pending, Writing
  <2>5. CASE At(q, "asking") /\ req'[q].pc = "answer"
    <3>1. q \in flights => q \in flights'
      BY <2>5, ProbeEndsMoves
    <3> QED BY <2>1, <2>5, <3>1, ReportGoesOn DEF At, Reporting
  <2> QED BY <2>2, <2>3, <2>4, <2>5, ProbeEndsMoves
<1>4. stopped' \subseteq aborted'
  BY ProbeEndsMoves DEF CallsInv
<1> QED BY <1>2, <1>3, <1>4, ProbeEndsMoves DEF CallsInv

\* A session that grows idle, a kill, an outage and the clock leave them alone:
\* at most more tokens are killed.
LEMMA SurroundingsKeep ==
  ASSUME Shaped, SessionsInv, CallsInv, UNCHANGED <<setup, req, sessions, transport, crowd, callVars>>,
         killed \subseteq killed'
  PROVE  Shaped' /\ SessionsInv' /\ CallsInv'
<1>1. Shaped'
  BY DEF Shaped
<1>2. SessionsInv'
  BY DEF SessionsInv, NeverHandedToClosing, SessionsBounded, Builders, At
<1>3. ASSUME NEW q \in Requests PROVE CallInv(q)'
  BY CallStays DEF CallsInv, SameCall, callVars
<1>4. stopped' \subseteq aborted'
  BY DEF CallsInv, callVars
<1> QED BY <1>1, <1>2, <1>3, <1>4 DEF CallsInv

\* Every step keeps the map and the calls right.
LEMMA NextKeeps ==
  ASSUME Shaped, SessionsInv, CallsInv, [Next]_vars
  PROVE  Shaped' /\ SessionsInv' /\ CallsInv'
<1> DEFINE Goal == Shaped' /\ SessionsInv' /\ CallsInv'
<1>1. ASSUME NEW r \in Requests, CallsInv', CallStep(r) PROVE Goal
  <2>1. MapQuiet /\ UNCHANGED sessionVars /\ Shaped'
    BY <1>1, MoveIsQuiet DEF CallStep, Running
  <2> QED BY <1>1, <2>1, MapUnchanged
<1>2. ASSUME NEW r \in Requests, NEW pc \in Landing \cup InMap, Moved(r, pc),
             req[r].pc \in Early \cup InMap, UNCHANGED <<setup, callVars, world>>
      PROVE  CallsInv'
  <2>1. CallInv(r)'
    BY <1>2, CallStays DEF CallsInv, Moved, Landing, InMap, Running, world
  <2> QED BY <1>2, <2>1, OthersCallsStay DEF CallsInv, Moved, callVars, world
<1>3. ASSUME NEW r \in Requests,
             \/ Arrive(r) \/ Authenticated(r) \/ ReadBody(r) \/ OpenStream(r)
             \/ ListTools(r) \/ ListingGivesUp(r) \/ RefuseLegacy(r)
      PROVE  Goal
  <2>1. /\ req[r].pc \in Early /\ SameHanded(r)
        /\ UNCHANGED <<setup, sessionVars, callVars, world>>
    BY <1>3, PipelineSteps DEF Lands
  <2>2. PICK pc \in Landing : Moved(r, pc)
    BY <1>3, PipelineSteps DEF Lands
  <2>3. CallsInv' /\ Shaped'
    BY <1>2, <2>1, <2>2 DEF Moved
  <2>4. MapQuiet
    BY <2>1, <2>2, MoveIsQuiet DEF Moved, Early, Landing
  <2> QED BY <2>1, <2>3, <2>4, MapUnchanged
<1>4. ASSUME NEW r \in Requests, LegacyNext(r) PROVE Goal
  <2>1. PICK pc \in Landing \cup InMap : Moved(r, pc)
    BY <1>4, LegacyLands
  <2>2. CallsInv' /\ Shaped'
    BY <1>2, <1>4, <2>1, LegacyLands DEF Moved
  <2> QED BY <1>4, <2>2, LegacyKeepsSessions
<1>5. ASSUME NEW r \in Requests, CallNext(r) PROVE Goal
  <2>1. CASE ListTools(r) \/ ListingGivesUp(r)
    BY <1>3, <2>1
  <2>2. CASE BeginCall(r)
    BY <1>1, <2>2, BeginCallKeeps
  <2>3. CASE Govern(r)
    BY <1>1, <2>3, GovernKeeps
  <2>4. CASE Admit(r)
    BY <1>1, <2>4, AdmitKeeps
  <2>5. CASE LiveCheck(r)
    BY <1>1, <2>5, LiveCheckKeeps
  <2>6. CASE Handle(r)
    BY <1>1, <2>6, HandleKeeps
  <2>7. CASE Send(r)
    BY <1>1, <2>7, SendKeeps
  <2>8. CASE Answered(r)
    BY <1>1, <2>8, AnsweredKeeps
  <2>9. CASE Report(r)
    BY <1>1, <2>9, ReportKeeps
  <2> QED BY <1>5, <2>1, <2>2, <2>3, <2>4, <2>5, <2>6, <2>7, <2>8, <2>9 DEF CallNext
<1>6. ASSUME UNCHANGED <<setup, req, sessions, transport, crowd, callVars>>, killed \subseteq killed'
      PROVE  Goal
  BY <1>6, SurroundingsKeep
<1>7. CASE \E r \in Requests : Kill(Who(r))
  BY <1>6, <1>7 DEF Kill, sessionVars
<1>8. CASE IssuerTurns
  BY <1>6, <1>8 DEF IssuerTurns, sessionVars
<1>9. CASE \E s \in Transports : GrowsIdle(s)
  BY <1>6, <1>9 DEF GrowsIdle, world
<1>10. CASE SourceTurns \/ Tick \/ SourceAnswers
  BY <1>6, <1>10 DEF SourceTurns, Tick, SourceAnswers, sessionVars, world
<1>11. CASE ProbeEnds
  BY <1>11, ProbeEndsKeeps
<1>12. CASE UNCHANGED vars
  BY <1>6, <1>12 DEF vars, sessionVars, world
<1>13. CASE Environment
  BY <1>7, <1>8, <1>9, <1>10, <1>11, <1>13 DEF Environment
<1>14. CASE Next
  BY <1>3, <1>4, <1>5, <1>13, <1>14 DEF Next
<1> QED BY <1>12, <1>14

---------------------------------------------------------------------------
(* How old the evidence about the source may be *)

Answers == {"none", "pending", "ready", "refused", "failed"}
GovType ==
  [now : Nat, ready : BOOLEAN, readyAt : Nat, turns : Nat,
   cached : [ok : BOOLEAN, at : Nat, known : BOOLEAN], probe : [at : Nat, answer : Answers]]

\* A probe that says ready was answered after it began, and ends in time; the
\* verdict that is kept is as old as its probe.
GovInv ==
  /\ gov \in GovType
  /\ gov.readyAt <= gov.now /\ (gov.ready => gov.readyAt = gov.now)
  /\ gov.probe.at <= gov.now
  /\ gov.probe.answer # "none" => gov.now <= gov.probe.at + ProbeTime
  /\ gov.probe.answer = "ready" => gov.probe.at <= gov.readyAt
  /\ gov.cached.ok => gov.cached.at <= gov.readyAt
  /\ \A r \in Requests : req[r].lag \in 0..OkTtl

\* A caller that joins a probe, or starts one now, makes nothing older.
LEMMA JoinOrProbeKeeps ==
  ASSUME GovInv, JoinOrProbe, \A r \in Requests : req'[r].lag = req[r].lag
  PROVE  GovInv'
<1>1. CASE gov' = gov
  BY <1>1 DEF GovInv
<1>2. CASE gov' = [gov EXCEPT !.probe = [at |-> gov.now, answer |-> "pending"]]
  <2> DEFINE g == [gov EXCEPT !.probe = [at |-> gov.now, answer |-> "pending"]]
  <2>1. gov \in GovType
    BY DEF GovInv
  <2>2. gov.now \in Nat
    BY ONLY <2>1 DEF GovType
  <2>3. [at |-> gov.now, answer |-> "pending"] \in [at : Nat, answer : Answers]
    BY ONLY <2>2 DEF Answers
  <2>4. /\ g \in GovType /\ g.now = gov.now /\ g.ready = gov.ready /\ g.readyAt = gov.readyAt
        /\ g.cached = gov.cached /\ g.probe = [at |-> gov.now, answer |-> "pending"]
    BY ONLY <2>1, <2>3 DEF GovType
  <2> HIDE DEF g
  <2>5. gov' = g
    BY <1>2 DEF g
  <2>6. gov.now <= gov.now + ProbeTime /\ gov.now <= gov.now
    BY <2>2, RequestAssumption
  <2> QED BY <2>4, <2>5, <2>6 DEF GovInv
<1> QED BY <1>1, <1>2 DEF JoinOrProbe

\* The verdict that a call or a listing may use is young enough.
LEMMA FreshIsYoung ==
  ASSUME GovInv
  PROVE  /\ Lag \in Nat
         /\ Fresh /\ gov.cached.ok => Lag <= OkTtl
         /\ gov.probe.answer = "ready" => Lag <= OkTtl
<1>1. /\ gov.now \in Nat /\ gov.readyAt \in Nat /\ gov.ready \in BOOLEAN
      /\ gov.cached.at \in Nat /\ gov.cached.ok \in BOOLEAN /\ gov.probe.at \in Nat
  BY DEF GovInv, GovType
<1>2. OkTtl \in Nat /\ ProbeTime \in Nat /\ ProbeTime <= OkTtl
  BY RequestAssumption
<1>3. gov.readyAt <= gov.now
  BY DEF GovInv
<1>4. Lag \in Nat /\ Lag <= gov.now - gov.readyAt
  BY <1>1, <1>3 DEF Lag
<1>5. ASSUME Fresh, gov.cached.ok PROVE Lag <= OkTtl
  <2>1. gov.cached.at <= gov.readyAt
    BY <1>5 DEF GovInv
  <2>2. gov.now - gov.cached.at <= OkTtl
    BY <1>5 DEF Fresh
  <2> QED BY <1>1, <1>2, <1>4, <2>1, <2>2
<1>6. ASSUME gov.probe.answer = "ready" PROVE Lag <= OkTtl
  <2>1. gov.probe.at <= gov.readyAt /\ gov.now <= gov.probe.at + ProbeTime
    BY <1>6 DEF GovInv
  <2> QED BY <1>1, <1>2, <1>4, <2>1
<1> QED BY <1>4, <1>5, <1>6

\* The source and the clock: being ready is noted at every change and tick, and
\* the clock waits for a probe that is due.
LEMMA SourceKeeps ==
  ASSUME GovInv, SourceTurns \/ Tick \/ SourceAnswers
  PROVE  GovInv'
<1>1. gov \in GovType /\ gov.now \in Nat /\ gov.ready \in BOOLEAN /\ gov.turns \in Nat
  BY DEF GovInv, GovType
<1>2. req' = req
  BY DEF SourceTurns, Tick, SourceAnswers
<1>3. CASE SourceTurns
  <2> DEFINE b == ~gov.ready
             n == gov.turns + 1
             g == [gov EXCEPT !.ready = b, !.readyAt = gov.now, !.turns = n]
  <2>1. b \in BOOLEAN /\ n \in Nat
    BY <1>1
  <2> HIDE DEF b, n
  <2>2. /\ g \in GovType /\ g.now = gov.now /\ g.readyAt = gov.now
        /\ g.cached = gov.cached /\ g.probe = gov.probe
    BY ONLY <1>1, <2>1 DEF GovType
  <2> HIDE DEF g
  <2>3. gov' = g
    BY <1>3 DEF SourceTurns, g, b, n
  <2>4. /\ gov.probe.answer = "ready" => gov.probe.at <= gov.now
        /\ gov.cached.ok => gov.cached.at <= gov.now
    BY <1>1 DEF GovInv, GovType
  <2> QED BY <1>1, <1>2, <2>2, <2>3, <2>4 DEF GovInv
<1>4. CASE Tick
  <2> DEFINE at == IF gov.ready THEN gov.now + 1 ELSE gov.readyAt
             n == gov.now + 1
             g == [gov EXCEPT !.now = n, !.readyAt = at]
  <2>1. at \in Nat /\ gov.readyAt <= at /\ at <= gov.now + 1 /\ (gov.ready => at = gov.now + 1)
    BY <1>1 DEF GovInv, GovType
  <2>2. n \in Nat /\ n = gov.now + 1
    BY <1>1
  <2> HIDE DEF at, n
  <2>3. /\ g \in GovType /\ g.now = n /\ g.readyAt = at /\ g.ready = gov.ready
        /\ g.cached = gov.cached /\ g.probe = gov.probe
    BY ONLY <1>1, <2>1, <2>2 DEF GovType
  <2> HIDE DEF g
  <2>4. gov' = g
    BY <1>4 DEF Tick, g, at, n
  <2>5. gov.probe.answer # "none" => gov.now + 1 <= gov.probe.at + ProbeTime
    <3>1. ASSUME gov.probe.answer # "none" PROVE gov.now < gov.probe.at + ProbeTime
      BY <1>4, <3>1 DEF Tick, NoProbe
    <3> QED BY <1>1, <3>1, RequestAssumption DEF GovInv, GovType
  <2>6. /\ gov.probe.answer = "ready" => gov.probe.at <= at
        /\ gov.cached.ok => gov.cached.at <= at
    BY <1>1, <2>1 DEF GovInv, GovType
  <2>7. gov.probe.at <= gov.now + 1
    BY <1>1 DEF GovInv, GovType
  <2> QED BY <1>1, <1>2, <2>2, <2>1, <2>3, <2>4, <2>5, <2>6, <2>7 DEF GovInv
<1>5. CASE SourceAnswers
  <2>1. PICK a \in {"ready", "refused", "failed"} :
          /\ gov' = [gov EXCEPT !.probe.answer = a]
          /\ a = "ready" => gov.ready
    BY <1>5 DEF SourceAnswers
  <2> DEFINE p == [gov.probe EXCEPT !.answer = a]
             g == [gov EXCEPT !.probe = p]
  <2>2. p \in [at : Nat, answer : Answers] /\ p.at = gov.probe.at /\ p.answer = a
    BY <1>1 DEF GovType, Answers
  <2> HIDE DEF p
  <2>3. /\ g \in GovType /\ g.now = gov.now /\ g.readyAt = gov.readyAt /\ g.ready = gov.ready
        /\ g.cached = gov.cached /\ g.probe = p
    BY ONLY <1>1, <2>2 DEF GovType
  <2> HIDE DEF g
  <2>4. gov' = g
    BY <2>1 DEF g, p
  <2>5. gov.now <= gov.probe.at + ProbeTime /\ gov.probe.at \in Nat
    BY <1>5 DEF SourceAnswers, GovInv, GovType
  <2>6. a = "ready" => gov.readyAt = gov.now
    BY <2>1 DEF GovInv
  <2>7. gov.probe.at <= gov.now /\ (a = "ready" => gov.probe.at <= gov.readyAt)
    BY <2>6 DEF GovInv
  <2> QED BY <1>2, <2>2, <2>3, <2>4, <2>5, <2>7 DEF GovInv
<1> QED BY <1>3, <1>4, <1>5

\* No step but the passing of the gate and the end of the probe touches the age
\* that a call has noted.
LagsStay == \A q \in Requests : req'[q].lag = req[q].lag

\* A request that only moves keeps the age it noted.
LEMMA MovedKeepsLags ==
  ASSUME NEW r \in Requests, NEW pc, Moved(r, pc)
  PROVE  LagsStay
BY DEF Moved, OthersStay, LagsStay

\* Only Govern notes the age of a verdict: the other steps of a call note none
\* and leave the cache alone.
LEMMA CallsKeepLags ==
  ASSUME Shaped, CallsInv, NEW r \in Requests,
         BeginCall(r) \/ Admit(r) \/ LiveCheck(r) \/ Handle(r) \/ Send(r) \/ Answered(r)
  PROVE  LagsStay /\ gov' = gov
<1>1. ASSUME \/ \E out : Ends(r, out)
             \/ \E pc : Goes(r, pc)
      PROVE  LagsStay
  BY <1>1, EndsMoves, GoesMoves, MovedKeepsLags
<1>2. CASE BeginCall(r)
  <2> DEFINE lists == Call(r).tool = "drupal_list_sites"
             noSite == /\ lists \/ (Call(r).tool = "drupal_governance_status" /\ Call(r).hint = "")
                       /\ Entitled(Id(r), Call(r))
             pc == IF ~noSite THEN "govern" ELSE IF lists THEN "answer" ELSE "report"
             site == IF noSite THEN "" ELSE CallTarget(Id(r), Call(r)).site
             left == Call(r).writes
  <2>1. \/ Ends(r, "denied")
        \/ req' = [req EXCEPT ![r].pc = pc, ![r].site = site, ![r].left = left]
    BY <1>2 DEF BeginCall
  <2> HIDE DEF pc, site, left
  <2>2. ASSUME req' = [req EXCEPT ![r].pc = pc, ![r].site = site, ![r].left = left]
        PROVE  LagsStay
    BY <2>2 DEF Shaped, Fields, LagsStay
  <2>3. gov' = gov
    BY <1>2 DEF BeginCall
  <2> QED BY <1>1, <2>1, <2>2, <2>3
<1>3. CASE Admit(r)
  <2>1. \/ \E out : Ends(r, out)
        \/ \E pc : Goes(r, pc)
    BY <1>3 DEF Admit, EndsCall
  <2> QED BY <1>1, <1>3, <2>1 DEF Admit
<1>4. CASE LiveCheck(r)
  <2>1. \/ \E out : Ends(r, out)
        \/ \E pc : Goes(r, pc)
    BY <1>4 DEF LiveCheck, DenyAndCancel
  <2> QED BY <1>1, <1>4, <2>1 DEF LiveCheck
<1>5. CASE Handle(r)
  <2>1. \/ \E out : Ends(r, out)
        \/ \E pc : Goes(r, pc)
    BY <1>5 DEF Handle, EndsCall
  <2> QED BY <1>1, <1>5, <2>1 DEF Handle
<1>6. CASE Send(r)
  <2>1. req'[r].lag = req[r].lag /\ OthersStay(r)
    BY <1>6, SendKeeps DEF CallStep
  <2> QED BY <1>6, <2>1 DEF OthersStay, LagsStay, Send
<1>7. CASE Answered(r)
  <2>1. \E out : Ends(r, out)
    BY <1>7 DEF Answered, EndsCall
  <2> QED BY <1>1, <1>7, <2>1 DEF Answered
<1> QED BY <1>2, <1>3, <1>4, <1>5, <1>6, <1>7

\* A call that passes the gate notes an age within the passing verdict's life.
LEMMA GovernKeepsAges ==
  ASSUME Shaped, GovInv, NEW r \in Requests, Govern(r)
  PROVE  GovInv'
<1> DEFINE gated == Call(r).tool \notin Diagnostic /\ Governed(req[r].site)
           passes == ~gated \/ (Fresh /\ gov.cached.ok)
           lag == IF gated THEN Lag ELSE 0
<1>1. \/ /\ passes /\ UNCHANGED gov
         /\ req' = [req EXCEPT ![r].pc = "passed", ![r].lag = lag]
      \/ (\E out : Ends(r, out)) /\ UNCHANGED gov
      \/ Goes(r, "waiting") /\ JoinOrProbe
  BY DEF Govern, EndsCall
<1>2. passes => lag \in 0..OkTtl
  BY FreshIsYoung, RequestAssumption
<1> HIDE DEF passes, lag
<1>3. CASE /\ passes /\ UNCHANGED gov
           /\ req' = [req EXCEPT ![r].pc = "passed", ![r].lag = lag]
  <2>1. \A q \in Requests : req'[q].lag \in 0..OkTtl
    BY <1>2, <1>3 DEF GovInv, Shaped, Fields
  <2> QED BY <1>3, <2>1 DEF GovInv
<1>4. CASE (\E out : Ends(r, out)) /\ UNCHANGED gov
  BY <1>4, EndsMoves, MovedKeepsLags DEF LagsStay, GovInv
<1>5. CASE Goes(r, "waiting") /\ JoinOrProbe
  BY <1>5, GoesMoves, MovedKeepsLags, JoinOrProbeKeeps DEF LagsStay
<1> QED BY <1>1, <1>3, <1>4, <1>5

\* So does one that waited for the probe; its verdict is as old as the probe.
LEMMA ProbeEndsKeepsAges ==
  ASSUME Shaped, GovInv, ProbeEnds
  PROVE  GovInv'
<1>1. /\ gov \in GovType /\ gov.probe.at \in Nat /\ gov.probe.answer \in Answers
      /\ gov.now \in Nat
  BY DEF GovInv, GovType
<1> DEFINE ok == gov.probe.answer = "ready"
           verdict == [ok |-> ok, at |-> gov.probe.at, known |-> TRUE]
           none == [at |-> 0, answer |-> "none"]
           g == [gov EXCEPT !.cached = verdict, !.probe = none]
<1>2. ok \in BOOLEAN /\ verdict \in [ok : BOOLEAN, at : Nat, known : BOOLEAN]
      /\ verdict.at = gov.probe.at /\ (verdict.ok => gov.probe.answer = "ready")
  BY <1>1
<1>3. none \in [at : Nat, answer : Answers] /\ none.at = 0 /\ none.answer = "none"
  BY DEF Answers
<1>4. gov' = g
  BY DEF ProbeEnds, Verdict, NoProbe
<1> HIDE DEF ok, verdict, none
<1>5. /\ g \in GovType /\ g.now = gov.now /\ g.readyAt = gov.readyAt /\ g.ready = gov.ready
      /\ g.cached = verdict /\ g.probe = none
  BY ONLY <1>1, <1>2, <1>3 DEF GovType
<1> HIDE DEF g
<1>6. \A q \in Requests : req'[q].lag \in 0..OkTtl
  <2> SUFFICES ASSUME NEW q \in Requests PROVE req'[q].lag \in 0..OkTtl
    OBVIOUS
  <2>1. req[q].lag \in 0..OkTtl
    BY DEF GovInv
  <2>2. Verdict.ok => Lag \in 0..OkTtl
    <3>1. Verdict.ok => gov.probe.answer = "ready"
      BY DEF Verdict
    <3> QED BY <3>1, FreshIsYoung, RequestAssumption
  <2>3. req'[q].lag \in {req[q].lag} \/ (Verdict.ok /\ req'[q].lag = Lag)
    BY ProbeEndsMoves
  <2> QED BY <2>1, <2>2, <2>3
<1>7. verdict.ok => verdict.at <= gov.readyAt
  BY <1>2 DEF GovInv
<1> QED BY <1>1, <1>3, <1>4, <1>5, <1>6, <1>7 DEF GovInv

\* Every step keeps the evidence young.
LEMMA NextKeepsAges ==
  ASSUME Shaped, CallsInv, GovInv, [Next]_vars
  PROVE  GovInv'
<1>1. ASSUME LagsStay, gov' = gov PROVE GovInv'
  BY <1>1 DEF LagsStay, GovInv
<1>2. ASSUME NEW r \in Requests, ListTools(r) PROVE GovInv'
  <2>1. LagsStay
    BY <1>2, PipelineSteps, MovedKeepsLags DEF Lands
  <2>2. gov' = gov \/ JoinOrProbe
    BY <1>2 DEF ListTools
  <2> QED BY <1>1, <2>1, <2>2, JoinOrProbeKeeps DEF LagsStay
<1>r. ASSUME NEW r \in Requests, Report(r) PROVE GovInv'
  <2>1. LagsStay
    <3>1. \E pc : Goes(r, pc)
      BY <1>r DEF Report
    <3> QED BY <3>1, GoesMoves, MovedKeepsLags
  <2>2. gov' = gov \/ JoinOrProbe
    BY <1>r DEF Report
  <2> QED BY <1>1, <2>1, <2>2, JoinOrProbeKeeps DEF LagsStay
<1>3. ASSUME NEW r \in Requests,
             \/ Arrive(r) \/ Authenticated(r) \/ ReadBody(r) \/ OpenStream(r)
             \/ ListingGivesUp(r)
      PROVE  GovInv'
  <2>1. LagsStay
    BY <1>3, PipelineSteps, MovedKeepsLags DEF Lands
  <2>2. gov' = gov
    BY <1>3 DEF Arrive, Authenticated, ReadBody, OpenStream, ListingGivesUp
  <2> QED BY <1>1, <2>1, <2>2
<1>4. ASSUME NEW r \in Requests, LegacyNext(r) PROVE GovInv'
  BY <1>1, <1>4, LegacyLands, MovedKeepsLags
<1>5. ASSUME NEW r \in Requests, CallNext(r) PROVE GovInv'
  <2>1. CASE BeginCall(r) \/ Admit(r) \/ LiveCheck(r) \/ Handle(r) \/ Send(r) \/ Answered(r)
    BY <1>1, <2>1, CallsKeepLags
  <2>2. CASE Govern(r)
    BY <2>2, GovernKeepsAges
  <2>3. CASE ListTools(r) \/ ListingGivesUp(r)
    BY <1>2, <1>3, <2>3
  <2>4. CASE Report(r)
    BY <1>r, <2>4
  <2> QED BY <1>5, <2>1, <2>2, <2>3, <2>4 DEF CallNext
<1>6. ASSUME req' = req, gov' = gov PROVE GovInv'
  BY <1>1, <1>6 DEF LagsStay
<1>7. CASE Environment
  <2>1. CASE \E r \in Requests : Kill(Who(r))
    BY <1>6, <2>1 DEF Kill
  <2>2. CASE IssuerTurns
    BY <1>6, <2>2 DEF IssuerTurns
  <2>3. CASE \E s \in Transports : GrowsIdle(s)
    BY <1>6, <2>3 DEF GrowsIdle
  <2>4. CASE SourceTurns \/ Tick \/ SourceAnswers
    BY <2>4, SourceKeeps
  <2>5. CASE ProbeEnds
    BY <2>5, ProbeEndsKeepsAges
  <2> QED BY <1>7, <2>1, <2>2, <2>3, <2>4, <2>5 DEF Environment
<1>8. CASE UNCHANGED vars
  BY <1>6, <1>8 DEF vars
<1>9. CASE Next
  BY <1>3, <1>4, <1>5, <1>7, <1>9 DEF Next
<1> QED BY <1>8, <1>9

---------------------------------------------------------------------------
(* The beginning *)

\* The sessions that exist at the start are in the map, each once.
LEMMA SeedsInOrder ==
  LET seq == SetToSeq(Seeds)
  IN  /\ seq \in Seq(Seeds) /\ Distinct(seq) /\ Len(seq) = Cardinality(Seeds)
<1> DEFINE n == Cardinality(Seeds)
           IsOrder(f) == f \in [1..n -> Seeds] /\ IsInjective(f)
<1>1. IsFiniteSet(Seeds) /\ n \in Nat
  BY RequestAssumption, FS_CardinalityType
<1>2. \E f : IsOrder(f)
  <2>1. ExistsBijection(1..n, Seeds)
    BY <1>1, FS_CardinalityType
  <2> QED BY <2>1 DEF ExistsBijection, Bijection, Injection, Surjection, IsInjective
<1>3. SetToSeq(Seeds) = CHOOSE f \in [1..n -> Seeds] : IsInjective(f)
  BY DEF SetToSeq
<1>4. IsOrder(SetToSeq(Seeds))
  BY <1>2, <1>3
<1> DEFINE seq == SetToSeq(Seeds)
<1>5. seq \in [1..n -> Seeds] /\ \A i, j \in 1..n : seq[i] = seq[j] => i = j
  BY <1>4 DEF IsInjective
<1> HIDE DEF seq, n
<1>6. seq \in Seq(Seeds) /\ Len(seq) = n
  BY <1>1, <1>5
<1>7. Distinct(seq)
  BY <1>5, <1>6 DEF Distinct
<1> QED BY <1>6, <1>7 DEF seq, n

\* The invariant holds when the connector has started.
LEMMA InitHolds ==
  ASSUME Init
  PROVE  Shaped /\ SessionsInv /\ CallsInv /\ GovInv
<1>1. PICK s \in Scenarios : req = [r \in Requests |-> NewRequest(s.asks[r])]
  BY DEF Init
<1>2. ASSUME NEW r \in Requests
      PROVE  /\ DOMAIN req[r] = Fields
             /\ req[r].ask = s.asks[r] /\ req[r].pc = "new" /\ req[r].handed = "none"
             /\ req[r].left = 0 /\ req[r].sent = 0 /\ req[r].afterKill = 0
             /\ req[r].afterStop = 0 /\ req[r].lag = 0
  BY <1>1 DEF NewRequest, Fields
<1>3. Shaped
  BY <1>1, <1>2 DEF Shaped
<1>4. SessionsInv
  <2>1. Builders = {}
    BY <1>2 DEF Builders, At
  <2>2. Cardinality(Builders) = 0
    BY <2>1, FS_EmptySet
  <2>3. sessions = SetToSeq(Seeds) /\ crowd = 0
        /\ transport = [t \in Transports |-> IF t \in Seeds THEN "open" ELSE "none"]
    BY DEF Init, SessionsInit
  <2>4. /\ sessions \in Seq(Seeds) /\ Distinct(sessions) /\ Len(sessions) = Cardinality(Seeds)
    BY <2>3, SeedsInOrder
  <2>5. sessions \in Seq(Transports)
    BY <2>4 DEF Transports
  <2>6. \A i \in 1..Len(sessions) : sessions[i] \in Seeds
    BY <2>4
  <2>7. \A i \in 1..Len(sessions) : transport[sessions[i]] = "open" /\ sessions[i] \notin Requests
    BY <2>3, <2>6, RequestAssumption DEF Transports
  <2>8. NeverHandedToClosing
    BY <1>2 DEF NeverHandedToClosing
  <2>9. SessionsBounded
    <3>1. PICK m \in Nat, c \in Nat : m = MaxSessions /\ c = Cardinality(Seeds) /\ c <= m
      BY RequestAssumption, FS_CardinalityType
    <3>2. Len(sessions) + Cardinality(Builders) = c
      BY <2>2, <2>4, <3>1
    <3> QED BY <2>3, <3>1, <3>2 DEF SessionsBounded
  <2>10. crowd \in Nat /\ Cardinality(Builders) \in 0..crowd /\ DOMAIN transport = Transports
    BY <2>2, <2>3
  <2> QED BY <2>4, <2>5, <2>7, <2>8, <2>9, <2>10 DEF SessionsInv
<1>5. CallsInv
  <2>1. ASSUME NEW r \in Requests PROVE CallInv(r)
    <3>1. WritesAsDeclared(Call(r))
      <4>1. Call(r) = s.asks[r].call
        BY <1>2 DEF Call, Ask
      <4> QED BY <4>1, WritesAssumption DEF WritesAsDeclared
    <3> QED BY <1>2, <3>1 DEF CallInv, Running, Pending, Writing, At
  <2>2. stopped = {}
    BY DEF Init, CallsInit
  <2> QED BY <2>1, <2>2 DEF CallsInv
<1>6. GovInv
  <2>1. gov = [now |-> 1, ready |-> TRUE, readyAt |-> 1, turns |-> 0,
               cached |-> NoVerdict, probe |-> NoProbe]
    BY DEF Init, GovernanceInit
  <2>2. NoVerdict \in [ok : BOOLEAN, at : Nat, known : BOOLEAN] /\ ~NoVerdict.ok
    BY DEF NoVerdict
  <2>3. NoProbe \in [at : Nat, answer : Answers] /\ NoProbe.at = 0 /\ NoProbe.answer = "none"
    BY DEF NoProbe, Answers
  <2>4. /\ gov \in GovType /\ gov.now = 1 /\ gov.readyAt = 1 /\ gov.cached = NoVerdict
        /\ gov.probe = NoProbe
    BY <2>1, <2>2, <2>3 DEF GovType
  <2>5. \A r \in Requests : req[r].lag \in 0..OkTtl
    BY <1>2, RequestAssumption
  <2> QED BY <2>2, <2>3, <2>4, <2>5 DEF GovInv
<1> QED BY <1>3, <1>4, <1>5, <1>6

---------------------------------------------------------------------------
(* The theorems *)

RequestsInv == Shaped /\ SessionsInv /\ CallsInv /\ GovInv

\* In every reachable state the session map holds open sessions only, every
\* call has passed the checks before the place it has come to, and the verdict
\* about the source is no older than its probe.
THEOREM RequestsInvariant == Spec => []RequestsInv
<1>1. Init => RequestsInv
  BY InitHolds DEF RequestsInv
<1>2. RequestsInv /\ [Next]_vars => RequestsInv'
  BY NextKeeps, NextKeepsAges DEF RequestsInv
<1> QED BY <1>1, <1>2, PTL DEF Spec

\* A request is handed only to a transport that is open, however evictions,
\* DELETEs and the shutdown meet the requests of a session.
THEOREM HandedToOpenSessions == Spec => []NeverHandedToClosing
<1>1. RequestsInv => NeverHandedToClosing
  BY DEF RequestsInv, SessionsInv
<1> QED BY <1>1, RequestsInvariant, PTL

\* The session map outgrows its cap only by the initializes that were past the
\* eviction together, less one.
THEOREM SessionsStayBounded == Spec => []SessionsBounded
<1>1. RequestsInv => SessionsBounded
  BY DEF RequestsInv, SessionsInv
<1> QED BY <1>1, RequestsInvariant, PTL

\* A killed token writes at most once more in a call, a call that a denial
\* covers not at all except over ssh, and the local operator of a network
\* listener never over JSON:API.
THEOREM KilledTokensStopWriting == Spec => []KillStopsWrites
<1>1. RequestsInv => KillStopsWrites
  BY DEF RequestsInv, CallsInv, CallInv, KillStopsWrites
<1> QED BY <1>1, RequestsInvariant, PTL

\* A gate passes a call on evidence that is at most as old as a passing verdict
\* may get.
THEOREM EvidenceStaysFresh == Spec => []EvidenceIsFresh
<1>1. RequestsInv => EvidenceIsFresh
  BY RequestAssumption DEF RequestsInv, GovInv, EvidenceIsFresh
<1> QED BY <1>1, RequestsInvariant, PTL

\* What a tool that counts as a write does, by its row.
LEMMA WritersVerbs ==
  ASSUME NEW k, k.tool \in DOMAIN ToolTable, WriteLike(k)
  PROVE  /\ ToolTable[k.tool].verb \in {"update", "delete", "graphql", "config", "drush"}
         /\ ToolTable[k.tool].verb = "graphql" => k.mutation
<1>1. DOMAIN ToolTable = {"drupal_get_node", "drupal_update_node", "drupal_delete_node",
         "drupal_entity_update", "drupal_entity_delete", "drupal_graphql", "drupal_config_set",
         "drupal_drush_cron", "drupal_mcp_whoami", "drupal_list_sites", "drupal_governance_status"}
  BY DEF ToolTable
<1>2. /\ ToolTable["drupal_get_node"] = Tool("read", "read", "mcp_read", "http")
      /\ ToolTable["drupal_update_node"] = Tool("write", "update", "mcp_write", "http")
      /\ ToolTable["drupal_delete_node"] = Tool("delete", "delete", "mcp_write", "http")
      /\ ToolTable["drupal_entity_update"] = Tool("read", "update", "mcp_write", "http")
      /\ ToolTable["drupal_entity_delete"] = Tool("read", "delete", "mcp_write", "http")
      /\ ToolTable["drupal_graphql"] = Tool("graphql", "graphql", "mcp_read", "http")
      /\ ToolTable["drupal_config_set"] = Tool("write", "config", "mcp_config", "bridge")
      /\ ToolTable["drupal_drush_cron"] = Tool("write", "drush", "mcp_write", "drush")
      /\ ToolTable["drupal_mcp_whoami"] = Tool("read", "read", "mcp_read", "none")
      /\ ToolTable["drupal_list_sites"] = Tool("read", "read", "mcp_read", "none")
      /\ ToolTable["drupal_governance_status"] = Tool("read", "read", "mcp_read", "none")
  BY DEF ToolTable
<1> QED BY <1>1, <1>2 DEF WriteLike, WriteLikeTool, Generic, Tool

\* The site that is chosen for a call is granted to its principal, and is the
\* only one there was to choose unless the call is a read or named it.
LEMMA ChosenSite ==
  ASSUME NEW id, NEW k, NEW target, target = CallTarget(id, k), target # NoTarget
  PROVE  /\ Entitled(id, k) /\ target.site \in Granted(id)
         /\ WriteLike(k) => \/ id.local \/ Cardinality(Sites) = 1 \/ k.hint = target.site
                            \/ Cardinality(Granted(id)) = 1
<1>1. /\ Entitled(id, k) /\ SiteIsExplicit(k, target)
      /\ target = IF id.local THEN LocalTarget(k.hint) ELSE Target(id, k.hint)
  BY DEF CallTarget
<1>2. CASE id.local
  <2>1. target = LocalTarget(k.hint) /\ Granted(id) = Sites
    BY <1>1, <1>2 DEF Granted
  <2>2. target.site \in Sites
    <3>1. \/ target = [site |-> DefaultSite, by |-> "operator"]
          \/ target = [site |-> k.hint, by |-> "operator"] /\ k.hint \in Sites
      BY <2>1 DEF LocalTarget
    <3> QED BY <3>1, PolicyAssumption
  <2> QED BY <1>1, <1>2, <2>1, <2>2
<1>3. CASE ~id.local
  <2> DEFINE granted == Granted(id)
  <2>1. target = Target(id, k.hint)
    BY <1>1, <1>3
  <2>2. Cardinality(Sites) \in Nat \ {0}
    BY PolicyAssumption, FS_CardinalityType, FS_EmptySet
  <2>3. \/ target = [site |-> k.hint, by |-> "hint"] /\ k.hint \in granted
        \/ target = [site |-> DefaultSite, by |-> "default"] /\ DefaultSite \in granted
        \/ /\ target = [site |-> CHOOSE s \in granted : TRUE, by |-> "grant"]
           /\ Cardinality(granted) = 1
    BY <2>1 DEF Target
  <2>4. CASE target = [site |-> k.hint, by |-> "hint"] /\ k.hint \in granted
    BY <1>1, <2>4
  <2>5. CASE target = [site |-> DefaultSite, by |-> "default"] /\ DefaultSite \in granted
    <3>1. target.by = "default" /\ target.site = DefaultSite
      BY <2>5
    <3>2. WriteLike(k) => ~(Cardinality(Sites) > 1)
      BY <1>1, <3>1 DEF SiteIsExplicit
    <3>3. WriteLike(k) => Cardinality(Sites) = 1
      BY <2>2, <3>2
    <3> QED BY <1>1, <2>5, <3>1, <3>3
  <2>6. CASE /\ target = [site |-> CHOOSE s \in granted : TRUE, by |-> "grant"]
             /\ Cardinality(granted) = 1
    <3>1. granted # {}
      BY <2>6, FS_EmptySet
    <3>2. target.site \in granted
      BY <2>6, <3>1
    <3> QED BY <1>1, <2>6, <3>2
  <2> QED BY <2>3, <2>4, <2>5, <2>6
<1> QED BY <1>2, <1>3

\* A write's handler has seen that the site's policy allows it.
LEMMA HandlerSawPolicy ==
  ASSUME NEW s, NEW k, k.tool \in DOMAIN ToolTable, WriteLike(k), HandlerAllows(s, k)
  PROVE  LET p == Policy(s)
             verb == ToolTable[k.tool].verb
         IN  /\ ~p.readOnly
             /\ verb = "delete" => p.allowDestructive
             /\ verb = "config" => p.allowConfigWrite
             /\ verb \in {"update", "delete"} =>
                  k.type \in p.allowed \ p.denied /\ BundleAllowed(p, k.type, k.bundle)
             /\ verb = "update" /\ k.publish => p.allowPublish
<1> DEFINE p == Policy(s)
           verb == ToolTable[k.tool].verb
<1>1. verb \in {"update", "delete", "graphql", "config", "drush"} /\ (verb = "graphql" => k.mutation)
  BY WritersVerbs
<1>2. CASE verb = "update"
  BY <1>2 DEF HandlerAllows, WriteAllowed, TypeAllowed
<1>3. CASE verb = "delete"
  BY <1>3 DEF HandlerAllows, DeleteAllowed, WriteAllowed, TypeAllowed
<1>4. CASE verb = "graphql"
  BY <1>1, <1>4 DEF HandlerAllows, GraphqlAllowed
<1>5. CASE verb = "config"
  BY <1>5 DEF HandlerAllows
<1>6. CASE verb = "drush"
  BY <1>6 DEF HandlerAllows
<1> QED BY <1>1, <1>2, <1>3, <1>4, <1>5, <1>6

\* A write goes to a site that the principal is granted and that the call names
\* where there is a choice, and the site's policy allows it.
THEOREM WritesGoWhereAllowed == Spec => []WrittenSiteAllowsIt
<1>1. RequestsInv => WrittenSiteAllowsIt
  <2> SUFFICES ASSUME RequestsInv, NEW r \in Requests, req[r].sent > 0
               PROVE  LET p == Policy(req[r].site)
                          k == Call(r)
                          verb == ToolTable[k.tool].verb
                      IN  /\ req[r].site \in Granted(Id(r))
                          /\ Unkeyed(r) \/ Cardinality(Sites) = 1 \/ k.hint = req[r].site
                               \/ Cardinality(Granted(Id(r))) = 1
                          /\ ~p.readOnly
                          /\ verb = "delete" => p.allowDestructive
                          /\ verb = "config" => p.allowConfigWrite
                          /\ verb \in {"update", "delete"} =>
                               k.type \in p.allowed \ p.denied /\ BundleAllowed(p, k.type, k.bundle)
                          /\ verb = "update" /\ k.publish => p.allowPublish
    BY DEF WrittenSiteAllowsIt
  <2> DEFINE k == Call(r)
             target == CallTarget(Id(r), k)
  <2>1. Allowed(r) /\ WritesAsDeclared(k)
    BY DEF RequestsInv, CallsInv, CallInv
  <2>2. /\ target # NoTarget /\ req[r].site = target.site
        /\ k.writes > 0 /\ HandlerAllows(req[r].site, k)
    BY <2>1 DEF Allowed, Chosen
  <2>3. /\ Entitled(Id(r), k) /\ target.site \in Granted(Id(r))
        /\ WriteLike(k) => \/ Id(r).local \/ Cardinality(Sites) = 1 \/ k.hint = target.site
                           \/ Cardinality(Granted(Id(r))) = 1
    BY <2>2, ChosenSite
  <2>4. k.tool \in DOMAIN ToolTable
    BY <2>3 DEF Entitled, Scoped
  <2>5. WriteLike(k)
    BY <2>1, <2>2, <2>4 DEF WritesAsDeclared
  <2> HIDE DEF k, target
  <2>6. LET p == Policy(req[r].site)
            verb == ToolTable[k.tool].verb
        IN  /\ ~p.readOnly
            /\ verb = "delete" => p.allowDestructive
            /\ verb = "config" => p.allowConfigWrite
            /\ verb \in {"update", "delete"} =>
                 k.type \in p.allowed \ p.denied /\ BundleAllowed(p, k.type, k.bundle)
            /\ verb = "update" /\ k.publish => p.allowPublish
    BY <2>2, <2>4, <2>5, HandlerSawPolicy
  <2> QED BY <2>2, <2>3, <2>5, <2>6 DEF k, Unkeyed
<1> QED BY <1>1, RequestsInvariant, PTL
=============================================================================
