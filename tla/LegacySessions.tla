--------------------------- MODULE LegacySessions ---------------------------
(***************************************************************************)
(* The sessions of 2025-era clients: created by initialize, found by id,   *)
(* closed by DELETE, when idle, when the map is full, and at shutdown.     *)
(* Between two awaits the handler runs alone; it awaits every close of a   *)
(* transport and the building of a server.                                 *)
(***************************************************************************)
EXTENDS RequestHost

SessionsInit ==
  /\ sessions = SetToSeq(Seeds)
  /\ idle = {} /\ crowd = 0
  /\ transport = [t \in Transports |-> IF t \in Seeds THEN "open" ELSE "none"]

Builders == {r \in Requests : At(r, "build")}
Owner(s) == IF s \in Seeds THEN setup.owner ELSE Id(s).key
IdleSessions == SelectSeq(sessions, LAMBDA s : s \in idle)

DropM1(r, s, pc) ==
  /\ sessions' = sessions
  /\ transport' = [transport EXCEPT ![s] = IF @ = "open" THEN "closing" ELSE @]
  /\ req' = [req EXCEPT ![r].pc = pc, ![r].via = s]

\* closeSession up to its await: the id leaves the map before the transport is
\* asked to close.
Drop(r, s, pc) ==
  /\ sessions' = RemoveFirst(sessions, s)
  /\ transport' = [transport EXCEPT ![s] = IF @ = "open" THEN "closing" ELSE @]
  /\ req' = [req EXCEPT ![r].pc = pc, ![r].via = s]

\* The transport has closed, and its onclose drops the id too: the eviction or
\* the making of room goes on, or the DELETE is answered.
Closed(r) ==
  /\ req[r].pc \in {"closing", "making_room", "ending"}
  /\ transport' = [transport EXCEPT ![req[r].via] = "closed"]
  /\ sessions' = RemoveFirst(sessions, req[r].via)
  /\ req' = [req EXCEPT ![r].via = "",
                        ![r].pc = CASE At(r, "closing") -> "evict"
                                    [] At(r, "making_room") -> "capacity"
                                    [] OTHER -> "done",
                        ![r].out = IF At(r, "ending") THEN "200" ELSE @]
  /\ UNCHANGED <<setup, idle, crowd, callVars, world, gov>>

\* evictIdle starts from the map as it is now; so does the shutdown, which
\* closes everything.
StartEviction(r) ==
  /\ At(r, "enter") /\ setup.legacy
  /\ req' = [req EXCEPT ![r].pc = "evict",
                        ![r].todo = IF Ask(r).verb = "shutdown" THEN sessions
                                    ELSE IdleSessions]
  /\ UNCHANGED <<setup, sessionVars, callVars, world, gov>>

RefuseLegacy(r) ==
  /\ At(r, "enter") /\ ~setup.legacy
  /\ Ends(r, IF Ask(r).head.method = "POST" THEN "400" ELSE "405")
  /\ UNCHANGED <<setup, sessionVars, callVars, world, gov>>

\* The next session of the list: one that was used meanwhile stays.
EvictNext(r) ==
  /\ At(r, "evict") /\ req[r].todo # <<>>
  /\ LET s == Head(req[r].todo)
         rest == [req EXCEPT ![r].todo = Tail(@)]
     IN  IF Ask(r).verb = "shutdown" \/ s \in idle
         THEN /\ sessions' = RemoveFirst(sessions, s)
              /\ transport' = [transport EXCEPT ![s] = IF @ = "open" THEN "closing" ELSE @]
              /\ req' = [rest EXCEPT ![r].pc = "closing", ![r].via = s]
         ELSE req' = rest /\ UNCHANGED <<sessions, transport>>
  /\ UNCHANGED <<setup, idle, crowd, callVars, world, gov>>

\* With the eviction done the request is routed by its session id, or must be
\* an initialize.
Sid(r) == Ask(r).head.sid
RouteRefusal(r) ==
  IF Sid(r) # ""
  THEN IF ~Contains(sessions, Sid(r)) THEN "404"
       ELSE IF Id(r).key = <<>> \/ Owner(Sid(r)) # Id(r).key THEN "403" ELSE "none"
  ELSE IF Ask(r).verb # "init" THEN "400"
       ELSE IF Id(r).key = <<>> THEN "403" ELSE "none"

Route(r) ==
  /\ At(r, "evict") /\ req[r].todo = <<>>
  /\ IF Ask(r).verb = "shutdown" THEN Ends(r, "closed") /\ UNCHANGED sessionVars
     ELSE IF RouteRefusal(r) # "none" THEN Ends(r, RouteRefusal(r)) /\ UNCHANGED sessionVars
     ELSE IF Sid(r) = "" THEN Goes(r, "capacity") /\ UNCHANGED sessionVars
     ELSE IF Ask(r).head.method = "DELETE"
     THEN Drop(r, Sid(r), "ending") /\ UNCHANGED <<idle, crowd>>
     ELSE \* touch, and handleRequest in the same turn
          /\ sessions' = Append(RemoveFirst(sessions, Sid(r)), Sid(r))
          /\ idle' = idle \ {Sid(r)}
          /\ req' = [req EXCEPT ![r].pc = "handed", ![r].via = Sid(r),
                                ![r].handed = transport[Sid(r)]]
          /\ UNCHANGED <<transport, crowd>>
  /\ UNCHANGED <<setup, callVars, world, gov>>

FullM1 == Len(sessions) > MaxSessions

\* evictForCapacity: the oldest session goes while the map is full.
Full == Len(sessions) >= MaxSessions

MakeRoom(r) ==
  /\ At(r, "capacity") /\ Full
  /\ Drop(r, Head(sessions), "making_room")
  /\ UNCHANGED <<setup, idle, crowd, callVars, world, gov>>

StartBuild(r) ==
  /\ At(r, "capacity") /\ ~Full
  /\ Goes(r, "build")
  /\ crowd' = IF Cardinality(Builders) + 1 > crowd THEN Cardinality(Builders) + 1 ELSE crowd
  /\ UNCHANGED <<setup, sessions, idle, transport, callVars, world, gov>>

\* The server is built and connected, and the transport handles initialize: the
\* session enters the map.  Or the building fails, which answers 500.
Initialized(r) ==
  /\ At(r, "build")
  /\ \/ /\ sessions' = Append(sessions, r)
        /\ transport' = [transport EXCEPT ![r] = "open"]
        /\ Ends(r, "200")
     \/ Ends(r, "500") /\ UNCHANGED <<sessions, transport>>
  /\ UNCHANGED <<setup, idle, crowd, callVars, world, gov>>

LegacyNext(r) ==
  \/ StartEviction(r) \/ RefuseLegacy(r) \/ EvictNext(r) \/ Route(r) \/ Closed(r)
  \/ MakeRoom(r) \/ StartBuild(r) \/ Initialized(r)
=============================================================================
