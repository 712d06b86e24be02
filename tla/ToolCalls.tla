----------------------------- MODULE ToolCalls -----------------------------
(***************************************************************************)
(* A tools/call from the handler's table to its last write: the in-flight  *)
(* registry, the gates of dispatch, the live check of the token before     *)
(* each governed write, and the abort of every call that a denial covers.  *)
(***************************************************************************)
EXTENDS SourceGovernance

CallsInit ==
  /\ flights = {} /\ aborted = {} /\ stopped = {}
  /\ spent = [k \in {Identity(Token[t]).key : t \in DOMAIN Token} \X Sites |->
                [count |-> 0, until |-> 0]]

Unkeyed(r) == Id(r).local
EndsCall(r, out) == Ends(r, out) /\ flights' = flights \ {r}

Running == {"govern", "waiting", "passed", "live", "handler", "check", "send",
            "report", "asking", "answer"}

\* One principal, one human, or one tenant: what a denial covers.
Covers(id, other) ==
  \/ id.key = other.key \/ id.human = other.human
  \/ id.tenant # "" /\ id.tenant = other.tenant

---------------------------------------------------------------------------

\* createInFlightRegistry.begin: full, or full for this principal.
FlightRefused(r) ==
  /\ ~Unkeyed(r) /\ Id(r).key # <<>>
  /\ \/ Cardinality(flights) >= MaxFlights
     \/ Cardinality({q \in flights : Id(q).key = Id(r).key}) >= MaxPerPrincipal

\* callTool up to the governance gate: nothing in it waits.  A diagnostic that
\* has no site goes to its handler from here.
BeginCall(r) ==
  /\ At(r, "handed") /\ Ask(r).verb = "call"
  /\ LET target == CallTarget(Id(r), Call(r))
         lists == Call(r).tool = "drupal_list_sites"
         noSite == /\ lists \/ (Call(r).tool = "drupal_governance_status" /\ Call(r).hint = "")
                   /\ Entitled(Id(r), Call(r))
     IN  IF FlightRefused(r) \/ (target = NoTarget /\ ~noSite)
         THEN Ends(r, "denied") /\ UNCHANGED flights
         ELSE /\ req' = [req EXCEPT ![r].pc = IF ~noSite THEN "govern"
                                              ELSE IF lists THEN "answer" ELSE "report",
                                    ![r].site = IF noSite THEN "" ELSE target.site,
                                    ![r].left = Call(r).writes]
              /\ flights' = IF Unkeyed(r) THEN flights ELSE flights \cup {r}
  /\ UNCHANGED <<setup, sessionVars, aborted, stopped, spent, world, gov>>

\* assertSourceGovernance
Govern(r) ==
  LET gated == Call(r).tool \notin Diagnostic /\ Governed(req[r].site)
      passes == ~gated \/ (Fresh /\ gov.cached.ok)
  IN  /\ At(r, "govern")
      /\ IF passes
         THEN /\ req' = [req EXCEPT ![r].pc = "passed", ![r].lag = IF gated THEN Lag ELSE 0]
              /\ UNCHANGED <<flights, gov>>
         ELSE IF Fresh THEN EndsCall(r, "ungoverned") /\ UNCHANGED gov
         ELSE Goes(r, "waiting") /\ JoinOrProbe /\ UNCHANGED flights
      /\ UNCHANGED <<setup, sessionVars, aborted, stopped, spent, world>>

\* getGovernanceStatus reports on the site of the call, or on all that are
\* granted: without fresh evidence it joins or starts the probe as a gate does.
Report(r) ==
  LET asked == IF req[r].site = "" THEN Granted(Id(r)) ELSE {req[r].site}
  IN  /\ At(r, "report")
      /\ IF Fresh \/ \A s \in asked : ~Governed(s)
         THEN Goes(r, "answer") /\ UNCHANGED gov
         ELSE Goes(r, "asking") /\ JoinOrProbe
      /\ UNCHANGED <<setup, sessionVars, callVars, world>>

\* The shared probe ends: its verdict is cached, and everyone who joined it gets
\* that verdict.
ProbeEnds ==
  LET ok == Verdict.ok
      calls == {r \in Requests : At(r, "waiting")}
      lists == {r \in Requests : At(r, "listing")}
  IN  /\ Probed
      /\ gov' = [gov EXCEPT !.cached = Verdict, !.probe = NoProbe]
      /\ req' = [r \in Requests |->
           CASE r \in calls /\ ok -> [req[r] EXCEPT !.pc = "passed", !.lag = Lag]
             [] r \in calls /\ ~ok -> [req[r] EXCEPT !.pc = "done", !.out = "ungoverned"]
             [] r \in lists -> [req[r] EXCEPT !.pc = "done",
                                              !.out = IF ok THEN "tools" ELSE "diagnostics"]
             [] At(r, "asking") -> [req[r] EXCEPT !.pc = "answer"]
             [] OTHER -> req[r]]
      /\ flights' = IF ok THEN flights ELSE flights \ calls
      /\ UNCHANGED <<setup, sessionVars, aborted, stopped, spent, world>>

\* windowConsume: the bucket of this principal and site, in its window.
Bucket(r) ==
  LET b == spent[<<Id(r).key, req[r].site>>]
  IN  IF gov.now < b.until THEN b ELSE [count |-> 0, until |-> gov.now + ChainWindow]

\* After governance: the operation gate, and only then the chained-action
\* charge.  A diagnostic and the local operator are not charged.
Admit(r) ==
  LET free == Unkeyed(r) \/ Call(r).tool \in Diagnostic
      next == IF WriteLike(Call(r)) /\ ~Unkeyed(r) THEN "live" ELSE "handler"
  IN  /\ At(r, "passed")
      /\ IF ~DispatchAllows(req[r].site, Call(r)) \/ (~free /\ Bucket(r).count >= MaxChained)
         THEN EndsCall(r, "denied") /\ UNCHANGED spent
         ELSE /\ Goes(r, next) /\ UNCHANGED flights
              /\ spent' = IF free THEN spent
                          ELSE [spent EXCEPT ![<<Id(r).key, req[r].site>>] =
                                                [Bucket(r) EXCEPT !.count = @ + 1]]
      /\ UNCHANGED <<setup, sessionVars, aborted, stopped, world, gov>>

---------------------------------------------------------------------------
(* Writes *)

\* denyAndCancel: the call is denied, and every running call that the denial
\* covers has its signal aborted and leaves the registry.
DenyAndCancel(r) ==
  LET covered == IF Unkeyed(r) THEN {} ELSE {q \in flights : Covers(Id(r), Id(q))}
      also == {q \in Requests : req[q].pc \in Running /\ ~Unkeyed(r)
                 /\ (Id(q).human = Id(r).human \/ Id(q).tenant = Id(r).tenant)}
  IN  /\ aborted' = aborted \cup covered
      /\ flights' = flights \ (covered \cup {r})
      /\ stopped' = stopped \cup also
      /\ Ends(r, "denied")

\* assertLiveTokenForGovernedWrite, in dispatch and before each mutating fetch:
\* the issuer must call the token active and not killed.  The local operator of
\* a network listener has no token and is denied.
LiveCheck(r) ==
  /\ req[r].pc \in {"live", "check"}
  /\ IF ~Unkeyed(r) /\ Answer(Who(r)) = "active"
     THEN /\ Goes(r, IF At(r, "live") THEN "handler" ELSE "send")
          /\ UNCHANGED <<flights, aborted, stopped>>
     ELSE DenyAndCancel(r)
  /\ UNCHANGED <<setup, sessionVars, spent, world, gov>>

Via(r) == ToolTable[Call(r).tool].via
NextWriteM1(r) == "send"

NextWrite(r) == IF Via(r) = "http" THEN "check" ELSE "send"

\* The handler's own checks, before it touches Drupal.
Handle(r) ==
  /\ At(r, "handler")
  /\ IF HandlerAllows(req[r].site, Call(r))
     THEN /\ Goes(r, IF req[r].left > 0 THEN NextWrite(r)
                     ELSE IF Call(r).tool = "drupal_governance_status" THEN "report" ELSE "answer")
          /\ UNCHANGED flights
     ELSE EndsCall(r, "denied")
  /\ UNCHANGED <<setup, sessionVars, aborted, stopped, spent, world, gov>>

\* With the outbound credentials there, the request goes out unless the call's
\* signal is aborted; an ssh drush has no signal.  (A 401 or an expired bridge
\* session has it sent again, from here: the first one wrote nothing.)  A failed
\* write may end the call.
Send(r) ==
  /\ At(r, "send")
  /\ IF r \in aborted /\ Via(r) # "drush" THEN EndsCall(r, "denied")
     ELSE /\ UNCHANGED flights
          /\ \E pc \in {IF req[r].left = 1 THEN "answer" ELSE NextWrite(r), "answer"} :
               req' = [req EXCEPT ![r].pc = pc, ![r].left = @ - 1, ![r].sent = @ + 1,
                         ![r].afterKill = IF Who(r) \in killed THEN @ + 1 ELSE @,
                         ![r].afterStop = IF r \in stopped THEN @ + 1 ELSE @]
  /\ UNCHANGED <<setup, sessionVars, aborted, stopped, spent, world, gov>>

\* The call answers; an abort meanwhile may have turned it into a denial.
Answered(r) ==
  /\ At(r, "answer")
  /\ \E out \in {"ok"} \cup IF r \in aborted THEN {"denied"} ELSE {} : EndsCall(r, out)
  /\ UNCHANGED <<setup, sessionVars, aborted, stopped, spent, world, gov>>

CallNext(r) ==
  \/ BeginCall(r) \/ Govern(r) \/ Report(r) \/ Admit(r) \/ LiveCheck(r) \/ Handle(r) \/ Send(r)
  \/ Answered(r) \/ ListTools(r) \/ ListingGivesUp(r)
=============================================================================
