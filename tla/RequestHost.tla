---------------------------- MODULE RequestHost ----------------------------
(***************************************************************************)
(* One connector process that serves HTTP requests: the state the requests *)
(* share, the progress of each, and what goes on around them.              *)
(***************************************************************************)
EXTENDS CallPolicy, Sequences, SequencesExt

CONSTANTS
  Requests,         \* HTTP requests
  Token,            \* the tokens there are, by name
  Seeds,            \* sessions that exist when the run starts
  MaxSessions,      \* LEGACY_SESSION_CAP
  MaxFlights,       \* IN_FLIGHT_MAX_ENTRIES
  MaxPerPrincipal,  \* IN_FLIGHT_MAX_PER_PRINCIPAL
  MaxChained,       \* chained actions in a window
  ChainWindow,      \* the length of that window
  OkTtl, FailTtl,   \* how long a readiness verdict counts
  ProbeTime,        \* the longest a readiness probe takes
  MaxTime,          \* bounds the clock
  MaxTurns          \* changes of the source's readiness: bounds the model

ASSUME RequestAssumption ==
  /\ MaxSessions \in Nat \ {0} /\ MaxFlights \in Nat /\ MaxPerPrincipal \in Nat
  /\ OkTtl \in Nat /\ FailTtl \in Nat /\ ProbeTime \in 0..OkTtl /\ MaxTime \in Nat
  /\ IsFiniteSet(Requests) /\ IsFiniteSet(Seeds) /\ Requests \cap Seeds = {}
  /\ Cardinality(Seeds) <= MaxSessions

VARIABLES
  setup,      \* how this process runs, and what happens around it; never changes
  req,        \* each request
  sessions,   \* the session map in its insertion order
  idle,       \* sessions unused for longer than the idle time
  transport,  \* the transport of each session, seeds and initialized requests
  crowd,      \* ghost: most initializes past the eviction at one time
  killed,     \* tokens the issuer has killed
  issuer,     \* "up" or "down"
  flights,    \* the in-flight registry
  aborted,    \* requests whose signal is aborted
  stopped,    \* ghost: calls that ran when a denial covered them
  spent,      \* chained actions by principal and site: a count and its end
  gov         \* clock, source readiness, verdict cache and probe

sessionVars == <<sessions, idle, transport, crowd>>
callVars == <<flights, aborted, stopped, spent>>
world == <<killed, issuer>>
vars == <<setup, req, sessionVars, callVars, world, gov>>

Transports == Seeds \cup Requests
NoProbe == [at |-> 0, answer |-> "none"]
NoVerdict == [ok |-> FALSE, at |-> 0, known |-> FALSE]

\* A request waits in pc; out is its answer; via the session it was handed to.
NewRequest(a) ==
  [ask |-> a, pc |-> "new", out |-> "none",
   todo |-> <<>>,       \* sessions it still has to look at while evicting
   via |-> "",          \* the session it uses
   handed |-> "none",   \* ghost: that session's transport at the time
   site |-> "", left |-> 0,
   sent |-> 0,          \* writes sent
   afterKill |-> 0,     \* ghost: of these, after its token was killed
   afterStop |-> 0,     \* ghost: of these, after a denial that covered it
   lag |-> 0]           \* ghost: age of the evidence its gate passed on

Ask(r) == req[r].ask
Who(r) == Ask(r).who
Id(r) == IF setup.mode = "unauthenticated" THEN LocalOperator ELSE Identity(Token[Who(r)])
Call(r) == Ask(r).call
At(r, pc) == req[r].pc = pc

Goes(r, pc) == req' = [req EXCEPT ![r].pc = pc]
\* An answer to a session whose transport is gone reaches nobody.
Ends(r, out) ==
  req' = [req EXCEPT ![r].pc = "done",
                     ![r].out = IF req[r].via # "" /\ transport[req[r].via] # "open"
                                THEN "lost" ELSE out]

Happens(event) == event \in setup.env

---------------------------------------------------------------------------
(* The issuer, the source and the clock *)

\* The operator kills a token; the issuer cannot be reached for a while.
Kill(t) ==
  /\ Happens("kill") /\ t \notin killed
  /\ killed' = killed \cup {t}
  /\ UNCHANGED <<setup, req, sessionVars, callVars, issuer, gov>>

IssuerTurns ==
  /\ Happens("outage")
  /\ issuer' = IF issuer = "up" THEN "down" ELSE "up"
  /\ UNCHANGED <<setup, req, sessionVars, callVars, killed, gov>>

\* What the issuer says of a token now.  A killed one is still active.
Answer(t) ==
  IF issuer = "down" THEN "outage"
  ELSE IF ~Token[t].active THEN "inactive"
  ELSE IF t \in killed THEN "killed" ELSE "active"

\* A session is left alone for longer than the idle time.
GrowsIdle(s) ==
  /\ Happens("age") /\ s \in ToSet(sessions) \ idle
  /\ idle' = idle \cup {s}
  /\ UNCHANGED <<setup, req, sessions, transport, crowd, callVars, world, gov>>

\* The source becomes ready, or was ready until now.
SourceTurns ==
  /\ Happens("clock") /\ gov.turns < MaxTurns
  /\ gov' = [gov EXCEPT !.ready = ~@, !.readyAt = gov.now, !.turns = @ + 1]
  /\ UNCHANGED <<setup, req, sessionVars, callVars, world>>

\* Time passes, but a probe ends within its timeouts.
Tick ==
  /\ Happens("clock") /\ gov.now < MaxTime
  /\ gov.probe # NoProbe => gov.now < gov.probe.at + ProbeTime
  /\ gov' = [gov EXCEPT !.now = @ + 1,
                        !.readyAt = IF gov.ready THEN gov.now + 1 ELSE @]
  /\ UNCHANGED <<setup, req, sessionVars, callVars, world>>
=============================================================================
