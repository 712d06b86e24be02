-------------------------- MODULE ConnectorProcess --------------------------
(***************************************************************************)
(* The server process from its launch to its exit: the checks it starts    *)
(* with, its two listeners, the audit row and the metrics of each exchange *)
(* on the public one, and the readiness answers of the other.              *)
(*                                                                         *)
(* What an exchange is answered is an input here; the modules Admission    *)
(* and HttpRequests decide it.  A head, once written, cannot be taken      *)
(* back; a connection that is destroyed reports its close later.           *)
(***************************************************************************)
EXTENDS Admission, Sequences, SequencesExt, FiniteSetsExt

CONSTANTS
  Exchanges,       \* requests on the public listener
  Ways,            \* how a request is answered, and what it may meet
  Launches,        \* how the process is launched, and what happens to it
  CacheTime,       \* how long a readiness result is used
  ProbeTimeout,    \* the longest a readiness probe takes
  EndTime          \* bounds the clock

\* An answer has a status; who is verified is a user, or the local operator.
\* A launch has every setting that InboundMode and AuthenticatorBuilds look at.
ASSUME ProcessAssumption ==
  /\ CacheTime \in Nat \ {0} /\ ProbeTimeout \in Nat \ {0} /\ EndTime \in Nat
  /\ \A w \in Ways : w.status \in Nat \ {0} /\ w.bound \in {"", "user", "operator"}
  /\ \A l \in Launches :
       {"sharedToken", "set", "loopback", "allowUnauth", "https", "resource", "discovered"}
         \subseteq DOMAIN l.auth

VARIABLES
  life,   \* the launch, the stage of the process, its listeners, its exit code
  exch,   \* each exchange
  ready   \* clock, issuer, readiness probe and cache, and what they showed

processVars == <<life, exch, ready>>

Idle ==
  [stage |-> "none", way |-> "", conn |-> "open", head |-> 0, ended |-> FALSE,
   bound |-> FALSE, outcome |-> "none",
   rows |-> << >>,   \* the audit rows written for it
   counted |-> 0,    \* the status the metrics count for it; 0 while it runs
   left |-> FALSE,   \* ghost: its client had left before any head was written
   late |-> FALSE,   \* ghost: answered after its handler had been counted
   marks |-> {}]     \* ghost: the outcomes of its tool calls

NoReadyProbe == [since |-> 0, at |-> 0, said |-> "none"]
NoResult == [ok |-> FALSE, until |-> 0, at |-> 0]

Stage(s) == life.stage = s
Enters(s) == [life EXCEPT !.stage = s]
Exits(code) == [life EXCEPT !.stage = "exited", !.code = code, !.public = FALSE, !.ops = FALSE]
Meets(event) == event \in life.launch.env

---------------------------------------------------------------------------
(* Launching *)

\* loadLocalSecrets: a secret is set by the environment, or by the table when
\* the keychain has its item.
Unset(l) == l.named \ (l.exported \cup (l.table \cap l.keychain))
SecretsFatal(l) == l.named # {} /\ Unset(l) = l.named

\* Without TLS the public listener binds loopback, whatever the operator sets.
BindHost(l) ==
  CASE l.tls = "none" -> "loopback"
    [] l.tls # "none" /\ l.bindHost = "" -> "everywhere"
    [] OTHER -> l.bindHost

\* resolveOpsListen: a present environment value wins, also an empty one.
OpsSpec(l) == IF l.opsEnv # "unset" THEN l.opsEnv ELSE l.opsConfig
OpsListen(l) ==
  CASE OpsSpec(l) = "" -> "off"
    [] OpsSpec(l) \in {"loopback", "mesh"} -> "on"
    [] OTHER -> "fatal"

Auth(l) == [l.auth EXCEPT !.loopback = BindHost(l) = "loopback"]
Mode == InboundMode(Auth(life.launch))

\* index.js up to its first await.  assertHostedToolScopeTable is asked before
\* anything of the transport.
Refused(l) ==
  \/ SecretsFatal(l)
  \/ l.transport \notin {"stdio", "http", "https"}
  \/ /\ l.transport # "stdio"
     /\ \/ ~l.scoped
        \/ OpsListen(l) = "fatal"
        \/ InboundMode(Auth(l)) = "fatal"
        \/ l.tls = "none" /\ BindHost(l) # "loopback"

\* createNodeServer: unreadable certificates throw, plain HTTP needs its flag.
NodeServer(l) == l.tls = "good" \/ (l.tls = "none" /\ l.allowHttp)
NextStage(l) == IF NodeServer(l) THEN Enters("binding") ELSE Exits(1)

Launch ==
  /\ Stage("launched")
  /\ LET l == life.launch
     IN  life' = CASE Refused(l) -> Exits(1)
                   [] ~Refused(l) /\ l.transport = "stdio" -> Enters("stdio")
                   [] ~Refused(l) /\ l.transport # "stdio" /\ Mode = "resource_server" ->
                        Enters("discovering")
                   [] OTHER -> NextStage(l)
  /\ UNCHANGED <<exch, ready>>

\* createInboundHttpsAuth has read the issuer's metadata, or not.
DiscoveredM1(l) == TRUE
Discovered(l) == AuthenticatorBuilds(Auth(l))
Discover ==
  /\ Stage("discovering")
  /\ life' = IF Discovered(life.launch) THEN NextStage(life.launch) ELSE Exits(1)
  /\ UNCHANGED <<exch, ready>>

\* The port is bound, or taken.  The ops listener binds after it.
Bound ==
  /\ Stage("binding")
  /\ life' = IF "public" \in life.launch.taken THEN Exits(1)
             ELSE [life EXCEPT !.public = TRUE,
                               !.stage = IF OpsListen(life.launch) = "on" THEN "opsBinding" ELSE "up"]
  /\ UNCHANGED <<exch, ready>>

\* startOpsListener exits when its port is taken, with the public listener open.
OpsBound ==
  /\ Stage("opsBinding")
  /\ life' = IF "ops" \in life.launch.taken THEN Exits(1)
             ELSE [life EXCEPT !.ops = TRUE, !.stage = "up"]
  /\ UNCHANGED <<exch, ready>>

---------------------------------------------------------------------------
(* Shutting down *)

\* The handler of the first signal is only installed when everything is up; it
\* removes itself, so that a second signal kills.
Signal ==
  /\ Meets("signals") /\ life.stage \notin {"exited", "stdio"} /\ life.signals < 2
  /\ life' = [(IF Stage("up") THEN Enters("closingOps") ELSE Exits(128))
                EXCEPT !.signals = @ + 1]
  /\ UNCHANGED <<exch, ready>>

\* installHttpsShutdown: the ops listener and its connections, then the
\* transports, then the public listener.
CloseOps ==
  /\ Stage("closingOps")
  /\ life' = [life EXCEPT !.ops = FALSE, !.stage = "closingTransports"]
  /\ ready' = [ready EXCEPT !.asked = FALSE]
  /\ UNCHANGED exch

\* The modern handler and the legacy sessions close; a failure exits at once.
CloseTransports ==
  /\ Stage("closingTransports")
  /\ \/ life' = Enters("closingPublic")
     \/ life' = Exits(1)
  /\ UNCHANGED <<exch, ready>>

\* closeAllConnections destroys the sockets; the exit need not wait until the
\* exchanges have noticed.
ClosePublic ==
  /\ Stage("closingPublic")
  /\ life' = [life EXCEPT !.public = FALSE, !.stage = "closed"]
  /\ exch' = [x \in Exchanges |-> [exch[x] EXCEPT !.conn = IF @ = "open" THEN "cut" ELSE @]]
  /\ UNCHANGED ready

ExitClean ==
  /\ Stage("closed")
  /\ life' = Exits(0)
  /\ UNCHANGED <<exch, ready>>

---------------------------------------------------------------------------
(* An exchange on the public listener *)

Runs(x) == exch[x].stage = "run" /\ ~Stage("exited")
Way(x) == exch[x].way
SetExch(x, e) == exch' = [exch EXCEPT ![x] = e] /\ UNCHANGED <<life, ready>>

\* startHttpsTransport lets the handler attach the local operator.
AllowLocalOperator == Mode = "unauthenticated" /\ BindHost(life.launch) = "loopback"

\* attachHttpAudit, then the route: the identity is bound before anything is
\* answered, or never.
BeginExchange(x) ==
  /\ Meets("exchanges") /\ life.public /\ exch[x].stage = "none"
  /\ \E w \in Ways :
       /\ Mode \in w.modes
       /\ w.bound = "operator" => AllowLocalOperator
       /\ SetExch(x, [exch[x] EXCEPT !.stage = "run", !.way = w])

\* gateAuth has verified the bearer, or attached the local operator.
BindIdentity(x) ==
  /\ Runs(x) /\ Way(x).bound # "" /\ ~exch[x].bound
  /\ SetExch(x, [exch[x] EXCEPT !.bound = TRUE])

\* markHttpAuditToolOutcome: a denial outranks an error, an error a success.
WorseM1(was, now) == now
Worse(was, now) ==
  IF was = "denied" \/ (was = "error" /\ now = "success") THEN was ELSE now

ToolMarks(x, outcome) ==
  /\ Runs(x) /\ exch[x].bound /\ Way(x).tool /\ ~exch[x].ended
  /\ exch[x].head # 0 => Way(x).stream
  /\ outcome \notin exch[x].marks
  /\ SetExch(x, [exch[x] EXCEPT !.outcome = Worse(@, outcome),
                                !.marks = IF exch[x].rows = << >> THEN @ \cup {outcome} ELSE @])

\* The answer: its head, and its end unless it is a stream.
Answers(x) ==
  /\ Runs(x) /\ exch[x].head = 0
  /\ Way(x).bound # "" => exch[x].bound
  /\ Way(x).tool /\ ~Way(x).stream => exch[x].outcome # "none"
  /\ SetExch(x, [exch[x] EXCEPT !.head = Way(x).status, !.ended = ~Way(x).stream])

StreamEnds(x) ==
  /\ exch[x].stage # "none" /\ ~Stage("exited") /\ exch[x].head # 0 /\ ~exch[x].ended
  /\ Way(x).tool => exch[x].outcome # "none"
  /\ SetExch(x, [exch[x] EXCEPT !.ended = TRUE])

Destroyed(e) == [e EXCEPT !.conn = IF @ = "open" THEN "cut" ELSE @]

\* handle ends: the metrics count the status, 200 when none was written.
Count(e) == IF e.head = 0 THEN 200 ELSE e.head
Returned(e) == [e EXCEPT !.stage = "returned", !.counted = Count(e)]
HandlerReturns(x) ==
  /\ Runs(x) /\ (exch[x].head # 0 \/ exch[x].conn # "open")
  /\ SetExch(x, Returned(exch[x]))

\* respondAfterFailure: a 500 if no head is out, else the socket is destroyed.
FailsInside(x) ==
  /\ Runs(x) /\ Way(x).fails = "inside" /\ ~exch[x].ended
  /\ SetExch(x, Returned(IF exch[x].head # 0 THEN Destroyed(exch[x])
                         ELSE [exch[x] EXCEPT !.head = 500, !.ended = TRUE]))

\* handle throws: its finally counts first, then failClosedRequest answers.
HandlerThrows(x) ==
  /\ Runs(x) /\ Way(x).fails = "outside"
  /\ LET e == Returned(exch[x])
     IN  SetExch(x, CASE e.head = 0 -> [e EXCEPT !.head = 500, !.ended = TRUE, !.late = TRUE]
                      [] e.head # 0 /\ ~e.ended -> Destroyed(e)
                      [] OTHER -> e)

\* classifyHttpAuditCode.
IsSuccess(status) == status \in 200..399
Code(e, aborted) ==
  CASE aborted -> "aborted"
    [] ~aborted /\ e.head = 429 -> "rate_limited"
    [] ~aborted /\ e.head = 401 -> IF e.way.bearer THEN "invalid_token" ELSE "unauthenticated"
    [] ~aborted /\ e.head = 403 /\ e.way.refusal \in {"bad_host", "bad_origin"} -> e.way.refusal
    [] ~aborted /\ IsSuccess(e.head) -> "ok"
    [] OTHER -> "forbidden"

\* buildHttpAuditRow: the local operator has neither a principal nor an actor.
Actor(e) ==
  CASE e.bound -> IF e.way.bound = "operator" THEN "" ELSE "principal"
    [] OTHER -> IF e.way.bearer THEN "unverified" ELSE "anonymous"
AuditRow(e, aborted) ==
  [code |-> Code(e, aborted), status |-> IF aborted THEN 0 ELSE e.head,
   who |-> Actor(e), tool |-> e.outcome]

\* writeOnce.
WriteOnce(e, aborted) ==
  IF e.rows # << >> THEN e ELSE [e EXCEPT !.rows = Append(@, AuditRow(e, aborted))]

\* The finish and close events of the response.
Finishes(x) ==
  /\ exch[x].stage # "none" /\ ~Stage("exited")
  /\ exch[x].ended /\ exch[x].conn = "open"
  /\ SetExch(x, [WriteOnce(exch[x], FALSE) EXCEPT !.conn = "sent"])

\* The client leaves, or a kept connection closes.
ClientLeaves(x) ==
  /\ exch[x].stage # "none" /\ ~Stage("exited") /\ exch[x].conn \in {"open", "sent"}
  /\ SetExch(x, [exch[x] EXCEPT !.conn = "cut"])

Closes(x) ==
  /\ exch[x].stage # "none" /\ ~Stage("exited") /\ exch[x].conn = "cut"
  /\ SetExch(x, [WriteOnce(exch[x], exch[x].head = 0)
                  EXCEPT !.conn = "closed", !.left = exch[x].head = 0])

---------------------------------------------------------------------------
(* Readiness *)

SetReady(r) == ready' = r /\ UNCHANGED <<life, exch>>
Probing == ready.probe # NoReadyProbe

\* What an answer shows: how old the issuer's word behind an "ok" is.
Told(r, result) ==
  [r EXCEPT !.lag = IF result.ok THEN Max({@, r.now - result.at}) ELSE @,
            !.shut = @ \/ (result.ok /\ ~life.public), !.asked = FALSE]

\* The checks that ask nobody.
LocalChecksPass == life.launch.scoped /\ life.launch.allowlists
FromCache == ready.now < ready.cache.until

\* createReadyChecker: the cache, the probe under way, or a probe of its own.
\* Without an introspection endpoint, on loopback, there is nothing to ask.
Remembered(r, ok, at) == [r EXCEPT !.cache = [ok |-> ok, until |-> r.now + CacheTime, at |-> at],
                                   !.probe = NoReadyProbe]
AskReady ==
  /\ Meets("probes") /\ life.ops
  /\ SetReady(
       CASE FromCache -> Told(ready, ready.cache)
         [] ~FromCache /\ Probing -> [ready EXCEPT !.asked = TRUE]
         [] ~FromCache /\ ~Probing /\ Mode = "resource_server" ->
              [ready EXCEPT !.asked = TRUE, !.probe = [NoReadyProbe EXCEPT !.since = ready.now, !.said = "asked"],
                            !.sent = @ + 1]
         [] OTHER -> LET r == Remembered(ready, LocalChecksPass, ready.now) IN Told(r, r.cache))

\* The issuer answers the probe; its body is read later.
IssuerSays ==
  /\ ~Stage("exited") /\ ready.probe.said = "asked"
  /\ SetReady([ready EXCEPT !.probe.said = IF ready.up THEN "good" ELSE "bad", !.probe.at = ready.now])

ProbeResult ==
  LET r == Remembered(ready, ready.probe.said = "good" /\ LocalChecksPass, ready.probe.at)
  IN  IF ready.asked THEN Told(r, r.cache) ELSE r

\* The body was read, or the timer aborted the probe.
ReadyProbeEnds ==
  /\ ~Stage("exited") /\ Probing
  /\ \/ ready.probe.said # "asked" /\ SetReady(ProbeResult)
     \/ /\ ready.now = ready.probe.since + ProbeTimeout
        /\ SetReady(LET r == Remembered(ready, FALSE, ready.now)
                    IN  IF ready.asked THEN Told(r, r.cache) ELSE r)

IssuerFlips ==
  /\ Meets("probes") /\ SetReady([ready EXCEPT !.up = ~@])

\* A probe ends within its timeout.
ClockTicks ==
  /\ Meets("probes") /\ ~Stage("exited") /\ ready.now < EndTime
  /\ Probing => ready.now < ready.probe.since + ProbeTimeout
  /\ SetReady([ready EXCEPT !.now = @ + 1])

---------------------------------------------------------------------------

ProcessStarts(l) ==
  /\ life = [launch |-> l, stage |-> "launched", public |-> FALSE, ops |-> FALSE,
             code |-> -1, signals |-> 0]
  /\ exch = [x \in Exchanges |-> Idle]
  /\ ready = [now |-> 0, up |-> TRUE, probe |-> NoReadyProbe, cache |-> NoResult,
              asked |-> FALSE, sent |-> 0, lag |-> 0, shut |-> FALSE]

ProcessInit == \E l \in Launches : ProcessStarts(l)

ProcessNext ==
  \/ Launch \/ Discover \/ Bound \/ OpsBound
  \/ Signal \/ CloseOps \/ CloseTransports \/ ClosePublic \/ ExitClean
  \/ \E x \in Exchanges :
       \/ BeginExchange(x) \/ BindIdentity(x) \/ Answers(x) \/ StreamEnds(x)
       \/ \E outcome \in {"success", "error", "denied"} : ToolMarks(x, outcome)
       \/ FailsInside(x) \/ HandlerReturns(x) \/ HandlerThrows(x)
       \/ Finishes(x) \/ ClientLeaves(x) \/ Closes(x)
  \/ AskReady \/ IssuerSays \/ ReadyProbeEnds \/ IssuerFlips \/ ClockTicks

ProcessSpec == ProcessInit /\ [][ProcessNext]_processVars

---------------------------------------------------------------------------
(* Properties *)

\* Who can reach the process is who the operator let in: beyond loopback the
\* public listener has TLS, a complete resource server whose issuer it has read,
\* and a scope for every tool; it serves the unnamed local operator on loopback
\* alone; not every secret it names is missing.  The ops listener is on loopback
\* or the mesh, only beside the public one, and a clean exit leaves neither.
\* (index.js:343, http-auth.js:1098, ops-bind.js:58)
ServesOnlyAsAllowed ==
  LET l == life.launch
  IN  /\ life.public =>
           /\ l.scoped /\ (l.named = {} \/ l.named \ Unset(l) # {})
           /\ BindHost(l) # "loopback" => l.tls = "good" /\ CompleteServer \subseteq l.auth.set
           /\ CompleteServer \subseteq l.auth.set => l.auth.https /\ l.auth.discovered
      /\ \A x \in Exchanges :
           exch[x].bound /\ Way(x).bound = "operator" => BindHost(l) = "loopback" /\ l.auth.set = {}
      /\ life.ops => life.public /\ OpsSpec(l) \in {"loopback", "mesh"}
      /\ life.code = 0 => ~life.public /\ ~life.ops

\* The worst that an exchange's tool calls met.
WorstOf(marks) ==
  IF "denied" \in marks THEN "denied" ELSE IF "error" \in marks THEN "error"
  ELSE IF "success" \in marks THEN "success" ELSE "none"

\* The operators are told the truth.  An exchange whose end was noticed has one
\* row: the status its client was sent, or that it left before there was one;
\* who had been verified; and the worst its tool calls met.  The metrics counted
\* the same status, unless the client left or the handler threw.  "Ready" is
\* said while the public listener is open, on a word of the issuer that is no
\* older than one probe and one cache time, and the issuer is asked at most once
\* in a cache time.  (http-audit.js:4, ops-ready.js:7)
RowIsTrue(e) ==
  LET row == e.rows[1]
  IN  /\ Len(e.rows) = 1
      /\ row.status \in {0, e.head}
      /\ row.status = 0 <=> e.left
      /\ row.code = "aborted" <=> e.left
      /\ row.code = "ok" <=> IsSuccess(row.status)
      /\ row.who = "principal" => e.bound /\ e.way.bound = "user"
      /\ row.status = 200 => row.tool = WorstOf(e.marks)
      /\ e.counted # 0 /\ ~e.late /\ row.status # 0 => e.counted = row.status

OperatorsAreToldTheTruth ==
  /\ \A x \in Exchanges : exch[x].conn \in {"sent", "closed"} => RowIsTrue(exch[x])
  /\ ready.lag < CacheTime + ProbeTimeout
  /\ ~ready.shut
  /\ ready.sent <= 1 + ready.now \div CacheTime
=============================================================================
