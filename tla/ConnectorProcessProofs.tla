----------------------- MODULE ConnectorProcessProofs -----------------------
(***************************************************************************)
(* The safety of the server process, for every launch, number of           *)
(* exchanges, way an exchange goes, and cache and probe times; and, in the *)
(* second half, the truth of the reports it serves, for every site, page   *)
(* and sample size, plan of reports, and whatever editors do meanwhile.    *)
(*                                                                         *)
(* Three invariants that hardly need each other:                           *)
(*                                                                         *)
(* The stage of the process tells what was checked: past the launch,       *)
(* nothing it refuses; past the discovery, that the issuer was read; and   *)
(* a listener is open in its own stages only (LifeInv).  An exchange is    *)
(* bound to the operator only where the mode of the launch allows it.      *)
(*                                                                         *)
(* An exchange's row is written once, when its response finished or its    *)
(* connection closed; the head it tells is out by then, or the client has  *)
(* left without it.  Until then the outcome is the worst of the tool calls *)
(* (ExchangeInv).                                                          *)
(*                                                                         *)
(* The issuer's word is as old as the start of the probe at most, and the  *)
(* cache ends one cache time after the probe's end.  Each probe begins     *)
(* when the cache of the one before has ended, so the probes sent are at   *)
(* least a cache time apart (ReadyInv).                                    *)
(*                                                                         *)
(* A report is believed because, while it reads, every row it holds that   *)
(* nobody touched is the site's (RowsRead), every answer it took is on     *)
(* record (RowsAsked), and nothing before its place is unknown to it but   *)
(* what it will admit (NothingMissed).                                     *)
(***************************************************************************)
EXTENDS ConnectorProcess, Reports, FiniteSetTheorems, SequenceTheorems, TLAPS

Stages == {"launched", "stdio", "discovering", "binding", "opsBinding", "up", "closingOps",
           "closingTransports", "closingPublic", "closed", "exited"}
Codes == {"aborted", "rate_limited", "invalid_token", "unauthenticated", "bad_host",
          "bad_origin", "ok", "forbidden"}
Actors == {"", "principal", "unverified", "anonymous"}
Outcomes == {"success", "error", "denied"}
Row == [code : Codes, status : Nat, who : Actors, tool : Outcomes \cup {"none"}]

Life ==
  [launch : Launches, stage : Stages, public : BOOLEAN, ops : BOOLEAN,
   code : {-1, 0, 1, 128}, signals : 0..2]
Exchange ==
  [stage : {"none", "run", "returned"}, way : Ways \cup {""},
   conn : {"open", "sent", "cut", "closed"}, head : Nat, ended : BOOLEAN, bound : BOOLEAN,
   outcome : Outcomes \cup {"none"}, rows : Seq(Row), counted : Nat, left : BOOLEAN,
   late : BOOLEAN, marks : SUBSET Outcomes]
ReadyProbe == [since : Nat, at : Nat, said : {"none", "asked", "good", "bad"}]
Ready ==
  [now : Nat, up : BOOLEAN, probe : ReadyProbe, cache : [ok : BOOLEAN, until : Nat, at : Nat],
   asked : BOOLEAN, sent : Nat, lag : Int, shut : BOOLEAN]

---------------------------------------------------------------------------
(* The process *)

Listening == {"binding", "opsBinding", "up", "closingOps", "closingTransports",
              "closingPublic", "closed"}

\* Past the launch, no check had refused.
NotRefused ==
  life.stage \in Listening \cup {"discovering"} =>
    ~Refused(life.launch) /\ life.launch.transport # "stdio"

\* From binding on, the certificates were read, and the issuer where there is one.
ServerBuilt ==
  life.stage \in Listening =>
    /\ NodeServer(life.launch)
    /\ Mode = "resource_server" => Discovered(life.launch)

\* The public listener opens first and closes last.
ListensInTurn ==
  /\ life.public =>
       life.stage \in {"opsBinding", "up", "closingOps", "closingTransports", "closingPublic"}
  /\ life.ops => /\ life.public /\ life.stage \in {"up", "closingOps"}
                 /\ OpsListen(life.launch) = "on"
  /\ life.stage = "opsBinding" => life.public /\ OpsListen(life.launch) = "on"
  /\ life.code # -1 => life.stage = "exited"

LifeInv == life \in Life /\ NotRefused /\ ServerBuilt /\ ListensInTurn

---------------------------------------------------------------------------
(* An exchange *)

\* An exchange that has not begun has shown nothing.
Untouched(e) ==
  e.stage = "none" =>
    /\ e.head = 0 /\ ~e.ended /\ ~e.bound /\ e.rows = << >> /\ e.counted = 0
    /\ e.outcome = "none" /\ e.marks = {} /\ ~e.late /\ ~e.left

\* One that has begun goes one way, and knows no other identity than that way's.
GoesItsWay(e) ==
  /\ e.stage # "none" => e.way \in Ways
  /\ e.bound => e.way.bound # ""
  /\ e.ended => e.head # 0

\* The row is written when the end is noticed, once.
RowInTime(e) ==
  /\ e.conn = "open" => e.rows = << >>
  /\ e.conn \in {"sent", "closed"} => e.rows # << >>
  /\ e.left => e.rows # << >> /\ e.conn = "closed"
  /\ e.rows # << >> => RowIsTrue(e)
  /\ e.rows = << >> => e.outcome = WorstOf(e.marks)

\* The handler's status is counted when it returns; no head comes after it,
\* unless the handler threw.
CountedAtReturn(e) ==
  /\ e.counted # 0 <=> e.stage = "returned"
  /\ e.counted # 0 /\ ~e.late => e.head \in {0, e.counted}

ExchangeInv(e) ==
  e \in Exchange /\ Untouched(e) /\ GoesItsWay(e) /\ RowInTime(e) /\ CountedAtReturn(e)

\* The operator's identity is attached only where nobody else can be asked for.
OperatorIsLocal ==
  \A x \in Exchanges :
    exch[x].stage # "none" /\ Way(x).bound = "operator" => AllowLocalOperator

ExchangesInv ==
  /\ exch \in [Exchanges -> Exchange]
  /\ \A x \in Exchanges : ExchangeInv(exch[x])
  /\ OperatorIsLocal

---------------------------------------------------------------------------
(* Readiness *)

\* A probe is at most ProbeTimeout old, and the issuer's word no older than it.
ProbeIsYoung ==
  /\ Probing <=> ready.probe.said # "none"
  /\ Probing => ready.probe.since <= ready.now /\ ready.now <= ready.probe.since + ProbeTimeout
  /\ ready.probe.said \in {"good", "bad"} =>
       ready.probe.since <= ready.probe.at /\ ready.probe.at <= ready.now

CacheIsYoung ==
  /\ ready.cache.until <= ready.now + CacheTime
  /\ ready.cache.ok =>
       /\ ready.cache.at <= ready.now
       /\ ready.cache.until <= ready.cache.at + CacheTime + ProbeTimeout

\* The probes are a cache time apart.
ProbesApart ==
  IF Probing THEN ready.sent \in Nat \ {0} /\ (ready.sent - 1) * CacheTime <= ready.probe.since
  ELSE ready.sent * CacheTime <= ready.cache.until

\* Whoever waits for an answer asked on the operators' listener.
AskedOverOps == ready.asked => life.ops \/ Stage("exited")

ReadyInv ==
  /\ ready \in Ready /\ ProbeIsYoung /\ CacheIsYoung /\ ProbesApart /\ AskedOverOps
  /\ ready.lag < CacheTime + ProbeTimeout /\ ~ready.shut

ProcessInv == LifeInv /\ ExchangesInv /\ ReadyInv

---------------------------------------------------------------------------
(* The stages of the process *)

\* What Enters and Exits write.
LEMMA EntersShape ==
  ASSUME life \in Life, NEW s \in Stages
  PROVE  /\ Enters(s) \in Life /\ Enters(s).stage = s /\ Enters(s).launch = life.launch
         /\ Enters(s).public = life.public /\ Enters(s).ops = life.ops
         /\ Enters(s).code = life.code /\ Enters(s).signals = life.signals
BY DEF Life, Enters

\* A process that exits has no listener left.
LEMMA ExitsShape ==
  ASSUME life \in Life, NEW code \in {0, 1, 128}
  PROVE  /\ Exits(code) \in Life /\ Exits(code).stage = "exited"
         /\ Exits(code).launch = life.launch /\ Exits(code).signals = life.signals
         /\ ~Exits(code).public /\ ~Exits(code).ops
<1>1. "exited" \in Stages
  BY DEF Stages
<1> QED BY <1>1 DEF Life, Exits

\* An exit keeps the invariant, wherever it happens.
LEMMA ExitKeeps ==
  ASSUME LifeInv, life' \in Life, life'.stage = "exited", ~life'.public, ~life'.ops
  PROVE  LifeInv'
BY DEF LifeInv, NotRefused, ServerBuilt, ListensInTurn, Listening

\* A stage that is entered keeps it when what it stands for was checked.
LEMMA EnterKeeps ==
  ASSUME LifeInv, life' \in Life, life'.launch = life.launch,
         life'.code = life.code, life.stage # "exited",
         life'.stage \in Listening \cup {"discovering"} =>
           ~Refused(life.launch) /\ life.launch.transport # "stdio",
         life'.stage \in Listening =>
           /\ NodeServer(life.launch)
           /\ Mode = "resource_server" => Discovered(life.launch),
         life'.public =>
           life'.stage \in {"opsBinding", "up", "closingOps", "closingTransports", "closingPublic"},
         life'.ops => /\ life'.public /\ life'.stage \in {"up", "closingOps"}
                      /\ OpsListen(life.launch) = "on",
         life'.stage = "opsBinding" => life'.public /\ OpsListen(life.launch) = "on"
  PROVE  LifeInv'
BY DEF LifeInv, NotRefused, ServerBuilt, ListensInTurn, Mode

\* createNodeServer: the process binds, or exits.
LEMMA NextStageKeeps ==
  ASSUME LifeInv, life' = NextStage(life.launch), life.stage \in {"launched", "discovering"},
         ~Refused(life.launch), life.launch.transport # "stdio",
         Mode = "resource_server" => Discovered(life.launch)
  PROVE  LifeInv'
<1>t. life \in Life /\ "binding" \in Stages
  BY DEF LifeInv, Stages
<1>1. CASE NodeServer(life.launch)
  <2>1. life' = Enters("binding")
    BY <1>1 DEF NextStage
  <2>2. /\ life' \in Life /\ life'.stage = "binding" /\ life'.launch = life.launch
        /\ life'.public = life.public /\ life'.ops = life.ops /\ life'.code = life.code
    BY <1>t, <2>1, EntersShape
  <2>3. ~life.public /\ ~life.ops
    BY DEF LifeInv, ListensInTurn
  <2> QED BY <1>1, <2>2, <2>3, EnterKeeps DEF Listening
<1>2. CASE ~NodeServer(life.launch)
  <2>1. life' = Exits(1)
    BY <1>2 DEF NextStage
  <2> QED BY <1>t, <2>1, ExitsShape, ExitKeeps
<1> QED BY <1>1, <1>2

\* Every step of the process keeps what its stage stands for.
LEMMA LifeStep == LifeInv /\ [ProcessNext]_processVars => LifeInv'
<1> SUFFICES ASSUME LifeInv, [ProcessNext]_processVars PROVE LifeInv'
  OBVIOUS
<1>t. life \in Life
  BY DEF LifeInv
<1>s. {"stdio", "discovering", "opsBinding", "up", "closingOps", "closingTransports",
       "closingPublic", "closed"} \subseteq Stages
  BY DEF Stages
<1>u. ASSUME UNCHANGED life PROVE LifeInv'
  BY <1>u DEF LifeInv, NotRefused, ServerBuilt, ListensInTurn, Mode
<1>1. CASE Launch
  <2>0. life.stage = "launched"
    BY <1>1 DEF Launch, Stage
  <2>1. CASE Refused(life.launch)
    <3>1. life' = Exits(1)
      BY <1>1, <2>1 DEF Launch
    <3> QED BY <1>t, <3>1, ExitsShape, ExitKeeps
  <2>2. CASE ~Refused(life.launch) /\ life.launch.transport = "stdio"
    <3>1. life' = Enters("stdio")
      BY <1>1, <2>2 DEF Launch
    <3>2. ~life.public /\ ~life.ops
      BY <2>0 DEF LifeInv, ListensInTurn
    <3> QED BY <1>t, <1>s, <2>0, <3>1, <3>2, EntersShape, EnterKeeps DEF Listening
  <2>3. CASE ~Refused(life.launch) /\ life.launch.transport # "stdio" /\ Mode = "resource_server"
    <3>1. life' = Enters("discovering")
      BY <1>1, <2>3 DEF Launch
    <3>2. ~life.public /\ ~life.ops
      BY <2>0 DEF LifeInv, ListensInTurn
    <3> QED BY <1>t, <1>s, <2>0, <2>3, <3>1, <3>2, EntersShape, EnterKeeps DEF Listening
  <2>4. CASE ~Refused(life.launch) /\ life.launch.transport # "stdio" /\ Mode # "resource_server"
    <3>1. life' = NextStage(life.launch)
      BY <1>1, <2>4 DEF Launch
    <3> QED BY <2>0, <2>4, <3>1, NextStageKeeps
  <2> QED BY <2>1, <2>2, <2>3, <2>4
<1>2. CASE Discover
  <2>0. life.stage = "discovering" /\ ~Refused(life.launch) /\ life.launch.transport # "stdio"
    BY <1>2 DEF Discover, Stage, LifeInv, NotRefused
  <2>1. CASE Discovered(life.launch)
    BY <1>2, <2>0, <2>1, NextStageKeeps DEF Discover
  <2>2. CASE ~Discovered(life.launch)
    <3>1. life' = Exits(1)
      BY <1>2, <2>2 DEF Discover
    <3> QED BY <1>t, <3>1, ExitsShape, ExitKeeps
  <2> QED BY <2>1, <2>2
<1>c. ASSUME life.stage \in Listening
      PROVE  /\ ~Refused(life.launch) /\ life.launch.transport # "stdio"
             /\ NodeServer(life.launch)
             /\ Mode = "resource_server" => Discovered(life.launch)
  BY <1>c DEF LifeInv, NotRefused, ServerBuilt
<1>3. CASE Bound
  <2>0. life.stage = "binding" /\ ~life.public /\ ~life.ops /\ life.stage \in Listening
    BY <1>3 DEF Bound, Stage, LifeInv, ListensInTurn, Listening
  <2>1. CASE "public" \in life.launch.taken
    <3>1. life' = Exits(1)
      BY <1>3, <2>1 DEF Bound
    <3> QED BY <1>t, <3>1, ExitsShape, ExitKeeps
  <2>2. CASE "public" \notin life.launch.taken
    <3> DEFINE s == IF OpsListen(life.launch) = "on" THEN "opsBinding" ELSE "up"
               q == [life EXCEPT !.public = TRUE, !.stage = s]
    <3>1. life' = q
      BY <1>3, <2>2 DEF Bound
    <3>2. s \in Stages
      BY <1>s
    <3>3. /\ q \in Life /\ q.stage = s /\ q.launch = life.launch
          /\ q.public /\ q.ops = life.ops /\ q.code = life.code
      <4> HIDE DEF s
      <4> QED BY <1>t, <3>2 DEF Life
    <3> HIDE DEF q
    <3> QED BY <1>c, <2>0, <3>1, <3>3, EnterKeeps
  <2> QED BY <2>1, <2>2
<1>4. CASE OpsBound
  <2>0. life.stage = "opsBinding" /\ life.stage \in Listening
    BY <1>4 DEF OpsBound, Stage, Listening
  <2>1. CASE "ops" \in life.launch.taken
    <3>1. life' = Exits(1)
      BY <1>4, <2>1 DEF OpsBound
    <3> QED BY <1>t, <3>1, ExitsShape, ExitKeeps
  <2>2. CASE "ops" \notin life.launch.taken
    <3> DEFINE q == [life EXCEPT !.ops = TRUE, !.stage = "up"]
    <3>1. life' = q
      BY <1>4, <2>2 DEF OpsBound
    <3>2. /\ q \in Life /\ q.stage = "up" /\ q.launch = life.launch
          /\ q.public = life.public /\ q.ops /\ q.code = life.code
      BY <1>t, <1>s DEF Life
    <3>3. life.public /\ OpsListen(life.launch) = "on"
      BY <2>0 DEF LifeInv, ListensInTurn
    <3> HIDE DEF q
    <3> QED BY <1>c, <2>0, <3>1, <3>2, <3>3, EnterKeeps
  <2> QED BY <2>1, <2>2
<1>5. CASE Signal
  <2> DEFINE r == IF Stage("up") THEN Enters("closingOps") ELSE Exits(128)
             q == [r EXCEPT !.signals = @ + 1]
  <2>0. life' = q /\ life.signals < 2 /\ life.stage # "exited"
    BY <1>5 DEF Signal
  <2>1. CASE life.stage = "up"
    <3>1. r = Enters("closingOps")
      BY <2>1 DEF Stage
    <3>2. /\ r \in Life /\ r.stage = "closingOps" /\ r.launch = life.launch
          /\ r.public = life.public /\ r.ops = life.ops /\ r.code = life.code
          /\ r.signals \in {0, 1}
      BY <1>t, <1>s, <2>0, <3>1, EntersShape DEF Life
    <3> HIDE DEF r
    <3>3. /\ q \in Life /\ q.stage = "closingOps" /\ q.launch = life.launch
          /\ q.public = life.public /\ q.ops = life.ops /\ q.code = life.code
      BY <3>2 DEF Life
    <3>4. life.ops => life.public /\ OpsListen(life.launch) = "on"
      BY DEF LifeInv, ListensInTurn
    <3> HIDE DEF q
    <3> QED BY <1>c, <2>0, <2>1, <3>3, <3>4, EnterKeeps DEF Listening
  <2>2. CASE life.stage # "up"
    <3>1. r = Exits(128)
      BY <2>2 DEF Stage
    <3>2. /\ r \in Life /\ r.stage = "exited" /\ ~r.public /\ ~r.ops /\ r.signals \in {0, 1}
      BY <1>t, <2>0, <3>1, ExitsShape DEF Life
    <3> HIDE DEF r
    <3>3. q \in Life /\ q.stage = "exited" /\ ~q.public /\ ~q.ops
      BY <3>2 DEF Life
    <3> HIDE DEF q
    <3> QED BY <2>0, <3>3, ExitKeeps
  <2> QED BY <2>1, <2>2
<1>6. CASE CloseOps
  <2> DEFINE q == [life EXCEPT !.ops = FALSE, !.stage = "closingTransports"]
  <2>1. life' = q /\ life.stage = "closingOps" /\ life.stage \in Listening
    BY <1>6 DEF CloseOps, Stage, Listening
  <2>2. /\ q \in Life /\ q.stage = "closingTransports" /\ q.launch = life.launch
        /\ q.public = life.public /\ ~q.ops /\ q.code = life.code
    BY <1>t, <1>s DEF Life
  <2> HIDE DEF q
  <2> QED BY <1>c, <2>1, <2>2, EnterKeeps
<1>7. CASE CloseTransports
  <2>0. life.stage = "closingTransports" /\ life.stage \in Listening /\ ~life.ops
    BY <1>7 DEF CloseTransports, Stage, Listening, LifeInv, ListensInTurn
  <2>1. CASE life' = Enters("closingPublic")
    BY <1>t, <1>s, <1>c, <2>0, <2>1, EntersShape, EnterKeeps
  <2>2. CASE life' = Exits(1)
    BY <1>t, <2>2, ExitsShape, ExitKeeps
  <2> QED BY <1>7, <2>1, <2>2 DEF CloseTransports
<1>8. CASE ClosePublic
  <2> DEFINE q == [life EXCEPT !.public = FALSE, !.stage = "closed"]
  <2>1. life' = q /\ life.stage = "closingPublic" /\ life.stage \in Listening /\ ~life.ops
    BY <1>8 DEF ClosePublic, Stage, Listening, LifeInv, ListensInTurn
  <2>2. /\ q \in Life /\ q.stage = "closed" /\ q.launch = life.launch
        /\ ~q.public /\ q.ops = life.ops /\ q.code = life.code
    BY <1>t, <1>s DEF Life
  <2> HIDE DEF q
  <2> QED BY <1>c, <2>1, <2>2, EnterKeeps
<1>9. CASE ExitClean
  <2>1. life' = Exits(0)
    BY <1>9 DEF ExitClean
  <2> QED BY <1>t, <2>1, ExitsShape, ExitKeeps
<1>10. ASSUME NEW x \in Exchanges,
              \/ BeginExchange(x) \/ BindIdentity(x) \/ Answers(x) \/ StreamEnds(x)
              \/ \E outcome \in {"success", "error", "denied"} : ToolMarks(x, outcome)
              \/ FailsInside(x) \/ HandlerReturns(x) \/ HandlerThrows(x)
              \/ Finishes(x) \/ ClientLeaves(x) \/ Closes(x)
       PROVE  UNCHANGED life
  BY <1>10 DEF BeginExchange, BindIdentity, Answers, StreamEnds, ToolMarks, FailsInside,
               HandlerReturns, HandlerThrows, Finishes, ClientLeaves, Closes, SetExch
<1>11. ASSUME AskReady \/ IssuerSays \/ ReadyProbeEnds \/ IssuerFlips \/ ClockTicks
       PROVE  UNCHANGED life
  BY <1>11 DEF AskReady, IssuerSays, ReadyProbeEnds, IssuerFlips, ClockTicks, SetReady
<1>12. CASE UNCHANGED processVars
  BY <1>12, <1>u DEF processVars
<1> QED
  BY <1>1, <1>2, <1>3, <1>4, <1>5, <1>6, <1>7, <1>8, <1>9, <1>10, <1>11, <1>12, <1>u
     DEF ProcessNext

---------------------------------------------------------------------------
(* The exchanges *)

\* A step of one exchange touches no other.
LEMMA ExchangeMoves ==
  ASSUME ExchangesInv, NEW x \in Exchanges, NEW q, SetExch(x, q), ExchangeInv(q),
         q.stage # "none" /\ q.way.bound = "operator" => AllowLocalOperator
  PROVE  ExchangesInv'
<1>1. exch' = [exch EXCEPT ![x] = q] /\ UNCHANGED life
  BY DEF SetExch
<1>2. exch \in [Exchanges -> Exchange] /\ q \in Exchange
  BY DEF ExchangesInv, ExchangeInv
<1>3. exch' \in [Exchanges -> Exchange]
  BY <1>1, <1>2
<1>4. ASSUME NEW y \in Exchanges PROVE ExchangeInv(exch'[y])
  <2>1. exch'[y] = IF y = x THEN q ELSE exch[y]
    BY <1>1, <1>2
  <2> QED BY <2>1 DEF ExchangesInv
<1>5. OperatorIsLocal'
  <2>1. ASSUME NEW y \in Exchanges, exch'[y].stage # "none", exch'[y].way.bound = "operator"
        PROVE  AllowLocalOperator
    <3>1. exch'[y] = IF y = x THEN q ELSE exch[y]
      BY <1>1, <1>2
    <3> QED BY <2>1, <3>1 DEF ExchangesInv, OperatorIsLocal, Way
  <2> QED BY <1>1, <2>1 DEF OperatorIsLocal, Way, AllowLocalOperator, Mode
<1> QED BY <1>3, <1>4, <1>5 DEF ExchangesInv

\* A row stays true while what it tells does not change.
LEMMA RowKept ==
  ASSUME NEW e, NEW q, RowIsTrue(e), q.rows = e.rows, q.left = e.left, q.way = e.way,
         e.bound => q.bound, q.marks = e.marks, e.head # 0 => q.head = e.head,
         q.counted # 0 /\ ~q.late /\ e.rows[1].status # 0 => q.counted = e.rows[1].status
  PROVE  RowIsTrue(q)
BY DEF RowIsTrue

\* One more tool call: the worst so far, or this one.
LEMMA WorseIsWorst ==
  ASSUME NEW marks \in SUBSET Outcomes, NEW now \in Outcomes
  PROVE  /\ Worse(WorstOf(marks), now) = WorstOf(marks \cup {now})
         /\ WorstOf(marks) \in Outcomes \cup {"none"}
BY DEF Worse, WorstOf, Outcomes

\* The row that is written says what the exchange has been.
LEMMA RowWritten ==
  ASSUME NEW e, ExchangeInv(e), e.way \in Ways, e.rows = << >>, NEW aborted \in BOOLEAN,
         ~aborted => e.head # 0
  PROVE  LET row == AuditRow(e, aborted)
         IN  /\ row \in Row
             /\ WriteOnce(e, aborted) = [e EXCEPT !.rows = <<row>>]
             /\ row.status = IF aborted THEN 0 ELSE e.head
             /\ row.code = "aborted" <=> aborted
             /\ row.code = "ok" <=> IsSuccess(row.status)
             /\ row.who = "principal" => e.bound /\ e.way.bound = "user"
             /\ row.tool = WorstOf(e.marks)
<1> DEFINE row == AuditRow(e, aborted)
<1>1. e \in Exchange
  BY DEF ExchangeInv
<1>2. /\ Code(e, aborted) \in Codes
      /\ Code(e, aborted) = "aborted" <=> aborted
      /\ Code(e, aborted) = "ok" <=> ~aborted /\ IsSuccess(e.head)
  <2>0. ~IsSuccess(429) /\ ~IsSuccess(401) /\ ~IsSuccess(403)
    BY DEF IsSuccess
  <2>1. CASE aborted
    <3>1. Code(e, aborted) = "aborted"
      BY <2>1 DEF Code
    <3> QED BY <2>1, <3>1 DEF Codes
  <2>2. CASE ~aborted /\ e.head = 429
    <3>1. Code(e, aborted) = "rate_limited"
      BY <2>0, <2>2 DEF Code
    <3> QED BY <2>0, <2>2, <3>1 DEF Codes
  <2>3. CASE ~aborted /\ e.head = 401
    <3>1. Code(e, aborted) \in {"invalid_token", "unauthenticated"}
      BY <2>0, <2>3 DEF Code
    <3> QED BY <2>0, <2>3, <3>1 DEF Codes
  <2>4. CASE ~aborted /\ e.head = 403 /\ e.way.refusal \in {"bad_host", "bad_origin"}
    <3>1. Code(e, aborted) \in {"bad_host", "bad_origin"}
      BY <2>0, <2>4 DEF Code
    <3> QED BY <2>0, <2>4, <3>1 DEF Codes
  <2>5. CASE ~aborted /\ IsSuccess(e.head)
    <3>1. Code(e, aborted) = "ok"
      BY <2>0, <2>5 DEF Code
    <3> QED BY <2>5, <3>1 DEF Codes
  <2>6. CASE /\ ~aborted /\ e.head \notin {429, 401} /\ ~IsSuccess(e.head)
             /\ ~(e.head = 403 /\ e.way.refusal \in {"bad_host", "bad_origin"})
    <3>1. Code(e, aborted) = "forbidden"
      BY <2>6 DEF Code
    <3> QED BY <2>6, <3>1 DEF Codes
  <2> QED BY <2>1, <2>2, <2>3, <2>4, <2>5, <2>6
<1>3. /\ Actor(e) \in Actors
      /\ Actor(e) = "principal" => e.bound /\ e.way.bound = "user"
  <2>1. e.way.bound \in {"", "user", "operator"}
    BY ProcessAssumption DEF ProcessAssumption
  <2>2. e.bound => e.way.bound # ""
    BY DEF ExchangeInv, GoesItsWay
  <2> QED BY <2>1, <2>2 DEF Actor, Actors
<1>4. e.outcome = WorstOf(e.marks) /\ e.outcome \in Outcomes \cup {"none"} /\ e.head \in Nat
  BY <1>1 DEF ExchangeInv, RowInTime, Exchange
<1>5. row = [code |-> Code(e, aborted), status |-> IF aborted THEN 0 ELSE e.head,
             who |-> Actor(e), tool |-> e.outcome]
  BY DEF AuditRow
<1>6. WriteOnce(e, aborted) = [e EXCEPT !.rows = <<row>>]
  <2>1. WriteOnce(e, aborted) = [e EXCEPT !.rows = Append(@, row)]
    BY DEF WriteOnce
  <2>2. Append(e.rows, row) = <<row>>
    OBVIOUS
  <2> HIDE DEF row
  <2> QED BY <2>1, <2>2
<1>7. row \in Row
  BY <1>2, <1>3, <1>4, <1>5 DEF Row
<1>8. ~IsSuccess(0)
  BY DEF IsSuccess
<1> QED BY <1>2, <1>3, <1>4, <1>5, <1>6, <1>7, <1>8

\* A step that writes no row keeps the invariant when it takes no head and no
\* identity back, and the handler counts what it answered.
LEMMA NoRowWritten ==
  ASSUME NEW e, NEW q, ExchangeInv(e), q \in Exchange, e.stage # "none", q.stage # "none",
         q.rows = e.rows, q.left = e.left, q.way = e.way,
         e.bound => q.bound, q.bound => q.way.bound # "", q.ended => q.head # 0,
         q.conn = e.conn \/ (q.conn = "cut" /\ e.conn \in {"open", "sent"}),
         e.rows # << >> => q.marks = e.marks,
         e.rows = << >> => q.outcome = WorstOf(q.marks),
         e.head # 0 => q.head = e.head, CountedAtReturn(q)
  PROVE  ExchangeInv(q)
<1>1. ASSUME e.rows # << >> PROVE RowIsTrue(q)
  <2>1. RowIsTrue(e) /\ e.rows[1].status \in {0, e.head}
    BY <1>1 DEF ExchangeInv, RowInTime, RowIsTrue
  <2>2. q.counted # 0 /\ ~q.late /\ e.rows[1].status # 0 => q.counted = e.rows[1].status
    BY <2>1 DEF CountedAtReturn
  <2> QED BY <1>1, <2>1, <2>2, RowKept
<1>2. RowInTime(q)
  BY <1>1 DEF ExchangeInv, RowInTime
<1>3. Untouched(q) /\ GoesItsWay(q)
  BY DEF ExchangeInv, Untouched, GoesItsWay
<1> QED BY <1>2, <1>3 DEF ExchangeInv

\* What e becomes when the end of its response or of its connection is noticed.
Noticed(e, q, aborted, conn) ==
  \/ q = [WriteOnce(e, aborted) EXCEPT !.conn = conn, !.left = aborted]
  \/ ~aborted /\ q = [WriteOnce(e, aborted) EXCEPT !.conn = conn]

\* The row is written at the end of a response, or of its connection.
LEMMA RowIsWritten ==
  ASSUME NEW e, NEW q, NEW aborted \in BOOLEAN, NEW conn \in {"sent", "closed"},
         ExchangeInv(e), e.stage # "none", e.rows = << >>, aborted <=> e.head = 0,
         aborted => conn = "closed",
         Noticed(e, q, aborted, conn)
  PROVE  ExchangeInv(q) /\ q.stage = e.stage /\ q.way = e.way
<1> DEFINE row == AuditRow(e, aborted)
<1>1. e \in Exchange /\ e.way \in Ways
  BY DEF ExchangeInv, GoesItsWay
<1>2. /\ row \in Row /\ row.status = (IF aborted THEN 0 ELSE e.head)
      /\ row.code = "aborted" <=> aborted
      /\ row.code = "ok" <=> IsSuccess(row.status)
      /\ row.who = "principal" => e.bound /\ e.way.bound = "user"
      /\ row.tool = WorstOf(e.marks)
      /\ WriteOnce(e, aborted) = [e EXCEPT !.rows = <<row>>]
  BY <1>1, RowWritten
<1> HIDE DEF row
<1>3. <<row>> \in Seq(Row) /\ <<row>> # << >> /\ <<row>>[1] = row /\ Len(<<row>>) = 1
  BY <1>2
<1> DEFINE r == <<row>>
<1>4. /\ \/ q = [[e EXCEPT !.rows = r] EXCEPT !.conn = conn, !.left = aborted]
         \/ ~aborted /\ q = [[e EXCEPT !.rows = r] EXCEPT !.conn = conn]
      /\ e.left = FALSE
  <2>1. WriteOnce(e, aborted) = [e EXCEPT !.rows = r]
    BY <1>2
  <2>2. e.left = FALSE
    BY <1>1 DEF ExchangeInv, RowInTime, Exchange
  <2> HIDE DEF r
  <2> QED BY <2>1, <2>2 DEF Noticed
<1>5. r \in Seq(Row) /\ r # << >> /\ r[1] = row /\ Len(r) = 1
  BY <1>3
<1> HIDE DEF r
<1>6. /\ q \in Exchange /\ q.rows = r /\ q.conn = conn /\ q.left = aborted
      /\ q.stage = e.stage /\ q.way = e.way /\ q.head = e.head /\ q.ended = e.ended
      /\ q.bound = e.bound /\ q.outcome = e.outcome /\ q.counted = e.counted
      /\ q.late = e.late /\ q.marks = e.marks
  <2> DEFINE w == [e EXCEPT !.rows = r]
  <2>1. /\ w \in Exchange /\ w.rows = r /\ w.left = e.left /\ w.stage = e.stage
        /\ w.way = e.way /\ w.head = e.head /\ w.ended = e.ended /\ w.bound = e.bound
        /\ w.outcome = e.outcome /\ w.counted = e.counted /\ w.late = e.late
        /\ w.marks = e.marks
    BY ONLY <1>1, <1>5 DEF Exchange
  <2>2. \/ q = [w EXCEPT !.conn = conn, !.left = aborted]
        \/ ~aborted /\ q = [w EXCEPT !.conn = conn]
    BY <1>4
  <2> HIDE DEF w
  <2>3. CASE q = [w EXCEPT !.conn = conn, !.left = aborted]
    BY ONLY <2>1, <2>3, conn \in {"sent", "closed"}, aborted \in BOOLEAN DEF Exchange
  <2>4. CASE ~aborted /\ q = [w EXCEPT !.conn = conn]
    BY ONLY <1>4, <2>1, <2>4, conn \in {"sent", "closed"}, aborted \in BOOLEAN DEF Exchange
  <2> QED BY <2>2, <2>3, <2>4
<1>7. CountedAtReturn(q) /\ Untouched(q) /\ GoesItsWay(q)
  BY <1>6 DEF ExchangeInv, CountedAtReturn, Untouched, GoesItsWay
<1>8. RowIsTrue(q)
  <2>1. e.head \in Nat
    BY <1>1 DEF Exchange
  <2> QED BY <1>2, <1>5, <1>6, <1>7, <2>1 DEF RowIsTrue, CountedAtReturn
<1>9. RowInTime(q)
  BY <1>5, <1>6, <1>8 DEF RowInTime
<1> QED BY <1>6, <1>7, <1>9 DEF ExchangeInv

\* What one step of an exchange makes of it.
ExchangeActions(x) ==
  \/ BeginExchange(x) \/ BindIdentity(x) \/ Answers(x) \/ StreamEnds(x)
  \/ \E outcome \in {"success", "error", "denied"} : ToolMarks(x, outcome)
  \/ FailsInside(x) \/ HandlerReturns(x) \/ HandlerThrows(x)
  \/ Finishes(x) \/ ClientLeaves(x) \/ Closes(x)

\* Every step of an exchange keeps its row true.
LEMMA ExchangeStep ==
  ASSUME ExchangesInv, NEW x \in Exchanges, ExchangeActions(x)
  PROVE  ExchangesInv'
<1> DEFINE e == exch[x]
<1>e. ExchangeInv(e) /\ e \in Exchange
  BY DEF ExchangesInv, ExchangeInv
<1>o. e.stage # "none" /\ e.way.bound = "operator" => AllowLocalOperator
  BY DEF ExchangesInv, OperatorIsLocal, Way
<1>w. /\ e.stage # "none" => e.way \in Ways /\ e.way.status \in Nat \ {0}
      /\ e.bound => e.way.bound # ""
      /\ e.ended => e.head # 0
      /\ e.rows = << >> => e.outcome = WorstOf(e.marks)
  BY <1>e, ProcessAssumption DEF ProcessAssumption, ExchangeInv, GoesItsWay, RowInTime
<1>c. CountedAtReturn(e) /\ Untouched(e)
  BY <1>e DEF ExchangeInv
<1>n. Count(e) \in Nat /\ Count(e) # 0 /\ (e.head # 0 => Count(e) = e.head)
  <2>1. e.head \in Nat
    BY <1>e DEF Exchange
  <2>2. CASE e.head = 0
    <3>1. Count(e) = 200
      BY <2>2 DEF Count
    <3> QED BY <2>2, <3>1
  <2>3. CASE e.head # 0
    <3>1. Count(e) = e.head
      BY <2>3 DEF Count
    <3> QED BY <2>1, <2>3, <3>1
  <2> QED BY <2>2, <2>3
<1>1. CASE BeginExchange(x)
  <2>1. PICK w \in Ways : /\ w.bound = "operator" => AllowLocalOperator
                          /\ SetExch(x, [e EXCEPT !.stage = "run", !.way = w])
    BY <1>1 DEF BeginExchange
  <2> DEFINE q == [e EXCEPT !.stage = "run", !.way = w]
  <2>2. e.stage = "none"
    BY <1>1 DEF BeginExchange
  <2>3. /\ q \in Exchange /\ q.stage = "run" /\ q.way = w /\ q.conn = e.conn /\ q.head = e.head
        /\ q.ended = e.ended /\ q.bound = e.bound /\ q.outcome = e.outcome /\ q.rows = e.rows
        /\ q.counted = e.counted /\ q.left = e.left /\ q.late = e.late /\ q.marks = e.marks
    BY ONLY <1>e, w \in Ways DEF Exchange
  <2>4. SetExch(x, q)
    BY <2>1
  <2> HIDE DEF q
  <2>5. Untouched(q) /\ GoesItsWay(q) /\ CountedAtReturn(q)
    BY <1>c, <2>2, <2>3 DEF Untouched, GoesItsWay, CountedAtReturn
  <2>6. RowInTime(q)
    BY <1>e, <1>c, <2>2, <2>3 DEF ExchangeInv, Untouched, RowInTime
  <2> QED BY <2>1, <2>3, <2>4, <2>5, <2>6, ExchangeMoves DEF ExchangeInv
<1>2. CASE BindIdentity(x)
  <2> DEFINE q == [e EXCEPT !.bound = TRUE]
  <2>1. SetExch(x, q) /\ e.stage = "run" /\ e.way.bound # ""
    BY <1>2 DEF BindIdentity, Runs, Way
  <2>2. /\ q \in Exchange /\ q.stage = e.stage /\ q.way = e.way /\ q.conn = e.conn /\ q.head = e.head
        /\ q.ended = e.ended /\ q.bound /\ q.outcome = e.outcome /\ q.rows = e.rows
        /\ q.counted = e.counted /\ q.left = e.left /\ q.late = e.late /\ q.marks = e.marks
    BY ONLY <1>e DEF Exchange
  <2> HIDE DEF q
  <2>3. ExchangeInv(q)
    BY <1>e, <1>w, <1>c, <2>1, <2>2, NoRowWritten DEF CountedAtReturn
  <2> QED BY <1>o, <2>1, <2>2, <2>3, ExchangeMoves
<1>3. CASE Answers(x)
  <2> DEFINE status == e.way.status
             ended == ~e.way.stream
             q == [e EXCEPT !.head = status, !.ended = ended]
  <2>1. SetExch(x, q) /\ e.stage = "run" /\ e.head = 0
    BY <1>3 DEF Answers, Runs, Way
  <2>2. /\ q \in Exchange /\ q.stage = e.stage /\ q.way = e.way /\ q.conn = e.conn
        /\ q.head = status
        /\ q.bound = e.bound /\ q.outcome = e.outcome /\ q.rows = e.rows
        /\ q.counted = e.counted /\ q.left = e.left /\ q.late = e.late /\ q.marks = e.marks
    <3>1. status \in Nat
      BY <1>w, <2>1
    <3>2. ended \in BOOLEAN
      OBVIOUS
    <3> HIDE DEF status, ended
    <3> QED BY ONLY <1>e, <3>1, <3>2 DEF Exchange
  <2> HIDE DEF q
  <2>3. ExchangeInv(q)
    BY <1>e, <1>w, <1>c, <2>1, <2>2, NoRowWritten DEF CountedAtReturn
  <2> QED BY <1>o, <2>1, <2>2, <2>3, ExchangeMoves
<1>4. CASE StreamEnds(x)
  <2> DEFINE q == [e EXCEPT !.ended = TRUE]
  <2>1. SetExch(x, q) /\ e.stage # "none" /\ e.head # 0
    BY <1>4 DEF StreamEnds
  <2>2. /\ q \in Exchange /\ q.stage = e.stage /\ q.way = e.way /\ q.conn = e.conn /\ q.head = e.head
        /\ q.bound = e.bound /\ q.outcome = e.outcome /\ q.rows = e.rows
        /\ q.counted = e.counted /\ q.left = e.left /\ q.late = e.late /\ q.marks = e.marks
    BY ONLY <1>e DEF Exchange
  <2> HIDE DEF q
  <2>3. ExchangeInv(q)
    BY <1>e, <1>w, <1>c, <2>1, <2>2, NoRowWritten DEF CountedAtReturn
  <2> QED BY <1>o, <2>1, <2>2, <2>3, ExchangeMoves
<1>5. ASSUME NEW outcome \in {"success", "error", "denied"}, ToolMarks(x, outcome)
      PROVE  ExchangesInv'
  <2> DEFINE out == Worse(e.outcome, outcome)
             marks == IF e.rows = << >> THEN e.marks \cup {outcome} ELSE e.marks
             q == [e EXCEPT !.outcome = out, !.marks = marks]
  <2>1. SetExch(x, q) /\ e.stage = "run"
    BY <1>5 DEF ToolMarks, Runs
  <2>0. e.outcome \in Outcomes \cup {"none"} /\ e.marks \in SUBSET Outcomes /\ outcome \in Outcomes
    BY <1>e DEF Exchange, Outcomes
  <2>2. out \in Outcomes \cup {"none"} /\ marks \in SUBSET Outcomes
    BY <2>0 DEF Worse
  <2>3. e.rows = << >> => out = WorstOf(marks)
    BY <1>w, <2>0, WorseIsWorst
  <2>4. e.rows # << >> => marks = e.marks
    OBVIOUS
  <2> HIDE DEF out, marks
  <2>5. /\ q \in Exchange /\ q.stage = e.stage /\ q.way = e.way /\ q.conn = e.conn /\ q.head = e.head
        /\ q.ended = e.ended /\ q.bound = e.bound /\ q.outcome = out /\ q.rows = e.rows
        /\ q.counted = e.counted /\ q.left = e.left /\ q.late = e.late /\ q.marks = marks
    BY ONLY <1>e, <2>2 DEF Exchange
  <2> HIDE DEF q
  <2>6. ExchangeInv(q)
    BY <1>e, <1>w, <1>c, <2>1, <2>3, <2>4, <2>5, NoRowWritten DEF CountedAtReturn
  <2> QED BY <1>o, <2>1, <2>5, <2>6, ExchangeMoves
<1>6. CASE FailsInside(x)
  <2>1. e.stage = "run"
    BY <1>6 DEF FailsInside, Runs
  <2>2. CASE e.head # 0
    <3> DEFINE conn == IF e.conn = "open" THEN "cut" ELSE e.conn
               d == [e EXCEPT !.conn = conn]
               q == [d EXCEPT !.stage = "returned", !.counted = e.head]
    <3>1. Destroyed(e) = d
      BY DEF Destroyed
    <3>2. /\ d.head = e.head /\ d \in Exchange
          /\ conn \in {"open", "sent", "cut", "closed"}
          /\ conn = e.conn \/ (conn = "cut" /\ e.conn \in {"open", "sent"})
      BY <1>e DEF Exchange
    <3>3. Returned(d) = q
      BY <2>2, <3>2 DEF Returned, Count
    <3>4. SetExch(x, q)
      <4>1. SetExch(x, Returned(Destroyed(e)))
        BY <1>6, <2>2 DEF FailsInside
      <4> QED BY <3>1, <3>3, <4>1
    <3> HIDE DEF conn
    <3>5. /\ q \in Exchange /\ q.stage = "returned" /\ q.way = e.way /\ q.conn = conn /\ q.head = e.head
          /\ q.ended = e.ended /\ q.bound = e.bound /\ q.outcome = e.outcome /\ q.rows = e.rows
          /\ q.counted = e.head /\ q.left = e.left /\ q.late = e.late /\ q.marks = e.marks
      BY ONLY <1>e, <3>2 DEF Exchange
    <3> HIDE DEF q, d
    <3>6. ExchangeInv(q)
      BY <1>e, <1>w, <2>1, <2>2, <3>2, <3>5, NoRowWritten DEF CountedAtReturn
    <3> QED BY <1>o, <2>1, <3>4, <3>5, <3>6, ExchangeMoves
  <2>3. CASE e.head = 0
    <3>0. PICK n \in Nat : n = 500 /\ n # 0
      OBVIOUS
    <3> DEFINE d == [e EXCEPT !.head = n, !.ended = TRUE]
               q == [d EXCEPT !.stage = "returned", !.counted = n]
    <3>1. /\ d \in Exchange /\ d.way = e.way /\ d.conn = e.conn /\ d.head = n
          /\ d.bound = e.bound /\ d.outcome = e.outcome /\ d.rows = e.rows
          /\ d.left = e.left /\ d.late = e.late /\ d.marks = e.marks
      BY ONLY <1>e, n \in Nat DEF Exchange
    <3>3. SetExch(x, q)
      <4>1. SetExch(x, Returned(d))
        BY <1>6, <2>3, <3>0 DEF FailsInside
      <4> HIDE DEF d
      <4>2. Returned(d) = q
        BY <3>0, <3>1 DEF Returned, Count
      <4> QED BY <4>1, <4>2
    <3> HIDE DEF d
    <3>4. /\ q \in Exchange /\ q.stage = "returned" /\ q.way = e.way /\ q.conn = e.conn /\ q.head = n
          /\ q.bound = e.bound /\ q.outcome = e.outcome /\ q.rows = e.rows
          /\ q.counted = n /\ q.left = e.left /\ q.late = e.late /\ q.marks = e.marks
      BY ONLY n \in Nat, <3>1 DEF Exchange
    <3> HIDE DEF q
    <3>c. CountedAtReturn(q)
      BY <3>0, <3>4 DEF CountedAtReturn
    <3>5. ExchangeInv(q)
      <4>1. /\ e.head # 0 => q.head = e.head
            /\ q.ended => q.head # 0
            /\ q.bound => q.way.bound # ""
            /\ e.rows = << >> => q.outcome = WorstOf(q.marks)
        <5>1. e.head = 0 /\ q.head # 0
          BY <2>3, <3>0, <3>4
        <5>2. q.bound => q.way.bound # ""
          BY <1>w, <3>4
        <5>3. e.rows = << >> => q.outcome = WorstOf(q.marks)
          BY <1>w, <3>4
        <5> QED BY <5>1, <5>2, <5>3
      <4> QED BY <1>e, <2>1, <3>4, <3>c, <4>1, NoRowWritten
    <3> QED BY <1>o, <2>1, <3>3, <3>4, <3>5, ExchangeMoves
  <2>4. e.head \in Nat
    BY <1>e DEF Exchange
  <2> QED BY <2>2, <2>3
<1>7. CASE HandlerReturns(x)
  <2> DEFINE n == Count(e)
             q == [e EXCEPT !.stage = "returned", !.counted = n]
  <2>1. SetExch(x, q) /\ e.stage = "run"
    BY <1>7 DEF HandlerReturns, Runs, Returned
  <2>2. n \in Nat /\ n # 0 /\ (e.head # 0 => n = e.head)
    BY <1>n
  <2> HIDE DEF n
  <2>3. /\ q \in Exchange /\ q.stage = "returned" /\ q.way = e.way /\ q.conn = e.conn /\ q.head = e.head
        /\ q.ended = e.ended /\ q.bound = e.bound /\ q.outcome = e.outcome /\ q.rows = e.rows
        /\ q.counted = n /\ q.left = e.left /\ q.late = e.late /\ q.marks = e.marks
    BY ONLY <1>e, <2>2 DEF Exchange
  <2> HIDE DEF q
  <2>4. ExchangeInv(q)
    BY <1>e, <1>w, <2>1, <2>2, <2>3, NoRowWritten DEF CountedAtReturn
  <2> QED BY <1>o, <2>1, <2>3, <2>4, ExchangeMoves
<1>8. CASE HandlerThrows(x)
  <2> DEFINE n == Count(e)
             r == Returned(e)
  <2>1. e.stage = "run" /\ r = [e EXCEPT !.stage = "returned", !.counted = n]
    BY <1>8 DEF HandlerThrows, Runs, Returned
  <2>2. n \in Nat /\ n # 0 /\ (e.head # 0 => n = e.head)
    BY <1>n
  <2>3. SetExch(x, CASE r.head = 0 -> [r EXCEPT !.head = 500, !.ended = TRUE, !.late = TRUE]
                     [] r.head # 0 /\ ~r.ended -> Destroyed(r)
                     [] OTHER -> r)
    BY <1>8 DEF HandlerThrows
  <2> HIDE DEF n
  <2>4. /\ r \in Exchange /\ r.stage = "returned" /\ r.way = e.way /\ r.conn = e.conn /\ r.head = e.head
        /\ r.ended = e.ended /\ r.bound = e.bound /\ r.outcome = e.outcome /\ r.rows = e.rows
        /\ r.counted = n /\ r.left = e.left /\ r.late = e.late /\ r.marks = e.marks
    <3> HIDE DEF r
    <3> QED BY ONLY <1>e, <2>1, <2>2 DEF Exchange
  <2> HIDE DEF r
  <2>5. CASE r.head = 0
    <3>0. PICK m \in Nat : m = 500 /\ m # 0
      OBVIOUS
    <3> DEFINE q == [r EXCEPT !.head = m, !.ended = TRUE, !.late = TRUE]
    <3>1. SetExch(x, q)
      BY <2>3, <2>5, <3>0
    <3>2. /\ q \in Exchange /\ q.stage = "returned" /\ q.way = e.way /\ q.conn = e.conn /\ q.head = m
          /\ q.bound = e.bound /\ q.outcome = e.outcome /\ q.rows = e.rows
          /\ q.counted = n /\ q.left = e.left /\ q.late = TRUE /\ q.marks = e.marks
      BY ONLY <2>4, m \in Nat DEF Exchange
    <3> HIDE DEF q
    <3>c. CountedAtReturn(q)
      BY <2>2, <3>2 DEF CountedAtReturn
    <3>3. ExchangeInv(q)
      <4>1. /\ e.head # 0 => q.head = e.head
            /\ q.ended => q.head # 0
            /\ q.bound => q.way.bound # ""
            /\ e.rows = << >> => q.outcome = WorstOf(q.marks)
        <5>1. e.head = 0 /\ q.head # 0
          BY <2>4, <2>5, <3>0, <3>2
        <5>2. q.bound => q.way.bound # ""
          BY <1>w, <3>2
        <5>3. e.rows = << >> => q.outcome = WorstOf(q.marks)
          BY <1>w, <3>2
        <5> QED BY <5>1, <5>2, <5>3
      <4> QED BY <1>e, <2>1, <3>2, <3>c, <4>1, NoRowWritten
    <3> QED BY <1>o, <2>1, <3>1, <3>2, <3>3, ExchangeMoves
  <2>6. CASE r.head # 0 /\ ~r.ended
    <3> DEFINE conn == IF r.conn = "open" THEN "cut" ELSE r.conn
               q == [r EXCEPT !.conn = conn]
    <3>1. SetExch(x, q)
      BY <2>3, <2>6 DEF Destroyed
    <3>2. /\ conn \in {"open", "sent", "cut", "closed"}
          /\ conn = e.conn \/ (conn = "cut" /\ e.conn \in {"open", "sent"})
      BY <2>4 DEF Exchange
    <3> HIDE DEF conn
    <3>3. /\ q \in Exchange /\ q.stage = "returned" /\ q.way = e.way /\ q.conn = conn /\ q.head = e.head
          /\ q.ended = e.ended /\ q.bound = e.bound /\ q.outcome = e.outcome /\ q.rows = e.rows
          /\ q.counted = n /\ q.left = e.left /\ q.late = e.late /\ q.marks = e.marks
      BY ONLY <2>4, <3>2 DEF Exchange
    <3> HIDE DEF q
    <3>4. ExchangeInv(q)
      BY <1>e, <1>w, <2>1, <2>2, <3>2, <3>3, NoRowWritten DEF CountedAtReturn
    <3> QED BY <1>o, <2>1, <3>1, <3>3, <3>4, ExchangeMoves
  <2>7. CASE r.head # 0 /\ r.ended
    <3>1. SetExch(x, r)
      BY <2>3, <2>7
    <3>c. CountedAtReturn(r)
      BY <2>2, <2>4 DEF CountedAtReturn
    <3>2. ExchangeInv(r)
      <4>1. /\ r.ended => r.head # 0
            /\ r.bound => r.way.bound # ""
            /\ e.rows = << >> => r.outcome = WorstOf(r.marks)
        BY <1>w, <2>4
      <4>2. /\ r \in Exchange /\ r.stage # "none" /\ e.stage # "none" /\ r.rows = e.rows
            /\ r.left = e.left /\ r.way = e.way /\ r.conn = e.conn /\ r.head = e.head
            /\ e.bound => r.bound
            /\ r.marks = e.marks
        BY <2>1, <2>4
      <4> HIDE DEF e
      <4> QED BY <1>e, <3>c, <4>1, <4>2, NoRowWritten
    <3> QED BY <1>o, <2>1, <2>4, <3>1, <3>2, ExchangeMoves
  <2> QED BY <2>5, <2>6, <2>7
<1>9. CASE Finishes(x)
  <2>0. PICK aborted \in BOOLEAN : aborted = FALSE
    OBVIOUS
  <2> DEFINE q == [WriteOnce(e, aborted) EXCEPT !.conn = "sent"]
  <2>1. SetExch(x, q) /\ e.stage # "none" /\ e.ended /\ e.conn = "open"
    BY <1>9, <2>0 DEF Finishes
  <2>2. e.head # 0 /\ e.rows = << >>
    BY <1>e, <1>w, <2>1 DEF ExchangeInv, RowInTime
  <2>3. ExchangeInv(q) /\ q.stage = e.stage /\ q.way = e.way
    <3>1. Noticed(e, q, aborted, "sent")
      BY <2>0 DEF Noticed
    <3>3. "sent" \in {"sent", "closed"} /\ (aborted => "sent" = "closed")
      BY <2>0
    <3>2. aborted <=> e.head = 0
      BY <2>0, <2>2
    <3>4. e.stage # "none" /\ e.rows = << >>
      BY <2>1, <2>2
    <3> HIDE DEF q, e
    <3> QED BY <1>e, <3>1, <3>2, <3>3, <3>4, RowIsWritten
  <2> HIDE DEF q
  <2> QED BY <1>o, <2>1, <2>3, ExchangeMoves
<1>10. CASE ClientLeaves(x)
  <2> DEFINE q == [e EXCEPT !.conn = "cut"]
  <2>1. SetExch(x, q) /\ e.stage # "none" /\ e.conn \in {"open", "sent"}
    BY <1>10 DEF ClientLeaves
  <2>2. /\ q \in Exchange /\ q.stage = e.stage /\ q.way = e.way /\ q.conn = "cut" /\ q.head = e.head
        /\ q.ended = e.ended /\ q.bound = e.bound /\ q.outcome = e.outcome /\ q.rows = e.rows
        /\ q.counted = e.counted /\ q.left = e.left /\ q.late = e.late /\ q.marks = e.marks
    BY ONLY <1>e DEF Exchange
  <2> HIDE DEF q
  <2>3. ExchangeInv(q)
    BY <1>e, <1>w, <1>c, <2>1, <2>2, NoRowWritten DEF CountedAtReturn
  <2> QED BY <1>o, <2>1, <2>2, <2>3, ExchangeMoves
<1>11. CASE Closes(x)
  <2>0. PICK aborted \in BOOLEAN : aborted = (e.head = 0)
    OBVIOUS
  <2> DEFINE q == [WriteOnce(e, aborted) EXCEPT !.conn = "closed", !.left = aborted]
  <2>1. SetExch(x, q) /\ e.stage # "none" /\ e.conn = "cut"
    BY <1>11, <2>0 DEF Closes
  <2>2. CASE e.rows = << >>
    <3>1. ExchangeInv(q) /\ q.stage = e.stage /\ q.way = e.way
      <4>1. Noticed(e, q, aborted, "closed")
        BY DEF Noticed
      <4>3. "closed" \in {"sent", "closed"} /\ (aborted => "closed" = "closed")
        OBVIOUS
      <4>2. aborted <=> e.head = 0
        BY <2>0
      <4> HIDE DEF q, e
      <4> QED BY <1>e, <2>1, <2>2, <4>1, <4>2, <4>3, RowIsWritten
    <3> HIDE DEF q
    <3> QED BY <1>o, <2>1, <3>1, ExchangeMoves
  <2>3. CASE e.rows # << >>
    <3>1. RowIsTrue(e) /\ ~e.left /\ e.head # 0
      BY <1>e, <2>1, <2>3 DEF ExchangeInv, RowInTime, RowIsTrue
    <3>2. q = [e EXCEPT !.conn = "closed", !.left = FALSE]
      BY <2>0, <2>3, <3>1 DEF WriteOnce
    <3> HIDE DEF q
    <3>3. /\ q \in Exchange /\ q.stage = e.stage /\ q.way = e.way /\ q.conn = "closed"
          /\ q.head = e.head /\ q.left = FALSE
          /\ q.ended = e.ended /\ q.bound = e.bound /\ q.outcome = e.outcome /\ q.rows = e.rows
          /\ q.counted = e.counted /\ q.late = e.late /\ q.marks = e.marks
      BY ONLY <1>e, <3>2 DEF Exchange
    <3>4. RowIsTrue(q)
      BY <3>1, <3>3 DEF RowIsTrue
    <3>5. Untouched(q) /\ GoesItsWay(q) /\ CountedAtReturn(q)
      BY <1>e, <3>3 DEF ExchangeInv, Untouched, GoesItsWay, CountedAtReturn
    <3>6. RowInTime(q)
      BY <2>3, <3>3, <3>4 DEF RowInTime
    <3> QED BY <1>o, <2>1, <3>3, <3>5, <3>6, ExchangeMoves DEF ExchangeInv
  <2> QED BY <2>2, <2>3
<1> QED
  BY <1>1, <1>2, <1>3, <1>4, <1>5, <1>6, <1>7, <1>8, <1>9, <1>10, <1>11 DEF ExchangeActions

\* The process keeps its launch; who can be asked changes with it alone.
LEMMA LaunchIsKept == LifeInv /\ [ProcessNext]_processVars => life'.launch = life.launch
<1> SUFFICES ASSUME LifeInv, [ProcessNext]_processVars PROVE life'.launch = life.launch
  OBVIOUS
<1>t. life \in Life
  BY DEF LifeInv
<1>e. ASSUME NEW s PROVE Enters(s).launch = life.launch
  BY <1>t DEF Enters, Life
<1>x. ASSUME NEW code PROVE Exits(code).launch = life.launch
  BY <1>t DEF Exits, Life
<1>1. CASE Launch \/ Discover
  <2>1. life' = Exits(1) \/ life' = Enters("stdio") \/ life' = Enters("discovering")
          \/ life' = Enters("binding")
    BY <1>1 DEF Launch, Discover, NextStage
  <2> QED BY <1>e, <1>x, <2>1
<1>2. CASE Bound
  BY <1>t, <1>2 DEF Bound, Exits, Life
<1>3. CASE OpsBound
  BY <1>t, <1>3 DEF OpsBound, Exits, Life
<1>4. CASE Signal
  BY <1>t, <1>4 DEF Signal, Exits, Enters, Life
<1>5. CASE CloseTransports \/ ExitClean
  BY <1>e, <1>x, <1>5 DEF CloseTransports, ExitClean
<1>9. CASE CloseOps
  <2>1. life' = [life EXCEPT !.ops = FALSE, !.stage = "closingTransports"]
    BY <1>9 DEF CloseOps
  <2> QED BY ONLY <1>t, <2>1 DEF Life
<1>10. CASE ClosePublic
  <2>1. life' = [life EXCEPT !.public = FALSE, !.stage = "closed"]
    BY <1>10 DEF ClosePublic
  <2> QED BY ONLY <1>t, <2>1 DEF Life
<1>6. ASSUME NEW x \in Exchanges, ExchangeActions(x) PROVE UNCHANGED life
  BY <1>6 DEF ExchangeActions, BeginExchange, BindIdentity, Answers, StreamEnds, ToolMarks,
              FailsInside, HandlerReturns, HandlerThrows, Finishes, ClientLeaves, Closes, SetExch
<1>7. ASSUME AskReady \/ IssuerSays \/ ReadyProbeEnds \/ IssuerFlips \/ ClockTicks
      PROVE  UNCHANGED life
  BY <1>7 DEF AskReady, IssuerSays, ReadyProbeEnds, IssuerFlips, ClockTicks, SetReady
<1>8. CASE UNCHANGED processVars
  BY <1>8 DEF processVars
<1> QED
  BY <1>1, <1>2, <1>3, <1>4, <1>5, <1>6, <1>7, <1>8, <1>9, <1>10
     DEF ProcessNext, ExchangeActions

\* Every step of the process keeps the exchanges' rows true.
LEMMA ExchangesStep == LifeInv /\ ExchangesInv /\ [ProcessNext]_processVars => ExchangesInv'
<1> SUFFICES ASSUME LifeInv, ExchangesInv, [ProcessNext]_processVars PROVE ExchangesInv'
  OBVIOUS
<1>l. life'.launch = life.launch
  BY LaunchIsKept
<1>u. ASSUME UNCHANGED exch PROVE ExchangesInv'
  BY <1>l, <1>u DEF ExchangesInv, OperatorIsLocal, Way, AllowLocalOperator, Mode
<1>1. ASSUME NEW x \in Exchanges, ExchangeActions(x) PROVE ExchangesInv'
  BY <1>1, ExchangeStep
<1>2. CASE ClosePublic
  <2> DEFINE conn(x) == IF exch[x].conn = "open" THEN "cut" ELSE exch[x].conn
             q(x) == [exch[x] EXCEPT !.conn = conn(x)]
  <2>1. exch' = [x \in Exchanges |-> q(x)]
    BY <1>2 DEF ClosePublic
  <2>2. ASSUME NEW x \in Exchanges
        PROVE  ExchangeInv(q(x)) /\ q(x) \in Exchange /\ q(x).stage = exch[x].stage /\ q(x).way = exch[x].way
    <3> DEFINE e == exch[x]
               c == conn(x)
               p == [e EXCEPT !.conn = c]
    <3>e. ExchangeInv(e) /\ e \in Exchange
      BY DEF ExchangesInv, ExchangeInv
    <3>1. /\ c \in {"open", "sent", "cut", "closed"}
          /\ c # "open" /\ (c = e.conn \/ (c = "cut" /\ e.conn = "open"))
      BY <3>e DEF Exchange
    <3> HIDE DEF c
    <3>2. /\ p \in Exchange /\ p.stage = e.stage /\ p.way = e.way /\ p.conn = c /\ p.head = e.head
          /\ p.ended = e.ended /\ p.bound = e.bound /\ p.outcome = e.outcome /\ p.rows = e.rows
          /\ p.counted = e.counted /\ p.left = e.left /\ p.late = e.late /\ p.marks = e.marks
      BY ONLY <3>e, <3>1 DEF Exchange
    <3>3. p = q(x)
      BY DEF c
    <3> HIDE DEF p, q
    <3>4. Untouched(p) /\ GoesItsWay(p) /\ CountedAtReturn(p)
      BY <3>e, <3>2 DEF ExchangeInv, Untouched, GoesItsWay, CountedAtReturn
    <3>5. RowIsTrue(e) => RowIsTrue(p)
      BY <3>2 DEF RowIsTrue
    <3>6. RowInTime(p)
      BY <3>e, <3>1, <3>2, <3>5 DEF ExchangeInv, RowInTime
    <3>7. ExchangeInv(p)
      BY <3>2, <3>4, <3>6 DEF ExchangeInv
    <3> QED BY <3>2, <3>3, <3>7
  <2> HIDE DEF q
  <2>3. exch' \in [Exchanges -> Exchange] /\ \A x \in Exchanges : exch'[x] = q(x)
    BY <2>1, <2>2
  <2>4. \A x \in Exchanges : ExchangeInv(exch'[x])
    BY <2>2, <2>3
  <2>5. OperatorIsLocal'
    BY <1>l, <2>2, <2>3 DEF ExchangesInv, OperatorIsLocal, Way, AllowLocalOperator, Mode
  <2> QED BY <2>3, <2>4, <2>5 DEF ExchangesInv
<1>3. ASSUME \/ Launch \/ Discover \/ Bound \/ OpsBound
             \/ Signal \/ CloseOps \/ CloseTransports \/ ExitClean
             \/ AskReady \/ IssuerSays \/ ReadyProbeEnds \/ IssuerFlips \/ ClockTicks
             \/ UNCHANGED processVars
      PROVE  UNCHANGED exch
  BY <1>3 DEF Launch, Discover, Bound, OpsBound, Signal, CloseOps, CloseTransports, ExitClean,
              AskReady, IssuerSays, ReadyProbeEnds, IssuerFlips, ClockTicks, SetReady, processVars
<1> QED
  BY <1>u, <1>1, <1>2, <1>3 DEF ProcessNext, ExchangeActions

---------------------------------------------------------------------------
(* Readiness *)

\* The greater of two numbers.
LEMMA MaxOfTwo ==
  ASSUME NEW a \in Int, NEW b \in Int
  PROVE  Max({a, b}) = IF a >= b THEN a ELSE b
<1> DEFINE m == IF a >= b THEN a ELSE b
<1>1. m \in {a, b} /\ \A y \in {a, b} : m >= y
  OBVIOUS
<1>2. \A x \in {a, b} : (\A y \in {a, b} : x >= y) => x = m
  OBVIOUS
<1> QED BY <1>1, <1>2 DEF Max

Results == [ok : BOOLEAN, until : Nat, at : Nat]

\* Who is told a result that is young enough, while the process serves, is told
\* the truth; nothing else changes.
LEMMA ToldShape ==
  ASSUME NEW r \in Ready, NEW result \in Results, life.public,
         result.ok => r.now - result.at < CacheTime + ProbeTimeout,
         r.lag < CacheTime + ProbeTimeout, ~r.shut
  PROVE  LET t == Told(r, result)
         IN  /\ t \in Ready /\ t.lag < CacheTime + ProbeTimeout /\ ~t.shut /\ ~t.asked
             /\ t.now = r.now /\ t.up = r.up /\ t.probe = r.probe /\ t.cache = r.cache
             /\ t.sent = r.sent
<1> DEFINE lag == IF result.ok THEN Max({r.lag, r.now - result.at}) ELSE r.lag
           shut == r.shut \/ (result.ok /\ ~life.public)
           t == [r EXCEPT !.lag = lag, !.shut = shut, !.asked = FALSE]
<1>1. Told(r, result) = t
  BY DEF Told
<1>2. r.lag \in Int /\ r.now - result.at \in Int
  BY DEF Ready, Results
<1>3. lag \in Int /\ lag < CacheTime + ProbeTimeout
  BY <1>2, MaxOfTwo
<1>4. shut = FALSE
  OBVIOUS
<1> HIDE DEF lag
<1>5. /\ t \in Ready /\ t.lag = lag /\ t.shut = FALSE /\ t.asked = FALSE
      /\ t.now = r.now /\ t.up = r.up /\ t.probe = r.probe /\ t.cache = r.cache
      /\ t.sent = r.sent
  BY <1>3, <1>4 DEF Ready
<1> HIDE DEF t
<1> QED BY <1>1, <1>3, <1>5

\* Counting in cache times: one more of them, and how many there have been.
LEMMA CacheTimes ==
  ASSUME NEW sent \in Nat, NEW a \in Nat
  PROVE  /\ sent * CacheTime \in Nat
         /\ (sent - 1) * CacheTime = sent * CacheTime - CacheTime
         /\ (sent + 1 - 1) * CacheTime = sent * CacheTime
         /\ (sent - 1) * CacheTime <= a => sent <= 1 + a \div CacheTime
<1>1. CacheTime \in Nat \ {0}
  BY ProcessAssumption DEF ProcessAssumption
<1>2. (sent - 1) * CacheTime = sent * CacheTime - CacheTime
  BY <1>1
<1>3. (sent - 1) * CacheTime <= a => sent <= 1 + a \div CacheTime
  <2>1. ASSUME NEW n \in Int, n * CacheTime <= a PROVE n <= a \div CacheTime
    BY <1>1, <2>1
  <2>2. a \div CacheTime \in Int
    BY <1>1
  <2> QED BY <2>1, <2>2
<1> QED BY <1>1, <1>2, <1>3

\* A step of the process that closes no operators' listener, or exits, leaves
\* readiness as it was.
LEMMA LifeKeepsReady ==
  ASSUME ReadyInv, UNCHANGED ready, life.ops \/ Stage("exited") => life'.ops \/ life'.stage = "exited"
  PROVE  ReadyInv'
BY DEF ReadyInv, ProbeIsYoung, CacheIsYoung, ProbesApart, AskedOverOps, Probing, Stage

\* The result of a check is kept for one cache time, and told to whoever waits.
LEMMA RememberedKeeps ==
  ASSUME ReadyInv, UNCHANGED life, NEW r, NEW ok \in BOOLEAN, NEW at \in Nat,
         r = Remembered(ready, ok, at),
         \/ ready' = r /\ ~ready.asked
         \/ ready' = Told(r, r.cache) /\ life.public,
         at <= ready.now, ready.now <= at + ProbeTimeout,
         (ready.sent - 1) * CacheTime <= ready.now
  PROVE  ReadyInv'
<1>c. CacheTime \in Nat \ {0} /\ ProbeTimeout \in Nat \ {0}
  BY ProcessAssumption DEF ProcessAssumption
<1>t. ready \in Ready /\ ready.sent \in Nat /\ ready.now \in Nat
  BY DEF ReadyInv, Ready
<1> DEFINE until == ready.now + CacheTime
           cache == [ok |-> ok, until |-> until, at |-> at]
<1>1. until \in Nat
  BY <1>c, <1>t
<1>2. NoReadyProbe \in ReadyProbe /\ NoReadyProbe.said = "none"
  BY DEF NoReadyProbe, ReadyProbe
<1>3. cache \in Results /\ cache.ok = ok /\ cache.until = until /\ cache.at = at
  <2> HIDE DEF until
  <2> QED BY <1>1 DEF Results
<1>4. r = [ready EXCEPT !.cache = cache, !.probe = NoReadyProbe]
  BY DEF Remembered
<1> HIDE DEF cache
<1>5. /\ r \in Ready /\ r.now = ready.now /\ r.up = ready.up /\ r.probe = NoReadyProbe
      /\ r.cache = cache /\ r.asked = ready.asked /\ r.sent = ready.sent
      /\ r.lag = ready.lag /\ r.shut = ready.shut
  BY ONLY <1>t, <1>2, <1>3, <1>4 DEF Ready, Results
<1>6. ready.sent * CacheTime <= until
  <2> DEFINE spent == ready.sent * CacheTime
  <2>1. spent \in Nat /\ (ready.sent - 1) * CacheTime = spent - CacheTime
    BY <1>t, CacheTimes
  <2>2. spent - CacheTime <= ready.now
    BY <2>1
  <2> HIDE DEF spent
  <2>3. spent <= until
    BY ONLY <1>c, <1>t, <2>1, <2>2 DEF until
  <2> QED BY <2>3 DEF spent
<1>7. /\ ready' \in Ready /\ ready'.now = ready.now /\ ready'.probe = NoReadyProbe
      /\ ready'.cache = cache /\ ready'.sent = ready.sent /\ ~ready'.asked
      /\ ready'.lag < CacheTime + ProbeTimeout /\ ~ready'.shut
  <2>0. ready.lag < CacheTime + ProbeTimeout /\ ~ready.shut
    BY DEF ReadyInv
  <2>1. CASE ready' = r /\ ~ready.asked
    BY <1>5, <2>0, <2>1
  <2>2. CASE ready' = Told(r, r.cache) /\ life.public
    <3>1. ready' = Told(r, cache) /\ life.public
      BY <1>5, <2>2
    <3>2. r.now - cache.at < CacheTime + ProbeTimeout
      BY <1>c, <1>t, <1>3, <1>5
    <3> QED BY <1>3, <1>5, <2>0, <3>1, <3>2, ToldShape
  <2> QED BY <2>1, <2>2
<1>8. CacheIsYoung'
  BY <1>c, <1>t, <1>3, <1>7 DEF CacheIsYoung
<1>9. ~Probing'
  BY <1>7 DEF Probing
<1>10. ProbeIsYoung' /\ ProbesApart'
  BY <1>2, <1>3, <1>6, <1>7, <1>9 DEF ProbeIsYoung, ProbesApart
<1> QED BY <1>7, <1>8, <1>10 DEF ReadyInv, AskedOverOps

\* Every step keeps readiness young, true, and rare.
LEMMA ReadyStep == LifeInv /\ ReadyInv /\ [ProcessNext]_processVars => ReadyInv'
<1> SUFFICES ASSUME LifeInv, ReadyInv, [ProcessNext]_processVars PROVE ReadyInv'
  OBVIOUS
<1>c. CacheTime \in Nat \ {0} /\ ProbeTimeout \in Nat \ {0}
  BY ProcessAssumption DEF ProcessAssumption
<1>t. /\ ready \in Ready /\ ready.now \in Nat /\ ready.sent \in Nat /\ ready.asked \in BOOLEAN
      /\ ready.probe \in ReadyProbe /\ ready.cache \in Results
  BY DEF ReadyInv, Ready, Results
<1>p. /\ ready.probe.since \in Nat /\ ready.probe.at \in Nat
      /\ ready.probe.said \in {"none", "asked", "good", "bad"}
      /\ ready.cache.until \in Nat /\ ready.cache.at \in Nat /\ ready.cache.ok \in BOOLEAN
  BY <1>t DEF ReadyProbe, Results
<1>l. life \in Life /\ (life.ops => life.public)
  BY DEF LifeInv, ListensInTurn
<1>i. /\ ProbeIsYoung /\ CacheIsYoung /\ ProbesApart /\ AskedOverOps
      /\ ready.lag < CacheTime + ProbeTimeout /\ ~ready.shut
  BY DEF ReadyInv
\* The probes so far were a cache time apart.
<1>s. (ready.sent - 1) * CacheTime <= ready.now
  <2>1. CASE Probing
    BY <1>i, <1>t, <1>p, <2>1, CacheTimes DEF ProbeIsYoung, ProbesApart
  <2>2. CASE ~Probing
    <3>1. ready.sent * CacheTime <= ready.cache.until /\ ready.cache.until <= ready.now + CacheTime
      BY <1>i, <2>2 DEF ProbesApart, CacheIsYoung
    <3>2. /\ ready.sent * CacheTime \in Nat
          /\ (ready.sent - 1) * CacheTime = ready.sent * CacheTime - CacheTime
      BY <1>t, CacheTimes
    <3> QED BY <1>c, <1>t, <1>p, <3>1, <3>2
  <2> QED BY <2>1, <2>2
<1>1. CASE Launch \/ Discover \/ Bound \/ OpsBound \/ Signal \/ CloseTransports
             \/ ClosePublic \/ ExitClean
  <2>1. UNCHANGED ready
    BY <1>1 DEF Launch, Discover, Bound, OpsBound, Signal, CloseTransports, ClosePublic, ExitClean
  <2>e. ASSUME NEW s PROVE Enters(s).ops = life.ops
    BY <1>l DEF Enters, Life
  <2>x. ASSUME NEW code PROVE Exits(code).stage = "exited"
    BY <1>l DEF Exits, Life
  <2>2. life.stage # "exited"
    BY <1>1 DEF Launch, Discover, Bound, OpsBound, Signal, CloseTransports, ClosePublic, ExitClean,
                Stage
  <2>3. life.ops => life'.ops \/ life'.stage = "exited"
    <3>1. CASE Launch \/ Discover \/ CloseTransports \/ ExitClean
      <4>1. \/ \E code \in {0, 1} : life' = Exits(code)
            \/ \E s \in {"stdio", "discovering", "binding", "closingPublic"} : life' = Enters(s)
        BY <3>1 DEF Launch, Discover, NextStage, CloseTransports, ExitClean
      <4> QED BY <2>e, <2>x, <4>1
    <3>2. CASE Bound
      <4> DEFINE s == IF OpsListen(life.launch) = "on" THEN "opsBinding" ELSE "up"
      <4>1. life' = Exits(1) \/ life' = [life EXCEPT !.public = TRUE, !.stage = s]
        BY <3>2 DEF Bound
      <4> HIDE DEF s
      <4>2. ASSUME life' = [life EXCEPT !.public = TRUE, !.stage = s] PROVE life'.ops = life.ops
        BY ONLY <1>l, <4>2 DEF Life
      <4> QED BY <2>x, <4>1, <4>2
    <3>3. CASE OpsBound
      <4>1. life' = Exits(1) \/ life' = [life EXCEPT !.ops = TRUE, !.stage = "up"]
        BY <3>3 DEF OpsBound
      <4>2. ASSUME life' = [life EXCEPT !.ops = TRUE, !.stage = "up"] PROVE life'.ops
        BY ONLY <1>l, <4>2 DEF Life
      <4> QED BY <2>x, <4>1, <4>2
    <3>4. CASE Signal
      <4> DEFINE r == IF Stage("up") THEN Enters("closingOps") ELSE Exits(128)
      <4>1. life' = [r EXCEPT !.signals = @ + 1]
        BY <3>4 DEF Signal
      <4>2. "closingOps" \in Stages
        BY DEF Stages
      <4>3. r \in Life /\ (r.ops = life.ops \/ r.stage = "exited")
        BY <1>l, <4>2, EntersShape, ExitsShape
      <4> HIDE DEF r
      <4>4. life'.ops = r.ops /\ life'.stage = r.stage
        BY <4>1, <4>3 DEF Life
      <4> QED BY <4>3, <4>4
    <3>5. CASE ClosePublic
      <4>1. life' = [life EXCEPT !.public = FALSE, !.stage = "closed"]
        BY <3>5 DEF ClosePublic
      <4> QED BY ONLY <1>l, <4>1 DEF Life
    <3> QED BY <1>1, <3>1, <3>2, <3>3, <3>4, <3>5
  <2> QED BY <2>1, <2>2, <2>3, LifeKeepsReady DEF Stage
<1>2. CASE CloseOps
  <2>1. ready' = [ready EXCEPT !.asked = FALSE]
    BY <1>2 DEF CloseOps
  <2>2. /\ ready' \in Ready /\ ready'.asked = FALSE /\ ready'.now = ready.now
        /\ ready'.probe = ready.probe /\ ready'.cache = ready.cache /\ ready'.sent = ready.sent
        /\ ready'.lag = ready.lag /\ ready'.shut = ready.shut
    BY <1>t, <2>1 DEF Ready
  <2> QED
    BY <1>i, <2>2 DEF ReadyInv, ProbeIsYoung, CacheIsYoung, ProbesApart, AskedOverOps, Probing
<1>3. CASE AskReady
  <2>0. life.ops /\ UNCHANGED life
    BY <1>3 DEF AskReady, SetReady
  <2>1. CASE FromCache
    <3>1. ready' = Told(ready, ready.cache)
      BY <1>3, <2>1 DEF AskReady, SetReady
    <3>2. ready.cache.ok => ready.now - ready.cache.at < CacheTime + ProbeTimeout
      BY <1>c, <1>t, <1>p, <1>i, <2>1 DEF FromCache, CacheIsYoung
    <3>3. /\ ready' \in Ready /\ ready'.lag < CacheTime + ProbeTimeout /\ ~ready'.shut
          /\ ~ready'.asked /\ ready'.now = ready.now /\ ready'.probe = ready.probe
          /\ ready'.cache = ready.cache /\ ready'.sent = ready.sent
      BY <1>t, <1>l, <1>i, <2>0, <3>1, <3>2, ToldShape
    <3> QED
      BY <1>i, <3>3 DEF ReadyInv, ProbeIsYoung, CacheIsYoung, ProbesApart, AskedOverOps, Probing
  <2>2. CASE ~FromCache /\ Probing
    <3>1. ready' = [ready EXCEPT !.asked = TRUE]
      BY <1>3, <2>2 DEF AskReady, SetReady
    <3>2. /\ ready' \in Ready /\ ready'.now = ready.now
          /\ ready'.probe = ready.probe /\ ready'.cache = ready.cache /\ ready'.sent = ready.sent
          /\ ready'.lag = ready.lag /\ ready'.shut = ready.shut
      BY <1>t, <3>1 DEF Ready
    <3> QED
      BY <1>i, <2>0, <3>2
         DEF ReadyInv, ProbeIsYoung, CacheIsYoung, ProbesApart, AskedOverOps, Probing
  <2>3. CASE ~FromCache /\ ~Probing /\ Mode = "resource_server"
    <3> DEFINE probe == [NoReadyProbe EXCEPT !.since = ready.now, !.said = "asked"]
               sent == ready.sent + 1
    <3>1. ready' = [ready EXCEPT !.asked = TRUE, !.probe = probe, !.sent = sent]
      BY <1>3, <2>3 DEF AskReady, SetReady
    <3>2. probe \in ReadyProbe /\ probe.since = ready.now /\ probe.said = "asked" /\ probe # NoReadyProbe
      BY <1>t DEF NoReadyProbe, ReadyProbe
    <3>3. sent \in Nat /\ sent # 0 /\ (sent - 1) * CacheTime = ready.sent * CacheTime
      BY <1>t, CacheTimes
    <3>4. ready.sent * CacheTime <= ready.now
      <4>1. ready.cache.until <= ready.now
        BY <1>t, <1>p, <2>3 DEF FromCache
      <4>2. ready.sent * CacheTime <= ready.cache.until /\ ready.sent * CacheTime \in Nat
        BY <1>i, <1>t, <2>3, CacheTimes DEF ProbesApart
      <4> QED BY <1>t, <1>p, <4>1, <4>2
    <3> HIDE DEF probe, sent
    <3>5. /\ ready' \in Ready /\ ready'.now = ready.now /\ ready'.probe = probe
          /\ ready'.cache = ready.cache /\ ready'.sent = sent
          /\ ready'.lag = ready.lag /\ ready'.shut = ready.shut
      BY ONLY <1>t, <3>1, <3>2, <3>3 DEF Ready
    <3>6. ProbeIsYoung'
      BY <1>c, <1>t, <3>2, <3>5 DEF ProbeIsYoung, Probing
    <3>7. ProbesApart'
      BY <3>2, <3>3, <3>4, <3>5 DEF ProbesApart, Probing
    <3> QED BY <1>i, <2>0, <3>5, <3>6, <3>7 DEF ReadyInv, CacheIsYoung, AskedOverOps
  <2>4. CASE ~FromCache /\ ~Probing /\ Mode # "resource_server"
    <3> DEFINE r == Remembered(ready, LocalChecksPass, ready.now)
    <3>0. LocalChecksPass \in BOOLEAN
      BY DEF LocalChecksPass
    <3>1. ready' = Told(r, r.cache) /\ life.public
      BY <1>3, <1>l, <2>0, <2>4 DEF AskReady, SetReady
    <3> DEFINE ok == LocalChecksPass
    <3>2. r = Remembered(ready, ok, ready.now) /\ ok \in BOOLEAN
      BY <3>0
    <3> HIDE DEF r, ok
    <3>3. ready.now <= ready.now /\ ready.now <= ready.now + ProbeTimeout
      BY <1>c, <1>t
    <3> QED BY <1>t, <1>s, <2>0, <3>1, <3>2, <3>3, RememberedKeeps
  <2> QED BY <2>1, <2>2, <2>3, <2>4
<1>4. CASE IssuerSays
  <2> DEFINE said == IF ready.up THEN "good" ELSE "bad"
             probe == [ready.probe EXCEPT !.said = said, !.at = ready.now]
  <2>0. UNCHANGED life /\ ready.probe.said = "asked"
    BY <1>4 DEF IssuerSays, SetReady
  <2>1. ready' = [ready EXCEPT !.probe = probe]
    <3>1. ready' = [ready EXCEPT !.probe.said = said, !.probe.at = ready.now]
      BY <1>4 DEF IssuerSays, SetReady
    <3> HIDE DEF said
    <3> QED BY <1>t, <3>1 DEF Ready, ReadyProbe
  <2>2. said \in {"good", "bad"}
    OBVIOUS
  <2> HIDE DEF said
  <2>3. /\ probe \in ReadyProbe /\ probe.said = said /\ probe.at = ready.now
        /\ probe.since = ready.probe.since
    BY <1>t, <2>2 DEF ReadyProbe
  <2>4. probe # NoReadyProbe
    BY <2>2, <2>3 DEF NoReadyProbe
  <2> HIDE DEF probe
  <2>5. /\ ready' \in Ready /\ ready'.asked = ready.asked /\ ready'.now = ready.now
        /\ ready'.probe = probe /\ ready'.cache = ready.cache /\ ready'.sent = ready.sent
        /\ ready'.lag = ready.lag /\ ready'.shut = ready.shut
    BY ONLY <1>t, <2>1, <2>3 DEF Ready
  <2>6. Probing
    BY <1>i, <2>0 DEF ProbeIsYoung
  <2>7. ProbeIsYoung'
    BY <1>t, <1>i, <2>2, <2>3, <2>4, <2>5, <2>6 DEF ProbeIsYoung, Probing
  <2>8. ProbesApart'
    BY <1>i, <2>3, <2>4, <2>5, <2>6 DEF ProbesApart, Probing
  <2> QED BY <1>i, <2>0, <2>5, <2>7, <2>8 DEF ReadyInv, CacheIsYoung, AskedOverOps, Stage
<1>5. CASE ReadyProbeEnds
  <2>0. ~Stage("exited") /\ Probing /\ UNCHANGED life
    BY <1>5 DEF ReadyProbeEnds, SetReady
  <2>1. ready.asked => life.public
    BY <1>i, <1>l, <2>0 DEF AskedOverOps
  <2>2. CASE ready.probe.said # "asked" /\ ready' = ProbeResult
    <3> DEFINE ok == ready.probe.said = "good" /\ LocalChecksPass
               at == ready.probe.at
               r == Remembered(ready, ok, at)
    <3>1. ready' = IF ready.asked THEN Told(r, r.cache) ELSE r
      BY <2>2 DEF ProbeResult
    <3>2. ready.probe.said \in {"good", "bad"}
      BY <1>p, <1>i, <2>0, <2>2 DEF ProbeIsYoung
    <3>3. at \in Nat /\ at <= ready.now /\ ready.now <= at + ProbeTimeout
      BY <1>c, <1>t, <1>p, <1>i, <2>0, <3>2 DEF ProbeIsYoung
    <3>4. ok \in BOOLEAN
      OBVIOUS
    <3>5. r = Remembered(ready, ok, at)
      OBVIOUS
    <3>6. (ready' = r /\ ~ready.asked) \/ (ready' = Told(r, r.cache) /\ life.public)
      BY <2>1, <3>1
    <3> HIDE DEF ok, at, r
    <3> QED BY <1>s, <2>0, <3>3, <3>4, <3>5, <3>6, RememberedKeeps
  <2>3. CASE /\ ready.now = ready.probe.since + ProbeTimeout
             /\ ready' = LET r == Remembered(ready, FALSE, ready.now)
                         IN  IF ready.asked THEN Told(r, r.cache) ELSE r
    <3>0. PICK ok \in BOOLEAN : ok = FALSE
      OBVIOUS
    <3> DEFINE r == Remembered(ready, ok, ready.now)
    <3>1. ready' = IF ready.asked THEN Told(r, r.cache) ELSE r
      BY <2>3, <3>0
    <3>2. r = Remembered(ready, ok, ready.now)
      OBVIOUS
    <3>3. (ready' = r /\ ~ready.asked) \/ (ready' = Told(r, r.cache) /\ life.public)
      BY <2>1, <3>1
    <3> HIDE DEF r
    <3>4. ready.now <= ready.now /\ ready.now <= ready.now + ProbeTimeout
      BY <1>c, <1>t
    <3> QED BY <1>t, <1>s, <2>0, <3>2, <3>3, <3>4, RememberedKeeps
  <2> QED BY <1>5, <2>2, <2>3 DEF ReadyProbeEnds, SetReady
<1>6. CASE IssuerFlips
  <2> DEFINE up == ~ready.up
  <2>1. ready' = [ready EXCEPT !.up = up] /\ UNCHANGED life
    BY <1>6 DEF IssuerFlips, SetReady
  <2>2. up \in BOOLEAN
    OBVIOUS
  <2> HIDE DEF up
  <2>3. /\ ready' \in Ready /\ ready'.asked = ready.asked /\ ready'.now = ready.now
        /\ ready'.probe = ready.probe /\ ready'.cache = ready.cache /\ ready'.sent = ready.sent
        /\ ready'.lag = ready.lag /\ ready'.shut = ready.shut
    BY ONLY <1>t, <2>1, <2>2 DEF Ready
  <2> QED
    BY <1>i, <2>1, <2>3
       DEF ReadyInv, ProbeIsYoung, CacheIsYoung, ProbesApart, AskedOverOps, Probing, Stage
<1>7. CASE ClockTicks
  <2> DEFINE now == ready.now + 1
  <2>1. /\ ready' = [ready EXCEPT !.now = now] /\ UNCHANGED life
        /\ Probing => ready.now < ready.probe.since + ProbeTimeout
    BY <1>7 DEF ClockTicks, SetReady
  <2>2. now \in Nat /\ now = ready.now + 1
    BY <1>t
  <2> HIDE DEF now
  <2>3. /\ ready' \in Ready /\ ready'.asked = ready.asked /\ ready'.now = now
        /\ ready'.probe = ready.probe /\ ready'.cache = ready.cache /\ ready'.sent = ready.sent
        /\ ready'.lag = ready.lag /\ ready'.shut = ready.shut
    BY ONLY <1>t, <2>1, <2>2 DEF Ready
  <2>4. ProbeIsYoung'
    BY <1>c, <1>t, <1>p, <1>i, <2>1, <2>2, <2>3 DEF ProbeIsYoung, Probing
  <2>5. CacheIsYoung'
    BY <1>c, <1>t, <1>p, <1>i, <2>2, <2>3 DEF CacheIsYoung
  <2> QED
    BY <1>i, <2>1, <2>3, <2>4, <2>5 DEF ReadyInv, ProbesApart, AskedOverOps, Probing, Stage
<1>8. ASSUME NEW x \in Exchanges, ExchangeActions(x) PROVE UNCHANGED <<life, ready>>
  BY <1>8 DEF ExchangeActions, BeginExchange, BindIdentity, Answers, StreamEnds, ToolMarks,
              FailsInside, HandlerReturns, HandlerThrows, Finishes, ClientLeaves, Closes, SetExch
<1>9. CASE UNCHANGED processVars
  BY <1>9, LifeKeepsReady DEF processVars, Stage
<1>10. ASSUME UNCHANGED <<life, ready>> PROVE ReadyInv'
  BY <1>10, LifeKeepsReady DEF Stage
<1> QED
  BY <1>1, <1>2, <1>3, <1>4, <1>5, <1>6, <1>7, <1>8, <1>9, <1>10
     DEF ProcessNext, ExchangeActions

---------------------------------------------------------------------------
(* What holds of every run *)

\* The process starts within its invariant.
LEMMA ProcessStarted == ProcessInit => ProcessInv
<1> SUFFICES ASSUME NEW l \in Launches, ProcessStarts(l) PROVE ProcessInv
  BY DEF ProcessInit
<1>c. CacheTime \in Nat \ {0} /\ ProbeTimeout \in Nat \ {0}
  BY ProcessAssumption DEF ProcessAssumption
<1>1. LifeInv
  <2>1. /\ life = [launch |-> l, stage |-> "launched", public |-> FALSE, ops |-> FALSE,
                   code |-> -1, signals |-> 0]
        /\ "launched" \in Stages
    BY DEF ProcessStarts, Stages
  <2>2. life \in Life
    BY ONLY <2>1, l \in Launches DEF Life
  <2> QED BY <2>1, <2>2 DEF LifeInv, NotRefused, ServerBuilt, ListensInTurn, Listening
<1>2. ExchangesInv
  <2>1. Idle \in Exchange
    BY DEF Idle, Exchange, Outcomes
  <2>2. ExchangeInv(Idle)
    BY <2>1 DEF ExchangeInv, Untouched, GoesItsWay, RowInTime, CountedAtReturn, WorstOf, Idle
  <2>3. \A x \in Exchanges : exch[x] = Idle
    BY DEF ProcessStarts
  <2>4. exch \in [Exchanges -> Exchange]
    BY <2>1 DEF ProcessStarts
  <2>5. OperatorIsLocal
    <3>1. Idle.stage = "none"
      BY DEF Idle
    <3> QED BY <2>3, <3>1 DEF OperatorIsLocal
  <2> QED BY <2>2, <2>3, <2>4, <2>5 DEF ExchangesInv
<1>3. ReadyInv
  <2>1. ready = [now |-> 0, up |-> TRUE, probe |-> NoReadyProbe, cache |-> NoResult,
                 asked |-> FALSE, sent |-> 0, lag |-> 0, shut |-> FALSE]
    BY DEF ProcessStarts
  <2>2. /\ NoReadyProbe \in ReadyProbe /\ NoReadyProbe.said = "none"
        /\ NoResult \in Results /\ NoResult.ok = FALSE /\ NoResult.until = 0
    BY DEF NoReadyProbe, ReadyProbe, NoResult, Results
  <2>3. ready \in Ready
    BY ONLY <2>1, <2>2 DEF Ready, Results
  <2>4. ready.sent * CacheTime = 0
    BY <1>c, <2>1
  <2> QED
    BY <1>c, <2>1, <2>2, <2>3, <2>4
       DEF ReadyInv, ProbeIsYoung, CacheIsYoung, ProbesApart, AskedOverOps, Probing
<1> QED BY <1>1, <1>2, <1>3 DEF ProcessInv

\* The stage tells what was checked, every row what happened, and every "ready"
\* is young: in every run of the process.
THEOREM ProcessInvariant == ProcessSpec => []ProcessInv
<1>1. ProcessInv /\ [ProcessNext]_processVars => ProcessInv'
  BY LifeStep, ExchangesStep, ReadyStep DEF ProcessInv
<1> QED BY ProcessStarted, <1>1, PTL DEF ProcessSpec

\* Who can reach the process is who the operator let in, for every launch: what
\* index.js, http-auth.js and ops-bind.js check before a port is bound.
THEOREM ServesWhomItMay == ProcessSpec => []ServesOnlyAsAllowed
<1>1. ProcessInv => ServesOnlyAsAllowed
  <2> SUFFICES ASSUME ProcessInv PROVE ServesOnlyAsAllowed
    OBVIOUS
  <2> DEFINE l == life.launch
             cfg == Auth(l)
  <2>l. LifeInv /\ life \in Life /\ l \in Launches
    BY DEF ProcessInv, LifeInv, Life
  <2>a. /\ cfg.sharedToken = l.auth.sharedToken /\ cfg.set = l.auth.set
        /\ cfg.allowUnauth = l.auth.allowUnauth /\ cfg.https = l.auth.https
        /\ cfg.discovered = l.auth.discovered
        /\ cfg.loopback = (BindHost(l) = "loopback")
    <3>1. {"sharedToken", "set", "loopback", "allowUnauth", "https", "resource", "discovered"}
            \subseteq DOMAIN l.auth
      BY <2>l, ProcessAssumption DEF ProcessAssumption
    <3> QED BY <3>1 DEF Auth
  <2>1. ASSUME life.public
        PROVE  /\ l.scoped /\ (l.named = {} \/ l.named \ Unset(l) # {})
               /\ BindHost(l) # "loopback" => l.tls = "good" /\ CompleteServer \subseteq l.auth.set
               /\ CompleteServer \subseteq l.auth.set => l.auth.https /\ l.auth.discovered
    <3>1. life.stage \in Listening
      BY <2>1, <2>l DEF LifeInv, ListensInTurn, Listening
    <3>2. /\ ~Refused(l) /\ l.transport # "stdio" /\ NodeServer(l)
          /\ Mode = "resource_server" => Discovered(l)
      BY <2>l, <3>1 DEF LifeInv, NotRefused, ServerBuilt
    <3>3. /\ ~SecretsFatal(l) /\ l.scoped /\ InboundMode(cfg) # "fatal"
          /\ ~(l.tls = "none" /\ BindHost(l) # "loopback")
      BY <3>2 DEF Refused
    <3>4. l.named = {} \/ l.named \ Unset(l) # {}
      BY <3>3 DEF SecretsFatal, Unset
    <3>5. BindHost(l) # "loopback" => l.tls = "good"
      BY <3>2, <3>3 DEF NodeServer
    <3> HIDE DEF cfg
    <3>6. BindHost(l) # "loopback" => CompleteServer \subseteq l.auth.set
      BY <2>a, <3>3 DEF InboundMode
    <3>7. ASSUME CompleteServer \subseteq l.auth.set PROVE l.auth.https /\ l.auth.discovered
      <4>1. InboundMode(cfg) = "resource_server"
        BY <2>a, <3>3, <3>7 DEF InboundMode
      <4>2. AuthenticatorBuilds(cfg)
        BY <3>2, <4>1 DEF cfg, Mode, Discovered
      <4> QED BY <2>a, <4>2 DEF AuthenticatorBuilds
    <3> QED BY <3>3, <3>4, <3>5, <3>6, <3>7
  <2>2. ASSUME NEW x \in Exchanges, exch[x].bound, Way(x).bound = "operator"
        PROVE  BindHost(l) = "loopback" /\ l.auth.set = {}
    <3>1. exch[x].stage # "none"
      BY <2>2 DEF ProcessInv, ExchangesInv, ExchangeInv, Untouched
    <3>2. InboundMode(cfg) = "unauthenticated" /\ BindHost(l) = "loopback"
      BY <2>2, <3>1 DEF ProcessInv, ExchangesInv, OperatorIsLocal, AllowLocalOperator, Mode
    <3> HIDE DEF cfg
    <3> QED BY <2>a, <3>2 DEF InboundMode
  <2>3. life.ops => life.public /\ OpsSpec(l) \in {"loopback", "mesh"}
    BY <2>l DEF LifeInv, ListensInTurn, OpsListen
  <2>4. life.code = 0 => ~life.public /\ ~life.ops
    BY <2>l DEF LifeInv, ListensInTurn
  <2> HIDE DEF l, cfg
  <2> QED BY <2>1, <2>2, <2>3, <2>4 DEF ServesOnlyAsAllowed, l
<1> QED BY ProcessInvariant, <1>1, PTL

\* The operators are told the truth, for every number of exchanges and every
\* cache and probe time: what http-audit.js writes, metrics.js counts, and
\* ops-ready.js answers.
THEOREM OperatorsLearnTheTruth == ProcessSpec => []OperatorsAreToldTheTruth
<1>1. ProcessInv => OperatorsAreToldTheTruth
  <2> SUFFICES ASSUME ProcessInv PROVE OperatorsAreToldTheTruth
    OBVIOUS
  <2>1. ASSUME NEW x \in Exchanges, exch[x].conn \in {"sent", "closed"}
        PROVE  RowIsTrue(exch[x])
    BY <2>1 DEF ProcessInv, ExchangesInv, ExchangeInv, RowInTime
  <2>2. ready.lag < CacheTime + ProbeTimeout /\ ~ready.shut
    BY DEF ProcessInv, ReadyInv
  <2>3. ready.sent <= 1 + ready.now \div CacheTime
    <3>t. CacheTime \in Nat /\ ready.sent \in Nat /\ ready.now \in Nat /\ ready.cache.until \in Nat
      BY ProcessAssumption DEF ProcessAssumption, ProcessInv, ReadyInv, Ready
    <3>1. CASE Probing
      <4>1. (ready.sent - 1) * CacheTime <= ready.probe.since /\ ready.probe.since <= ready.now
        BY <3>1 DEF ProcessInv, ReadyInv, ProbesApart, ProbeIsYoung
      <4>2. ready.probe.since \in Nat /\ (ready.sent - 1) * CacheTime \in Int
        BY <3>t DEF ProcessInv, ReadyInv, Ready, ReadyProbe
      <4>3. (ready.sent - 1) * CacheTime <= ready.now
        BY <3>t, <4>1, <4>2
      <4> QED BY <3>t, <4>3, CacheTimes
    <3>2. CASE ~Probing
      <4> DEFINE spent == ready.sent * CacheTime
      <4>1. spent <= ready.cache.until /\ ready.cache.until <= ready.now + CacheTime
        BY <3>2 DEF ProcessInv, ReadyInv, ProbesApart, CacheIsYoung
      <4>2. spent \in Nat /\ (ready.sent - 1) * CacheTime = spent - CacheTime
        BY <3>t, CacheTimes
      <4> HIDE DEF spent
      <4>3. (ready.sent - 1) * CacheTime <= ready.now
        BY <3>t, <4>1, <4>2
      <4> QED BY <3>t, <4>3, CacheTimes
    <3> QED BY <3>1, <3>2
  <2> QED BY <2>1, <2>2, <2>3 DEF OperatorsAreToldTheTruth
<1> QED BY ProcessInvariant, <1>1, PTL

---------------------------------------------------------------------------
(* Sequences *)

IsASequence(t) == t \in Seq(ToSet(t))

\* A sequence over some set is one over its own elements.
LEMMA OwnElements ==
  ASSUME NEW S, NEW t \in Seq(S)
  PROVE  IsASequence(t) /\ ToSet(t) \subseteq S /\ Len(t) \in Nat /\ DOMAIN t = 1..Len(t)
<1>1. Len(t) \in Nat /\ t \in [1..Len(t) -> S] /\ DOMAIN t = 1..Len(t)
  BY LenProperties
<1>2. t \in [1..Len(t) -> ToSet(t)]
  BY <1>1 DEF ToSet
<1>3. t \in Seq(ToSet(t))
  BY <1>1, <1>2, SeqDef
<1>4. ToSet(t) \subseteq S
  BY <1>1 DEF ToSet
<1> QED BY <1>1, <1>3, <1>4 DEF IsASequence

\* The nth of some places, counted from the first.
LEMMA PlacesInOrder ==
  ASSUME NEW n \in Nat, NEW places \in SUBSET (1..n)
  PROVE  /\ Cardinality(places) \in Nat
         /\ \A i \in places : Cardinality({j \in places : j <= i}) \in 1..Cardinality(places)
         /\ \A i, k \in places :
              Cardinality({j \in places : j <= i}) = Cardinality({j \in places : j <= k}) => i = k
         /\ \A m \in 1..Cardinality(places) : \E i \in places : Cardinality({j \in places : j <= i}) = m
<1> DEFINE Upto(i) == {j \in places : j <= i}
           rank == [i \in places |-> Cardinality(Upto(i))]
<1>1. IsFiniteSet(places) /\ Cardinality(places) \in Nat
  <2>1. IsFiniteSet(1..n)
    BY FS_Interval
  <2> QED BY <2>1, FS_Subset, FS_CardinalityType
<1>2. ASSUME NEW i \in places
      PROVE  IsFiniteSet(Upto(i)) /\ Cardinality(Upto(i)) \in 1..Cardinality(places)
  <2>1. IsFiniteSet(Upto(i)) /\ Cardinality(Upto(i)) <= Cardinality(places)
    BY <1>1, FS_Subset
  <2>2. Cardinality(Upto(i)) \in Nat /\ i \in Upto(i)
    BY <2>1, FS_CardinalityType
  <2>3. Cardinality(Upto(i)) # 0
    BY <2>1, <2>2, FS_EmptySet
  <2> QED BY <1>1, <2>1, <2>2, <2>3
<1>3. ASSUME NEW i \in places, NEW k \in places, i <= k, Cardinality(Upto(i)) = Cardinality(Upto(k))
      PROVE  i = k
  <2>1. Upto(i) \in SUBSET Upto(k)
    <3>1. \A j \in places : j <= i => j <= k
      <4>1. \A j \in places : j \in Nat
        OBVIOUS
      <4> QED BY <1>3, <4>1
    <3> QED BY <3>1
  <2>2. Upto(i) = Upto(k)
    BY <1>2, <1>3, <2>1, FS_Subset
  <2>3. k \in Upto(k)
    OBVIOUS
  <2> QED BY <1>3, <2>2, <2>3
<1>4. ASSUME NEW i \in places, NEW k \in places, Cardinality(Upto(i)) = Cardinality(Upto(k))
      PROVE  i = k
  <2>1. i <= k \/ k <= i
    OBVIOUS
  <2> QED BY <1>3, <1>4, <2>1
<1>5. rank \in Injection(places, 1..Cardinality(places))
  BY <1>2, <1>4 DEF Injection, IsInjective
<1>6. rank \in Surjection(places, 1..Cardinality(places))
  <2>1. IsFiniteSet(1..Cardinality(places)) /\ Cardinality(1..Cardinality(places)) = Cardinality(places)
    BY <1>1, FS_Interval
  <2> QED BY <1>5, <2>1, FS_Injection
<1>7. ASSUME NEW m \in 1..Cardinality(places) PROVE \E i \in places : Cardinality(Upto(i)) = m
  BY <1>6 DEF Surjection
<1> QED BY <1>1, <1>2, <1>4, <1>7

\* What is kept of a sequence has the elements that were to be kept.
LEMMA KeptFacts ==
  ASSUME NEW t, IsASequence(t), NEW S
  PROVE  IsASequence(Kept(t, S)) /\ ToSet(Kept(t, S)) = ToSet(t) \cap S
<1> DEFINE places == {i \in DOMAIN t : t[i] \in S}
           Nth(k) == CHOOSE i \in places : Cardinality({j \in places : j <= i}) = k
           kept == [k \in 1..Cardinality(places) |-> t[Nth(k)]]
<1>1. Len(t) \in Nat /\ DOMAIN t = 1..Len(t)
  BY OwnElements DEF IsASequence
<1>2. /\ Cardinality(places) \in Nat
      /\ \A i \in places : Cardinality({j \in places : j <= i}) \in 1..Cardinality(places)
      /\ \A i, k \in places :
           Cardinality({j \in places : j <= i}) = Cardinality({j \in places : j <= k}) => i = k
      /\ \A m \in 1..Cardinality(places) : \E i \in places : Cardinality({j \in places : j <= i}) = m
  <2>1. places \in SUBSET (1..Len(t))
    BY <1>1
  <2> HIDE DEF places
  <2> QED BY <1>1, <2>1, PlacesInOrder
<1>3. \A k \in 1..Cardinality(places) : Nth(k) \in places
  BY <1>2
<1>4. \A i \in places : Cardinality({j \in places : j <= i}) \in 1..Cardinality(places)
                        /\ Nth(Cardinality({j \in places : j <= i})) = i
  <2> SUFFICES ASSUME NEW i \in places
               PROVE  Cardinality({j \in places : j <= i}) \in 1..Cardinality(places)
                      /\ Nth(Cardinality({j \in places : j <= i})) = i
    OBVIOUS
  <2>1. PICK m : m = Cardinality({j \in places : j <= i})
    OBVIOUS
  <2>2. Nth(m) \in places /\ Cardinality({j \in places : j <= Nth(m)}) = m
    BY <2>1
  <2>3. Nth(m) = i
    BY <1>2, <2>1, <2>2
  <2> QED BY <1>2, <2>1, <2>3
<1>5. Kept(t, S) = kept
  BY DEF Kept
<1>6. \A k \in 1..Cardinality(places) : kept[k] \in ToSet(t) \cap S
  <2> SUFFICES ASSUME NEW k \in 1..Cardinality(places) PROVE kept[k] \in ToSet(t) \cap S
    OBVIOUS
  <2>1. Nth(k) \in places /\ kept[k] = t[Nth(k)]
    BY <1>3
  <2> QED BY <2>1 DEF ToSet
<1>7. \A x \in ToSet(t) \cap S : \E k \in 1..Cardinality(places) : kept[k] = x
  <2> SUFFICES ASSUME NEW x \in ToSet(t) \cap S PROVE \E k \in 1..Cardinality(places) : kept[k] = x
    OBVIOUS
  <2>1. PICK i \in places : t[i] = x
    BY DEF ToSet
  <2>2. PICK m : m = Cardinality({j \in places : j <= i})
    OBVIOUS
  <2>3. m \in 1..Cardinality(places) /\ Nth(m) = i
    BY <1>4, <2>2
  <2>4. kept[m] = x
    BY <2>1, <2>3
  <2> QED BY <2>3, <2>4
<1>8. DOMAIN kept = 1..Cardinality(places)
  OBVIOUS
<1> HIDE DEF kept, places
<1>9. ToSet(kept) = ToSet(t) \cap S
  BY <1>6, <1>7, <1>8 DEF ToSet
<1>10. kept \in Seq(ToSet(kept))
  <2>1. kept \in [1..Cardinality(places) -> ToSet(kept)]
    <3>1. kept = [k \in 1..Cardinality(places) |-> kept[k]]
      BY DEF kept
    <3>2. \A k \in 1..Cardinality(places) : kept[k] \in ToSet(kept)
      BY <1>8 DEF ToSet
    <3> QED BY <3>1, <3>2
  <2> QED BY <1>2, <2>1, SeqDef
<1> QED BY <1>5, <1>9, <1>10 DEF IsASequence

\* Two sequences after another, an element behind, and what stands behind the first.
LEMMA ConcatElements ==
  ASSUME NEW s, NEW t, IsASequence(s), IsASequence(t)
  PROVE  IsASequence(s \o t) /\ ToSet(s \o t) = ToSet(s) \cup ToSet(t)
<1> DEFINE S == ToSet(s) \cup ToSet(t)
<1>1. s \in Seq(S) /\ t \in Seq(S)
  BY SeqDef DEF IsASequence
<1>2. PICK m, n : m = Len(s) /\ n = Len(t)
  OBVIOUS
<1>3. m \in Nat /\ n \in Nat /\ DOMAIN s = 1..m /\ DOMAIN t = 1..n
  BY <1>2, OwnElements DEF IsASequence
<1>4. PICK c : c = s \o t
  OBVIOUS
<1>5. /\ c \in Seq(S) /\ Len(c) = m + n
      /\ \A i \in 1..m + n : c[i] = IF i <= m THEN s[i] ELSE t[i - m]
  BY <1>1, <1>2, <1>4, ConcatProperties
<1>6. IsASequence(c) /\ DOMAIN c = 1..m + n /\ ToSet(c) \subseteq S
  <2> HIDE DEF S
  <2> QED BY <1>5, OwnElements
<1>7. ASSUME NEW i \in DOMAIN s PROVE s[i] \in ToSet(c)
  <2>1. i \in 1..m + n /\ i <= m
    BY <1>3
  <2>2. c[i] = s[i]
    BY <1>5, <2>1
  <2> QED BY <1>6, <2>1, <2>2 DEF ToSet
<1>8. ASSUME NEW i \in DOMAIN t PROVE t[i] \in ToSet(c)
  <2>1. m + i \in 1..m + n /\ ~(m + i <= m) /\ (m + i) - m = i
    BY <1>3
  <2>2. c[m + i] = t[i]
    BY <1>5, <2>1
  <2> QED BY <1>6, <2>1, <2>2 DEF ToSet
<1>9. S \subseteq ToSet(c)
  BY <1>7, <1>8 DEF ToSet
<1> QED BY <1>4, <1>6, <1>9

LEMMA OneElement ==
  ASSUME NEW e
  PROVE  IsASequence(<<e>>) /\ ToSet(<<e>>) = {e}
<1>1. ToSet(<<e>>) = {e}
  BY DEF ToSet
<1> QED BY <1>1 DEF IsASequence

LEMMA NoElement == IsASequence(<<>>) /\ ToSet(<<>>) = {}
BY DEF IsASequence, ToSet

LEMMA AppendElements ==
  ASSUME NEW s, IsASequence(s), NEW e
  PROVE  IsASequence(Append(s, e)) /\ ToSet(Append(s, e)) = ToSet(s) \cup {e}
<1>1. Append(s, e) = s \o <<e>>
  <2>1. s \in Seq(ToSet(s) \cup {e}) /\ e \in ToSet(s) \cup {e}
    BY SeqDef DEF IsASequence
  <2> QED BY <2>1, AppendIsConcat
<1> QED BY <1>1, ConcatElements, OneElement

LEMMA TailElements ==
  ASSUME NEW s, IsASequence(s), s # <<>>
  PROVE  /\ IsASequence(Tail(s)) /\ ToSet(s) = {Head(s)} \cup ToSet(Tail(s))
         /\ Head(s) \in ToSet(s)
<1>1. PICK n : n = Len(s)
  OBVIOUS
<1>2. n \in Nat /\ DOMAIN s = 1..n /\ n # 0
  <2>1. n \in Nat /\ DOMAIN s = 1..n
    BY <1>1, OwnElements DEF IsASequence
  <2> QED BY <1>1, <2>1, EmptySeq DEF IsASequence
<1>3. Head(s) \in ToSet(s) /\ Head(s) = s[1]
  <2>1. Head(s) \in ToSet(s)
    BY HeadTailProperties DEF IsASequence
  <2>2. SubSeq(s, 1, n) = s /\ Head(SubSeq(s, 1, n)) = s[1]
    BY <1>1, <1>2, HeadTailOfSubSeq, SubSeqFull DEF IsASequence
  <2> QED BY <2>1, <2>2
<1>4. PICK t : t = Tail(s)
  OBVIOUS
<1>5. t \in Seq(ToSet(s)) /\ Len(t) = n - 1 /\ \A i \in 1..Len(t) : t[i] = s[i + 1]
  BY <1>1, <1>4, HeadTailProperties DEF IsASequence
<1>6. IsASequence(t) /\ ToSet(t) \subseteq ToSet(s) /\ DOMAIN t = 1..(n - 1)
  BY <1>5, OwnElements
<1>7. ASSUME NEW i \in DOMAIN s PROVE s[i] \in {Head(s)} \cup ToSet(t)
  <2>1. CASE i = 1
    BY <1>3, <2>1
  <2>2. CASE i # 1
    <3>1. i - 1 \in 1..(n - 1) /\ (i - 1) + 1 = i
      BY <1>2, <2>2
    <3>2. t[i - 1] = s[i]
      BY <1>5, <3>1
    <3> QED BY <1>6, <3>1, <3>2 DEF ToSet
  <2> QED BY <2>1, <2>2
<1>8. ToSet(s) \subseteq {Head(s)} \cup ToSet(t)
  BY <1>7 DEF ToSet
<1> QED BY <1>3, <1>4, <1>6, <1>8

\* A stretch of a sequence.
LEMMA StretchElements ==
  ASSUME NEW s, IsASequence(s), NEW m \in Nat, NEW n \in Nat, n <= Len(s),
         NEW t, t = SubSeq(s, m + 1, n)
  PROVE  /\ IsASequence(t) /\ Len(t) = (IF m < n THEN n - m ELSE 0)
         /\ ToSet(t) \subseteq ToSet(s) /\ \A i \in (m + 1)..n : s[i] \in ToSet(t)
<1>1. Len(s) \in Nat /\ DOMAIN s = 1..Len(s)
  BY OwnElements DEF IsASequence
<1>2. (m + 1)..n \subseteq DOMAIN s
  BY <1>1
<1>3. \A i \in (m + 1)..n : s[i] \in ToSet(s)
  BY <1>2 DEF ToSet
<1>5. /\ t \in Seq(ToSet(s)) /\ Len(t) = (IF m + 1 <= n THEN n - (m + 1) + 1 ELSE 0)
      /\ \A i \in 1..n - (m + 1) + 1 : t[i] = s[(m + 1) + i - 1]
  <2>1. m + 1 \in Int /\ n \in Int
    OBVIOUS
  <2> QED BY <1>3, <2>1, SubSeqProperties
<1>6. IsASequence(t) /\ ToSet(t) \subseteq ToSet(s) /\ DOMAIN t = 1..Len(t)
  BY <1>5, OwnElements
<1>7. Len(t) = (IF m < n THEN n - m ELSE 0)
  BY <1>5
<1>9. ASSUME NEW k \in (m + 1)..n PROVE s[k] \in ToSet(t)
  <2>1. k - m \in DOMAIN t /\ k - m \in 1..n - (m + 1) + 1 /\ (m + 1) + (k - m) - 1 = k
    BY <1>6, <1>7
  <2>2. t[k - m] = s[k]
    BY <1>5, <2>1
  <2> QED BY <2>1, <2>2 DEF ToSet
<1> QED BY <1>6, <1>7, <1>9

\* The listing of a bundle, and a bundle of which a row was saved.
LEMMA ListingFacts ==
  ASSUME NEW ids, IsASequence(ids), NEW of
  PROVE  /\ IsASequence(ListingOf(ids, of))
         /\ ToSet(ListingOf(ids, of)) = {id \in ToSet(ids) : Matches(Current, of[id])}
<1> DEFINE S == {id \in ToSet(ids) : Matches(Current, of[id])}
<1>1. ListingOf(ids, of) = Kept(ids, S)
  BY DEF ListingOf
<1>2. S \subseteq ToSet(ids)
  OBVIOUS
<1> HIDE DEF S
<1>3. IsASequence(ListingOf(ids, of)) /\ ToSet(ListingOf(ids, of)) = S
  BY <1>1, <1>2, KeptFacts
<1> QED BY <1>3 DEF S

LEMMA SavedFacts ==
  ASSUME NEW r, NEW t, IsASequence(t), NEW id, NEW u,
         u = Saved(r, t, id) \/ u = Kept(t, ToSet(t) \ {id})
  PROVE  IsASequence(u) /\ ToSet(u) \ {id} = ToSet(t) \ {id} /\ ToSet(u) \subseteq ToSet(t) \cup {id}
<1>1. PICK others : others = Kept(t, ToSet(t) \ {id})
  OBVIOUS
<1>2. IsASequence(others) /\ ToSet(others) = ToSet(t) \ {id}
  BY <1>1, KeptFacts
<1>3. u = others \/ u = <<id>> \o others \/ u = Append(others, id) \/ u = t
  BY <1>1 DEF Saved
<1>4. IsASequence(<<id>> \o others) /\ ToSet(<<id>> \o others) = {id} \cup ToSet(others)
  BY <1>2, ConcatElements, OneElement
<1>5. IsASequence(Append(others, id)) /\ ToSet(Append(others, id)) = ToSet(others) \cup {id}
  BY <1>2, AppendElements
<1> QED BY <1>2, <1>3, <1>4, <1>5

WorkFields == {"left", "health", "type", "lacks", "sections", "grade", "faults", "edits"}
RepFields == {"place", "status", "left", "offset", "seen", "queue", "asked", "known", "second",
              "tried", "found", "admits", "silent", "cut", "sliced", "touched", "shifted"}

\* What is asked for and where the running report stands.
CallShape ==
  /\ DOMAIN work = WorkFields /\ DOMAIN rep = RepFields
  /\ work.left \in Seq(DOMAIN ReportOf) /\ work.type \in {""} \cup ToSet(Bundles)
  /\ rep.place \in {"idle", "reading", "ended"}
  /\ rep.place = "idle" => rep = NoReport
  /\ rep.place # "idle" => work.left # <<>>

\* A row is in one bundle at most.
SiteShape ==
  /\ DOMAIN content = ToSet(Bundles) /\ NewRow \in DOMAIN rows
  /\ \A b \in ToSet(Bundles) : IsASequence(content[b]) /\ ToSet(content[b]) \subseteq DOMAIN rows
  /\ \A b, c \in ToSet(Bundles) : b # c => ToSet(content[b]) \cap ToSet(content[c]) = {}

\* The bundles still to be read are in scope, and a named one is readable.
InPlace ==
  /\ IsASequence(rep.left) /\ ToSet(rep.left) \subseteq ToSet(Scope(Current))
  /\ rep.offset \in Nat /\ (rep.offset = 0 \/ rep.offset < SampleSize)
  /\ Current.over = "bundle" => work.type # ""
  /\ Current.over \in {"bundle", "readable", "each"} /\ work.type # "" => Readable(work.type)

\* The rows read are those of the site, except where an editor came after.
RowsRead ==
  /\ IsFiniteSet(DOMAIN rep.seen) /\ DOMAIN rep.seen \subseteq DOMAIN rows
  /\ \A id \in DOMAIN rep.seen :
       /\ rep.seen[id].bundle \in ToSet(Scope(Current))
       /\ Readable(rep.seen[id].bundle) \/ Current.pages = "counted"
  /\ \A id \in DOMAIN rep.seen \ rep.touched :
       /\ rep.seen[id].row = rows[id] /\ id \in ToSet(content[rep.seen[id].bundle])
       /\ Matches(Current, rows[id])

\* A row that was asked about is found out, is not defective, or is admitted.
RowsAsked ==
  /\ IsASequence(rep.queue) /\ ToSet(rep.queue) \subseteq DOMAIN rows
  /\ \A id \in ToSet(rep.queue) \ rep.touched : Present(id)
  /\ \A f \in rep.found : f.id \in DOMAIN rows /\ (f.why = "bad" /\ f.id \notin rep.touched => rows[f.id].bad)
  /\ Follows(Current) /\ ~rep.admits =>
       \A id \in DOMAIN rep.seen \ rep.touched :
         rows[id].bad => id \in ToSet(rep.queue) \cup {f.id : f \in rep.found}

\* All rows of a bundle that was read are known, and those before the offset of
\* the bundle that is being read.
Covered(b) ==
  LET list == ListingOf(content[b], rows)
  IN  /\ b \notin ToSet(rep.left) => ToSet(list) \subseteq DOMAIN rep.seen \cup rep.touched
      /\ rep.left # <<>> /\ b = Head(rep.left) =>
           \A i \in DOMAIN list : i <= rep.offset => list[i] \in DOMAIN rep.seen \cup rep.touched

\* A list that stops short of the end says so, or is known not to.
Incomplete == rep.admits \/ rep.shifted \/ (rep.cut /\ Current.tells = "never")
              \/ (rep.silent /\ Name = "userActivity")
NothingMissed ==
  /\ rep.cut => Current.tells = "never" \/ rep.admits
  /\ Incomplete \/ \A b \in ToSet(Scope(Current)) : Covered(b)

ReportInv ==
  /\ CallShape /\ SiteShape
  /\ Reading => InPlace /\ RowsRead /\ RowsAsked /\ NothingMissed
  /\ ReportIsTrue

---------------------------------------------------------------------------
(* The reports *)

\* What the choices of each report have in common.
Sound(name, r) ==
  /\ r.over \in {"every", "readable", "each", "collection", "bundle"}
  /\ r.over = "every" => r.pages = "counted"
  /\ r.over \in {"bundle", "readable", "each"} => r.guarded
  /\ r.over = "readable" => name = "recentlyPublished" \/ r.only = "unpublished"
  /\ r.sight \in {"clear", "skips", "counts", "guesses", "gates", "lists"}
  /\ r.tells \in {"never", "hasNext", "atCap"}
  /\ r.tells = "atCap" => r.pages \in {"paged", "whole"}
  /\ r.listFails = "silent" => name = "userActivity"
  /\ r.follow = "advisories" => name = "moduleAudit"
  /\ r.follow = "rendered" => name = "seoAudit"
  /\ r.of = "twins" => r.sight = "clear" /\ r.follow = "none"
  /\ r.sight \in {"lists", "guesses"} => r.over = "bundle"
  /\ Follows(r) => /\ r.of = "bad" /\ r.verdict.good = "ok" /\ r.verdict.bad = "bad"
                   /\ r.verdict.closed \in {"told", "throws"}
                   /\ r.verdict.absent \in {"told", "bad", "gates", "throws", "ok", "unseen"}
                   /\ r.verdict.down \in {"told", "throws", "unseen"}

LEMMA ReadConfigChoices ==
  /\ ReadConfig.over = "collection" /\ ReadConfig.tells = "atCap" /\ ReadConfig.pages = "whole"
  /\ ReadConfig.follow = "row" /\ ReadConfig.of = "bad" /\ ReadConfig.sight = "clear"
  /\ ReadConfig.listFails = "throws"
  /\ {"over", "tells", "pages", "follow", "of", "sight", "listFails", "verdict"} \subseteq DOMAIN ReadConfig
  /\ ReadConfig.verdict = [Direct EXCEPT !.closed = "throws", !.absent = "throws", !.down = "throws"]
<1> DEFINE V == [Direct EXCEPT !.closed = "throws", !.absent = "throws", !.down = "throws"]
<1>1. ReadConfig = [Privileged EXCEPT !.guarded = TRUE, !.listFails = "throws", !.follow = "row",
                                      !.retry = "drush", !.verdict = V]
  BY DEF ReadConfig
<1> HIDE DEF V
<1>2. /\ ReadConfig.over = "collection" /\ ReadConfig.tells = "atCap" /\ ReadConfig.pages = "whole"
      /\ ReadConfig.follow = "row" /\ ReadConfig.of = "bad" /\ ReadConfig.sight = "clear"
      /\ ReadConfig.listFails = "throws"
      /\ {"over", "tells", "pages", "follow", "of", "sight", "listFails", "verdict"} \subseteq DOMAIN ReadConfig
      /\ ReadConfig.verdict = V
  BY <1>1 DEF Privileged, NodeSample
<1> QED BY <1>2 DEF V
LEMMA ConfigVerdicts ==
  /\ ReadConfig.verdict.good = "ok" /\ ReadConfig.verdict.bad = "bad"
  /\ ReadConfig.verdict.closed = "throws" /\ ReadConfig.verdict.absent = "throws"
  /\ ReadConfig.verdict.down = "throws"
  BY ReadConfigChoices DEF Direct

LEMMA ReportsAreSound ==
  ASSUME NEW name \in DOMAIN ReportOf
  PROVE  Sound(name, ReportOf[name])
<1>1. name \in {"contentSummary", "staleContent", "contentByAuthor", "recentlyPublished",
                "fieldCompleteness", "taxonomyUsage", "revisionHotspots", "userActivity",
                "seoAudit", "accessibilityAudit", "duplicateContent", "workflowBottlenecks",
                "workflowInLanguage", "translationCoverage", "scheduledContent", "readability",
                "orphanPages", "piiExposure", "seoMetaCoverage", "redirectHealth", "menuIntegrity",
                "aliasCoverage", "brokenEmbeds", "brokenLinks", "brokenLinksLive", "unpublished",
                "missingField", "orphanedReferences", "configDrift", "statusReport",
                "permissionAudit", "moduleAudit", "log404", "configBestPractices",
                "textFormatAudit", "cacheConfig"}
  BY DEF ReportOf
<1>2. CASE name = "contentSummary"
  <2>1. ReportOf[name] = ContentSummary
    BY <1>2 DEF ReportOf
  <2> QED BY <1>2, <2>1 DEF Sound, Follows, ContentSummary, NodeSample, Direct
<1>3. CASE name = "staleContent"
  <2>1. ReportOf[name] = StaleContent
    BY <1>3 DEF ReportOf
  <2> QED BY <1>3, <2>1 DEF Sound, Follows, StaleContent, NodeSample, Direct
<1>4. CASE name = "contentByAuthor"
  <2>1. ReportOf[name] = ContentByAuthor
    BY <1>4 DEF ReportOf
  <2> QED BY <1>4, <2>1 DEF Sound, Follows, ContentByAuthor, NodeSample, Direct
<1>5. CASE name = "recentlyPublished"
  <2>1. ReportOf[name] = RecentlyPublished
    BY <1>5 DEF ReportOf
  <2> QED BY <1>5, <2>1 DEF Sound, Follows, RecentlyPublished, PublishedSample, NodeSample, Direct
<1>6. CASE name = "fieldCompleteness"
  <2>1. ReportOf[name] = FieldCompleteness
    BY <1>6 DEF ReportOf
  <2> QED BY <1>6, <2>1 DEF Sound, Follows, FieldCompleteness, PublishedSample, NodeSample, Direct
<1>7. CASE name = "taxonomyUsage"
  <2>1. ReportOf[name] = TaxonomyUsage
    BY <1>7 DEF ReportOf
  <2> QED BY <1>7, <2>1 DEF Sound, Follows, TaxonomyUsage, NodeSample, Direct
<1>8. CASE name = "revisionHotspots"
  <2>1. ReportOf[name] = RevisionHotspots
    BY <1>8 DEF ReportOf
  <2> QED BY <1>8, <2>1 DEF Sound, Follows, RevisionHotspots, LatestSample, NodeSample, Direct
<1>9. CASE name = "userActivity"
  <2>1. ReportOf[name] = UserActivity
    BY <1>9 DEF ReportOf
  <2> QED BY <1>9, <2>1 DEF Sound, Follows, UserActivity, NodeSample, Direct
<1>10. CASE name = "seoAudit"
  <2>1. ReportOf[name] = SeoAudit
    BY <1>10 DEF ReportOf
  <2> QED BY <1>10, <2>1 DEF Sound, Follows, SeoAudit, PublishedSample, NodeSample, Direct
<1>11. CASE name = "accessibilityAudit"
  <2>1. ReportOf[name] = AccessibilityAudit
    BY <1>11 DEF ReportOf
  <2> QED BY <1>11, <2>1 DEF Sound, Follows, AccessibilityAudit, BodySample, PublishedSample, NodeSample, Direct
<1>12. CASE name = "duplicateContent"
  <2>1. ReportOf[name] = DuplicateContent
    BY <1>12 DEF ReportOf
  <2> QED BY <1>12, <2>1 DEF Sound, Follows, DuplicateContent, LatestSample, NodeSample, Direct
<1>13. CASE name = "workflowBottlenecks"
  <2>1. ReportOf[name] = WorkflowBottlenecks
    BY <1>13 DEF ReportOf
  <2> QED BY <1>13, <2>1 DEF Sound, Follows, WorkflowBottlenecks, NodeSample, Direct
<1>14. CASE name = "workflowInLanguage"
  <2>1. ReportOf[name] = WorkflowInLanguage
    BY <1>14 DEF ReportOf
  <2> QED BY <1>14, <2>1 DEF Sound, Follows, WorkflowInLanguage, NodeSample, Direct, Inventory
<1>15. CASE name = "translationCoverage"
  <2>1. ReportOf[name] = TranslationCoverage
    BY <1>15 DEF ReportOf
  <2> QED BY <1>15, <2>1 DEF Sound, Follows, TranslationCoverage, LatestSample, NodeSample, Direct, Inventory
<1>16. CASE name = "scheduledContent"
  <2>1. ReportOf[name] = ScheduledContent
    BY <1>16 DEF ReportOf
  <2> QED BY <1>16, <2>1 DEF Sound, Follows, ScheduledContent, LatestSample, NodeSample, Direct
<1>17. CASE name = "readability"
  <2>1. ReportOf[name] = Readability
    BY <1>17 DEF ReportOf
  <2> QED BY <1>17, <2>1 DEF Sound, Follows, Readability, BodySample, PublishedSample, NodeSample, Direct
<1>18. CASE name = "orphanPages"
  <2>1. ReportOf[name] = OrphanPages
    BY <1>18 DEF ReportOf
  <2> QED BY <1>18, <2>1 DEF Sound, Follows, OrphanPages, PublishedSample, NodeSample, Direct
<1>19. CASE name = "piiExposure"
  <2>1. ReportOf[name] = PiiExposure
    BY <1>19 DEF ReportOf
  <2> QED BY <1>19, <2>1 DEF Sound, Follows, PiiExposure, BodySample, PublishedSample, NodeSample, Direct
<1>20. CASE name = "seoMetaCoverage"
  <2>1. ReportOf[name] = SeoMetaCoverage
    BY <1>20 DEF ReportOf
  <2> QED BY <1>20, <2>1 DEF Sound, Follows, SeoMetaCoverage, LatestSample, NodeSample, Direct
<1>21. CASE name = "redirectHealth"
  <2>1. ReportOf[name] = RedirectHealth
    BY <1>21 DEF ReportOf
  <2> QED BY <1>21, <2>1 DEF Sound, Follows, RedirectHealth, NodeSample, Direct
<1>22. CASE name = "menuIntegrity"
  <2>1. ReportOf[name] = MenuIntegrity
    BY <1>22 DEF ReportOf
  <2> QED BY <1>22, <2>1 DEF Sound, Follows, MenuIntegrity, NodeSample, Direct
<1>23. CASE name = "aliasCoverage"
  <2>1. ReportOf[name] = AliasCoverage
    BY <1>23 DEF ReportOf
  <2> QED BY <1>23, <2>1 DEF Sound, Follows, AliasCoverage, LatestSample, NodeSample, Direct
<1>24. CASE name = "brokenEmbeds"
  <2>1. ReportOf[name] = BrokenEmbeds
    BY <1>24 DEF ReportOf
  <2> QED BY <1>24, <2>1 DEF Sound, Follows, BrokenEmbeds, BodySample, PublishedSample, NodeSample, Direct
<1>25. CASE name = "brokenLinks"
  <2>1. ReportOf[name] = BrokenLinks
    BY <1>25 DEF ReportOf
  <2> QED BY <1>25, <2>1 DEF Sound, Follows, BrokenLinks, BodySample, PublishedSample, NodeSample, Direct
<1>26. CASE name = "brokenLinksLive"
  <2>1. ReportOf[name] = BrokenLinksLive
    BY <1>26 DEF ReportOf
  <2> QED BY <1>26, <2>1 DEF Sound, Follows, BrokenLinksLive, PublishedSample, NodeSample, Direct, CheckOne
<1>27. CASE name = "unpublished"
  <2>1. ReportOf[name] = Unpublished
    BY <1>27 DEF ReportOf
  <2> QED BY <1>27, <2>1 DEF Sound, Follows, Unpublished, NodeSample, Direct
<1>28. CASE name = "missingField"
  <2>1. ReportOf[name] = MissingField
    BY <1>28 DEF ReportOf
  <2> QED BY <1>28, <2>1 DEF Sound, Follows, MissingField, LatestSample, NodeSample, Direct
<1>29. CASE name = "orphanedReferences"
  <2>1. ReportOf[name] = OrphanedReferences
    BY <1>29 DEF ReportOf
  <2> QED BY <1>29, <2>1 DEF Sound, Follows, OrphanedReferences, LatestSample, NodeSample, Direct,
                             RefVerdict, ClassifyRef, ClassifyTargetError
<1>30. CASE name = "configDrift"
  <2>1. ReportOf[name] = ConfigDrift
    BY <1>30 DEF ReportOf
  <2> QED BY <1>30, <2>1 DEF Sound, Follows, ConfigDrift, Privileged, NodeSample, Direct
<1>31. CASE name = "statusReport"
  <2>1. ReportOf[name] = StatusReport
    BY <1>31 DEF ReportOf
  <2> QED BY <1>31, <2>1 DEF Sound, Follows, StatusReport, Privileged, NodeSample, Direct
<1>32. CASE name = "permissionAudit"
  <2>1. ReportOf[name] = PermissionAudit
    BY <1>32 DEF ReportOf
  <2> QED BY <1>32, <2>1 DEF Sound, Follows, PermissionAudit, Privileged, NodeSample, Direct
<1>33. CASE name = "moduleAudit"
  <2>1. ReportOf[name] = ModuleAudit
    BY <1>33 DEF ReportOf
  <2> QED BY <1>33, <2>1 DEF Sound, Follows, ModuleAudit, Privileged, NodeSample, Direct
<1>34. CASE name = "log404"
  <2>1. ReportOf[name] = Log404
    BY <1>34 DEF ReportOf
  <2> QED BY <1>34, <2>1 DEF Sound, Follows, Log404, Privileged, NodeSample, Direct
<1>35. CASE name = "configBestPractices"
  <2>1. ReportOf[name] = ConfigBestPractices
    BY <1>35 DEF ReportOf
  <2> QED BY <1>35, <2>1 DEF Sound, Follows, ConfigBestPractices, ReadConfig, Privileged, NodeSample, Direct
<1>36. CASE name = "textFormatAudit"
  <2>1. ReportOf[name] = TextFormatAudit
    BY <1>36 DEF ReportOf
  <2> QED BY <1>36, <2>1, ReadConfigChoices, ConfigVerdicts DEF Sound, Follows, TextFormatAudit
<1>37. CASE name = "cacheConfig"
  <2>1. ReportOf[name] = CacheConfig
    BY <1>37 DEF ReportOf
  <2>2. \A k \in {"over", "tells", "pages", "follow", "of", "sight", "verdict"} :
          k \in DOMAIN ReadConfig /\ CacheConfig[k] = ReadConfig[k]
    BY ReadConfigChoices DEF CacheConfig
  <2>3. CacheConfig.listFails = "never"
    BY ReadConfigChoices DEF CacheConfig
  <2>4. /\ CacheConfig.over = ReadConfig.over /\ CacheConfig.tells = ReadConfig.tells
        /\ CacheConfig.pages = ReadConfig.pages /\ CacheConfig.follow = ReadConfig.follow
        /\ CacheConfig.of = ReadConfig.of /\ CacheConfig.sight = ReadConfig.sight
        /\ CacheConfig.verdict = ReadConfig.verdict
    BY <2>2
  <2> QED BY <1>37, <2>1, <2>3, <2>4, ReadConfigChoices, ConfigVerdicts DEF Sound, Follows
<1> QED BY <1>1, <1>2, <1>3, <1>4, <1>5, <1>6, <1>7, <1>8, <1>9, <1>10, <1>11, <1>12, <1>13, <1>14,
  <1>15, <1>16, <1>17, <1>18, <1>19, <1>20, <1>21, <1>22, <1>23, <1>24, <1>25, <1>26, <1>27, <1>28,
  <1>29, <1>30, <1>31, <1>32, <1>33, <1>34, <1>35, <1>36, <1>37

---------------------------------------------------------------------------
(* The running report and its scope *)

\* What a report is and covers stays while the call does.
LEMMA SameCall ==
  ASSUME work'.left = work.left, work'.type = work.type
  PROVE  Name' = Name /\ Current' = Current /\ Scope(Current)' = Scope(Current)
<1>1. Name' = Name /\ Current' = Current
  BY DEF Name, Current
<1> QED BY <1>1 DEF Scope, ReadableNodeBundles, Readable

LEMMA SameSite ==
  ASSUME content' = content, rows' = rows, Current' = Current
  PROVE  /\ \A b : ListingOf(content[b], rows)' = ListingOf(content[b], rows)
         /\ \A id : Present(id)' <=> Present(id)
  BY DEF ListingOf, Matches, Present

LEMMA CurrentIsSound ==
  ASSUME CallShape, work.left # <<>>
  PROVE  Name \in DOMAIN ReportOf /\ Sound(Name, Current)
<1>1. Name \in DOMAIN ReportOf
  BY HeadTailProperties DEF CallShape, Name
<1> QED BY <1>1, ReportsAreSound DEF Current

\* A report covers bundles of the site that it may read, unless it goes through
\* all of them; one that is asked for a bundle covers that one alone.
LEMMA ScopeFacts ==
  ASSUME CallShape, work.left # <<>>, Current.over = "bundle" => work.type # ""
  PROVE  /\ IsASequence(Scope(Current)) /\ ToSet(Scope(Current)) \subseteq ToSet(Bundles)
         /\ Current.over = "bundle" => work.type \in ToSet(Bundles) /\ ToSet(Scope(Current)) = {work.type}
         /\ \A b \in ToSet(Scope(Current)) :
              \/ Readable(b) \/ Current.over \in {"every", "each"}
              \/ b = work.type /\ work.type # "" /\ Current.over \in {"bundle", "readable", "each"}
<1> DEFINE r == Current
<1>1. Sound(Name, r) /\ work.type \in {""} \cup ToSet(Bundles)
  BY CurrentIsSound DEF CallShape
<1>2. IsASequence(Bundles) /\ Head(Bundles) \in ToSet(Bundles) /\ Readable(Head(Bundles))
  <2>1. IsASequence(Bundles) /\ Bundles # <<>> /\ Readable(Head(Bundles))
    BY ReportAssumption DEF IsASequence, Readable
  <2> QED BY <2>1, TailElements
<1>3. /\ IsASequence(ReadableNodeBundles)
      /\ ToSet(ReadableNodeBundles) = {b \in ToSet(Bundles) : Readable(b)}
  <2> DEFINE S == {b \in ToSet(Bundles) : Readable(b)}
  <2>1. ReadableNodeBundles = Kept(Bundles, S)
    BY DEF ReadableNodeBundles
  <2>2. ToSet(Bundles) \cap S = S
    OBVIOUS
  <2> HIDE DEF S
  <2>3. IsASequence(ReadableNodeBundles) /\ ToSet(ReadableNodeBundles) = S
    BY <1>2, <2>1, <2>2, KeptFacts
  <2> QED BY <2>3 DEF S
<1>4. CASE r.over = "every" \/ (r.over = "each" /\ work.type = "")
  <2>1. Scope(r) = Bundles
    BY <1>4 DEF Scope
  <2> QED BY <1>2, <1>4, <2>1
<1>5. CASE r.over = "readable" /\ work.type = ""
  <2>1. Scope(r) = ReadableNodeBundles
    BY <1>5 DEF Scope
  <2> QED BY <1>3, <1>5, <2>1
<1>6. CASE r.over = "collection"
  <2>1. Scope(r) = <<Head(Bundles)>>
    BY <1>6 DEF Scope
  <2>2. IsASequence(Scope(r)) /\ ToSet(Scope(r)) = {Head(Bundles)}
    BY <2>1, OneElement
  <2> QED BY <1>2, <1>6, <2>2
<1>7. CASE r.over \in {"bundle", "readable", "each"} /\ work.type # ""
  <2>1. Scope(r) = <<work.type>>
    BY <1>7 DEF Scope
  <2>2. IsASequence(Scope(r)) /\ ToSet(Scope(r)) = {work.type}
    BY <2>1, OneElement
  <2> QED BY <1>1, <1>7, <2>2
<1> QED BY <1>1, <1>4, <1>5, <1>6, <1>7 DEF Sound

\* The listing of a bundle of the site.
LEMMA SiteListing ==
  ASSUME SiteShape, NEW b \in ToSet(Bundles)
  PROVE  /\ IsASequence(ListingOf(content[b], rows))
         /\ ToSet(ListingOf(content[b], rows)) = {id \in ToSet(content[b]) : Matches(Current, rows[id])}
<1>1. IsASequence(content[b])
  BY DEF SiteShape
<1>2. PICK ids, of : ids = content[b] /\ of = rows
  OBVIOUS
<1>3. /\ IsASequence(ListingOf(ids, of))
      /\ ToSet(ListingOf(ids, of)) = {id \in ToSet(ids) : Matches(Current, of[id])}
  BY <1>1, <1>2, ListingFacts
<1> QED BY <1>2, <1>3

---------------------------------------------------------------------------
(* A page *)

LEMMA FiniteElements ==
  ASSUME NEW t, IsASequence(t)
  PROVE  IsFiniteSet(ToSet(t))
<1>1. Len(t) \in Nat /\ DOMAIN t = 1..Len(t) /\ t \in [1..Len(t) -> ToSet(t)]
  BY OwnElements, LenProperties DEF IsASequence
<1>2. IsFiniteSet(1..Len(t))
  BY <1>1, FS_Interval
<1>3. t \in Surjection(1..Len(t), ToSet(t))
  BY <1>1 DEF Surjection, ToSet
<1> QED BY <1>2, <1>3, FS_Surjection

LEMMA StretchInside ==
  ASSUME NEW s, IsASequence(s), NEW m \in Nat, NEW n \in Nat, n <= Len(s),
         NEW t, t = SubSeq(s, m + 1, n)
  PROVE  ToSet(t) \subseteq ToSet(s)
  BY StretchElements

LimitOf(r, list, offset) ==
  CASE r.pages = "whole" -> Len(list)
    [] r.pages = "top" -> SampleSize
    [] r.pages = "counted" -> PageSize
    [] OTHER -> Least(PageSize, SampleSize - offset)
PageEnd(r, list, offset) == Least(offset + LimitOf(r, list, offset), Len(list))
PageOf(r, list, offset) == SubSeq(list, offset + 1, PageEnd(r, list, offset))
PageGoesOn(r, list, offset) ==
  GoesOn(r, LimitOf(r, list, offset), Len(PageOf(r, list, offset)), PageEnd(r, list, offset),
         HasNext(list, PageEnd(r, list, offset)))
PageIsFull(r, list, offset) == offset + Len(PageOf(r, list, offset)) >= SampleSize

LEMMA PageFacts ==
  ASSUME NEW list, IsASequence(list), NEW offset \in Nat, offset = 0 \/ offset < SampleSize,
         NEW name, NEW r, Sound(name, r)
  PROVE  LET end == PageEnd(r, list, offset)
             batch == PageOf(r, list, offset)
             more == PageGoesOn(r, list, offset)
         IN  /\ IsASequence(batch) /\ ToSet(batch) \subseteq ToSet(list) /\ Len(batch) \in Nat
             /\ \A i \in DOMAIN list : i <= offset \/ i > end \/ list[i] \in ToSet(batch)
             /\ end \in Nat /\ (more => offset + Len(batch) = end /\ end < SampleSize)
             /\ ~HasNext(list, end) => \A i \in DOMAIN list : i <= end
             /\ ~more /\ HasNext(list, end) =>
                  r.tells = "never" \/ Approximate(r, PageIsFull(r, list, offset), HasNext(list, end))
<1>a. PICK limit : limit = LimitOf(r, list, offset)
  OBVIOUS
<1>b. PICK end : end = PageEnd(r, list, offset)
  OBVIOUS
<1>c. PICK batch : batch = PageOf(r, list, offset)
  OBVIOUS
<1>d. PICK more \in BOOLEAN : more <=> PageGoesOn(r, list, offset)
  OBVIOUS
<1>e. /\ limit = CASE r.pages = "whole" -> Len(list)
                   [] r.pages = "top" -> SampleSize
                   [] r.pages = "counted" -> PageSize
                   [] OTHER -> Least(PageSize, SampleSize - offset)
      /\ end = Least(offset + limit, Len(list))
      /\ batch = SubSeq(list, offset + 1, end)
      /\ more <=> GoesOn(r, limit, Len(batch), end, HasNext(list, end))
  BY <1>a, <1>b, <1>c, <1>d DEF LimitOf, PageEnd, PageOf, PageGoesOn
<1>0. PICK n : n = Len(list)
  OBVIOUS
<1>1. n \in Nat /\ DOMAIN list = 1..n /\ PageSize \in Nat /\ SampleSize \in Nat
  BY <1>0, OwnElements, ReportAssumption DEF IsASequence
<1>2. limit \in Nat
  <2>1. Least(PageSize, SampleSize - offset) \in Nat
    BY <1>1 DEF Least
  <2> QED BY <1>e, <1>0, <1>1, <2>1
<1>3. end \in Nat /\ end <= n /\ end <= offset + limit /\ (end = n \/ end = offset + limit)
  <2>1. end = IF offset + limit < n THEN offset + limit ELSE n
    BY <1>0, <1>e DEF Least
  <2> QED BY <1>1, <1>2, <2>1
<1>4. /\ IsASequence(batch) /\ Len(batch) = (IF offset < end THEN end - offset ELSE 0)
      /\ ToSet(batch) \subseteq ToSet(list) /\ \A i \in (offset + 1)..end : list[i] \in ToSet(batch)
  <2>1. end <= Len(list)
    BY <1>0, <1>3
  <2>2. IsASequence(batch)
    BY <1>3, <1>e, <2>1, StretchElements
  <2>5. ToSet(batch) \subseteq ToSet(list)
    BY <1>3, <1>e, <2>1, StretchInside
  <2>3. Len(batch) = (IF offset < end THEN end - offset ELSE 0)
    BY <1>3, <1>e, <2>1, StretchElements
  <2>4. \A i \in (offset + 1)..end : list[i] \in ToSet(batch)
    BY <1>3, <1>e, <2>1, StretchElements
  <2> QED BY <2>2, <2>3, <2>4, <2>5
<1>5. Len(batch) \in Nat
  BY <1>3, <1>4
<1>6. ASSUME NEW i \in DOMAIN list PROVE i <= offset \/ i > end \/ list[i] \in ToSet(batch)
  <2>1. i \in Nat
    BY <1>1
  <2>2. SUFFICES ASSUME ~(i <= offset), ~(i > end) PROVE list[i] \in ToSet(batch)
    OBVIOUS
  <2>3. i \in (offset + 1)..end
    BY <1>3, <2>1, <2>2
  <2> QED BY <1>4, <2>3
<1>7. HasNext(list, end) <=> n > end
  BY <1>0 DEF HasNext
<1>8. HasNext(list, end) => end = offset + limit /\ Len(batch) = limit
  <2>1. SUFFICES ASSUME n > end PROVE end = offset + limit /\ Len(batch) = limit
    BY <1>7
  <2>2. end = offset + limit
    BY <1>1, <1>3, <2>1
  <2>3. Len(batch) = IF offset < offset + limit THEN (offset + limit) - offset ELSE 0
    BY <1>4, <2>2
  <2> QED BY <1>2, <2>2, <2>3
<1>9. more => HasNext(list, end) /\ end < SampleSize
  BY <1>e DEF GoesOn, CountGoesOn, CollectGoesOn
<1>10. more => offset + Len(batch) = end /\ end < SampleSize
  BY <1>2, <1>3, <1>8, <1>9
<1>11. ~HasNext(list, end) => \A i \in DOMAIN list : i <= end
  BY <1>1, <1>3, <1>7
<1>12. ASSUME ~more, HasNext(list, end), r.tells # "never"
       PROVE  Approximate(r, offset + Len(batch) >= SampleSize, HasNext(list, end))
  <2>1. r.tells = "hasNext" \/ r.tells = "atCap"
    BY <1>12 DEF Sound
  <2>2. CASE r.tells = "hasNext"
    BY <1>12, <2>2 DEF Approximate
  <2>3. CASE r.tells = "atCap"
    <3>1. r.pages = "paged" \/ r.pages = "whole"
      BY <2>3 DEF Sound
    <3>2. r.pages # "whole"
      <4>1. SUFFICES ASSUME r.pages = "whole" PROVE FALSE
        OBVIOUS
      <4>2. limit = n
        BY <1>0, <1>e, <4>1
      <4> QED BY <1>1, <1>7, <1>8, <1>12, <4>2
    <3>3. ~(end < SampleSize)
      BY <1>8, <1>12, <1>e, <2>3, <3>1, <3>2 DEF GoesOn, CollectGoesOn
    <3>4. offset + Len(batch) >= SampleSize
      BY <1>1, <1>2, <1>3, <1>8, <1>12, <3>3
    <3> QED BY <2>3, <3>1, <3>2, <3>4 DEF Approximate
  <2> QED BY <2>1, <2>2, <2>3
<1>13. offset + Len(batch) >= SampleSize <=> PageIsFull(r, list, offset)
  BY <1>c DEF PageIsFull
<1>14. ~more /\ HasNext(list, end) =>
         r.tells = "never" \/ Approximate(r, PageIsFull(r, list, offset), HasNext(list, end))
  BY <1>12, <1>13 DEF Approximate
<1> QED BY <1>b, <1>c, <1>d, <1>3, <1>4, <1>5, <1>6, <1>10, <1>11, <1>14

---------------------------------------------------------------------------
(* What a step of a report leaves as it is *)

\* The call stays, but for a fault it may have met.
SameAsked == work'.left = work.left /\ work'.type = work.type /\ DOMAIN work' = DOMAIN work

LEMMA FaultFacts ==
  ASSUME CallShape, Fault \/ UNCHANGED work
  PROVE  SameAsked
  BY DEF CallShape, WorkFields, Fault, SameAsked

LEMMA SiteStays ==
  ASSUME SiteShape, content' = content, rows' = rows
  PROVE  SiteShape'
  BY DEF SiteShape

LEMMA ShapeStays ==
  ASSUME CallShape, work.left # <<>>, SameAsked, DOMAIN rep' = DOMAIN rep,
         rep'.place \in {"reading", "ended"}
  PROVE  CallShape'
  BY DEF CallShape, SameAsked

\* A report that ends without a result claims nothing.
LEMMA EndsUnsaid ==
  ASSUME ReportInv, work.left # <<>>, SameAsked, content' = content, rows' = rows,
         NEW status, status # "ok", rep' = Ended(status)
  PROVE  ReportInv'
<1>1. DOMAIN rep = RepFields
  BY DEF ReportInv, CallShape
<1>2. rep'.place = "ended" /\ rep'.status = status /\ DOMAIN rep' = DOMAIN rep
  BY <1>1 DEF Ended, RepFields
<1>3. CallShape' /\ SiteShape'
  BY <1>2, ShapeStays, SiteStays DEF ReportInv
<1>4. ~Reading' /\ ReportIsTrue'
  BY <1>2 DEF Reading, ReportIsTrue
<1> QED BY <1>3, <1>4 DEF ReportInv

\* A report that goes on reading.
LEMMA GoesOnReading ==
  ASSUME ReportInv, Reading, SameAsked, DOMAIN rep' = DOMAIN rep, rep'.place = "reading",
         SiteShape', InPlace', RowsRead', RowsAsked', NothingMissed'
  PROVE  ReportInv'
<1>1. CallShape /\ work.left # <<>>
  BY DEF ReportInv, CallShape, Reading
<1>2. CallShape'
  BY <1>1, ShapeStays
<1>3. ReportIsTrue'
  BY DEF ReportIsTrue
<1> QED BY <1>2, <1>3 DEF ReportInv

LEMMA ReadingFacts ==
  ASSUME ReportInv, Reading
  PROVE  /\ CallShape /\ work.left # <<>> /\ SiteShape /\ DOMAIN rep = RepFields
         /\ InPlace /\ RowsRead /\ RowsAsked /\ NothingMissed /\ Sound(Name, Current)
<1>1. CallShape /\ work.left # <<>> /\ DOMAIN rep = RepFields
  BY DEF ReportInv, CallShape, Reading
<1> QED BY <1>1, CurrentIsSound DEF ReportInv

LEMMA InitHolds == ReportInit => ReportInv
<1>1. SUFFICES ASSUME NEW s \in ReportScenes, ReportCall(s) PROVE ReportInv
  BY DEF ReportInit
<1>2. /\ s.plan \in Seq(DOMAIN ReportOf)
      /\ DOMAIN s.content = ToSet(Bundles) /\ s.type \in {""} \cup ToSet(Bundles)
      /\ \A b \in ToSet(Bundles) : /\ s.content[b] \in Seq(ToSet(s.content[b]))
                                   /\ ToSet(s.content[b]) \cup {NewRow} \subseteq DOMAIN s.rows
      /\ \A b, c \in ToSet(Bundles) : b # c => ToSet(s.content[b]) \cap ToSet(s.content[c]) = {}
  BY ReportAssumption
<1>3. content = s.content /\ rows = s.rows /\ rep = NoReport
  BY <1>1 DEF ReportCall
<1>4. DOMAIN work = WorkFields /\ work.left = s.plan /\ work.type = s.type
  BY <1>1 DEF ReportCall, WorkFields
<1>5. rep.place = "idle" /\ DOMAIN rep = RepFields
  BY <1>3 DEF NoReport, RepFields
<1>6. CallShape
  BY <1>2, <1>3, <1>4, <1>5 DEF CallShape
<1>7. ToSet(Bundles) # {}
  BY ReportAssumption, TailElements DEF IsASequence
<1>8. SiteShape
  BY <1>2, <1>3, <1>7 DEF SiteShape, IsASequence
<1> QED BY <1>5, <1>6, <1>8 DEF ReportInv, Reading, ReportIsTrue

LEMMA BeginKeeps == ReportInv /\ Begin => ReportInv'
<1> SUFFICES ASSUME ReportInv, Begin PROVE ReportInv'
  OBVIOUS
<1>1. CallShape /\ SiteShape /\ work.left # <<>> /\ rep = NoReport /\ UNCHANGED <<content, rows, work>>
  BY DEF ReportInv, CallShape, Begin
<1>2. SameAsked
  BY <1>1 DEF SameAsked
<1>3. \/ \E status \in {"gated", "error"} : rep' = Ended(status)
      \/ /\ RequireContentType(Current) /\ rep' = [rep EXCEPT !.place = "reading", !.left = Scope(Current)]
         /\ ~(Current.guarded /\ Current.over # "every" /\ ~Readable(work.type))
  BY DEF Begin
<1>4. CASE \E status \in {"gated", "error"} : rep' = Ended(status)
  BY <1>1, <1>2, <1>4, EndsUnsaid
<1>5. CASE /\ RequireContentType(Current) /\ rep' = [rep EXCEPT !.place = "reading", !.left = Scope(Current)]
           /\ ~(Current.guarded /\ Current.over # "every" /\ ~Readable(work.type))
  <2>1. /\ rep'.place = "reading" /\ rep'.left = Scope(Current) /\ rep'.offset = 0 /\ rep'.seen = <<>>
        /\ rep'.queue = <<>> /\ rep'.found = {} /\ rep'.cut = FALSE /\ rep'.admits = FALSE
        /\ rep'.touched = {} /\ DOMAIN rep' = DOMAIN rep /\ DOMAIN rep' = RepFields
    BY <1>1, <1>5 DEF NoReport, RepFields
  <2>2. Name' = Name /\ Current' = Current /\ Scope(Current)' = Scope(Current)
    BY <1>2, SameCall DEF SameAsked
  <2>3. Sound(Name, Current)
    BY <1>1, CurrentIsSound
  <2>4. Current.over = "bundle" => work.type # ""
    BY <1>5 DEF RequireContentType
  <2>5. IsASequence(Scope(Current))
    BY <1>1, <2>4, ScopeFacts
  <2>6. Current.over \in {"bundle", "readable", "each"} /\ work.type # "" => Readable(work.type)
    BY <1>5, <2>3 DEF Sound
  <2>7. InPlace'
    <3>1. IsASequence(rep.left)' /\ (ToSet(rep.left) \subseteq ToSet(Scope(Current)))'
      BY <2>1, <2>2, <2>5
    <3>2. (Current.over = "bundle" => work.type # "")'
      BY <1>1, <2>2, <2>4
    <3>3. (Current.over \in {"bundle", "readable", "each"} /\ work.type # "" => Readable(work.type))'
      <4>1. work' = work
        BY <1>1
      <4>2. Readable(work.type)' <=> Readable(work.type)
        BY <4>1 DEF Readable
      <4> QED BY <2>2, <2>6, <4>1, <4>2
    <3>4. (rep.offset \in Nat /\ (rep.offset = 0 \/ rep.offset < SampleSize))'
      BY <2>1
    <3> QED BY <3>1, <3>2, <3>3, <3>4 DEF InPlace
  <2>8. DOMAIN rep'.seen = {} /\ IsFiniteSet(DOMAIN rep'.seen) /\ IsASequence(rep'.queue) /\ ToSet(rep'.queue) = {}
    <3>1. DOMAIN rep'.seen = {}
      BY <2>1
    <3> QED BY <2>1, <3>1, FS_EmptySet, NoElement
  <2>9. RowsRead' /\ RowsAsked'
    BY <2>1, <2>8 DEF RowsRead, RowsAsked
  <2>10. NothingMissed'
    <3>1. SUFFICES ASSUME NEW b \in ToSet(Scope(Current)) PROVE Covered(b)'
      BY <2>1, <2>2 DEF NothingMissed
    <3>2. b \in ToSet(rep'.left) /\ rep'.offset = 0
      BY <2>1, <3>1
    <3>3. b \in ToSet(Bundles)
      BY <1>1, <2>4, <3>1, ScopeFacts
    <3>4. SiteShape'
      BY <1>1, SiteStays
    <3>5. IsASequence(ListingOf(content[b], rows))
      BY <1>1, <3>3, SiteListing
    <3>6. \A i \in DOMAIN ListingOf(content[b], rows) : ~(i <= 0)
      BY <3>5, OwnElements DEF IsASequence
    <3>7. ListingOf(content[b], rows)' = ListingOf(content[b], rows)
      BY <1>1, <2>2, SameSite
    <3> QED BY <3>2, <3>6, <3>7 DEF Covered
  <2>11. CallShape' /\ SiteShape'
    BY <1>1, <1>2, <2>1, ShapeStays, SiteStays
  <2>12. ReportIsTrue'
    BY <2>1 DEF ReportIsTrue
  <2> QED BY <2>7, <2>9, <2>10, <2>11, <2>12 DEF ReportInv
<1> QED BY <1>3, <1>4, <1>5

LEMMA FirstReadFailsKeeps == ReportInv /\ FirstReadFails => ReportInv'
<1> SUFFICES ASSUME ReportInv, FirstReadFails PROVE ReportInv'
  OBVIOUS
<1>1. /\ CallShape /\ work.left # <<>> /\ Fault /\ rep' = Ended("error")
      /\ content' = content /\ rows' = rows
  BY DEF ReportInv, FirstReadFails
<1> QED BY <1>1, FaultFacts, EndsUnsaid

LEMMA NextSectionKeeps == ReportInv /\ NextSection => ReportInv'
<1> SUFFICES ASSUME ReportInv, NextSection PROVE ReportInv'
  OBVIOUS
<1>1. CallShape /\ SiteShape /\ work.left # <<>> /\ rep' = NoReport /\ UNCHANGED <<content, rows>>
  BY DEF ReportInv, NextSection
<1>2. work'.left = Tail(work.left) /\ work'.type = work.type /\ DOMAIN work' = DOMAIN work
  BY <1>1 DEF NextSection, CallShape, WorkFields
<1>3. work'.left \in Seq(DOMAIN ReportOf)
  BY <1>1, <1>2, HeadTailProperties DEF CallShape
<1>4. rep'.place = "idle" /\ DOMAIN rep' = RepFields
  BY <1>1 DEF NoReport, RepFields
<1>5. CallShape' /\ SiteShape'
  BY <1>1, <1>2, <1>3, <1>4, SiteStays DEF CallShape
<1> QED BY <1>4, <1>5 DEF ReportInv, Reading, ReportIsTrue

---------------------------------------------------------------------------
(* Reading *)

\* The bundle that is read next is one of those in scope.
LEMMA NextBundle ==
  ASSUME ReportInv, Reading, rep.left # <<>>
  PROVE  /\ Head(rep.left) \in ToSet(Scope(Current)) /\ Head(rep.left) \in ToSet(Bundles)
         /\ IsASequence(Tail(rep.left)) /\ ToSet(Tail(rep.left)) \subseteq ToSet(Scope(Current))
         /\ ToSet(rep.left) = {Head(rep.left)} \cup ToSet(Tail(rep.left))
<1>1. /\ CallShape /\ work.left # <<>> /\ IsASequence(rep.left)
      /\ ToSet(rep.left) \subseteq ToSet(Scope(Current)) /\ (Current.over = "bundle" => work.type # "")
  BY ReadingFacts DEF InPlace
<1>2. /\ IsASequence(Tail(rep.left)) /\ ToSet(rep.left) = {Head(rep.left)} \cup ToSet(Tail(rep.left))
      /\ Head(rep.left) \in ToSet(rep.left)
  BY <1>1, TailElements
<1>3. ToSet(Scope(Current)) \subseteq ToSet(Bundles)
  BY <1>1, ScopeFacts
<1> QED BY <1>1, <1>2, <1>3

\* The place moves on; what is asked for does not.
LEMMA PlaceMoves ==
  ASSUME ReportInv, Reading, SameAsked, rep.left # <<>>,
         rep'.left = rep.left \/ rep'.left = Tail(rep.left) \/ rep'.left = <<>>,
         rep'.offset \in Nat, rep'.offset = 0 \/ rep'.offset < SampleSize
  PROVE  InPlace'
<1>1. InPlace /\ Current' = Current /\ Scope(Current)' = Scope(Current) /\ work'.type = work.type
  BY ReadingFacts, SameCall DEF SameAsked
<1>2. IsASequence(<<>>) /\ ToSet(<<>>) = {}
  BY NoElement
<1>3. IsASequence(rep'.left) /\ ToSet(rep'.left) \subseteq ToSet(Scope(Current))
  BY <1>1, <1>2, NextBundle DEF InPlace
<1>4. IsASequence(rep.left)' /\ (ToSet(rep.left) \subseteq ToSet(Scope(Current)))'
  BY <1>1, <1>3
<1>5. (Current.over = "bundle" => work.type # "")'
  BY <1>1 DEF InPlace
<1>6. (Current.over \in {"bundle", "readable", "each"} /\ work.type # "" => Readable(work.type))'
  <2>1. Readable(work.type)' <=> Readable(work.type)
    BY <1>1 DEF Readable
  <2> QED BY <1>1, <2>1 DEF InPlace
<1>7. (rep.offset \in Nat /\ (rep.offset = 0 \/ rep.offset < SampleSize))'
  OBVIOUS
<1> QED BY <1>4, <1>5, <1>6, <1>7 DEF InPlace

LEMMA ReadPageKeeps == ReportInv /\ ReadPage => ReportInv'
<1> SUFFICES ASSUME ReportInv, ReadPage PROVE ReportInv'
  OBVIOUS
<1> DEFINE b == Head(rep.left)
           list == ListingOf(content[b], rows)
           limit == CASE Current.pages = "whole" -> Len(list)
                      [] Current.pages = "top" -> SampleSize
                      [] Current.pages = "counted" -> PageSize
                      [] OTHER -> Least(PageSize, SampleSize - rep.offset)
           end == Least(rep.offset + limit, Len(list))
           batch == SubSeq(list, rep.offset + 1, end)
           hasNext == HasNext(list, end)
           more == GoesOn(Current, limit, Len(batch), end, hasNext)
           full == rep.offset + Len(batch) >= SampleSize
<1>1. Reading /\ rep.left # <<>> /\ UNCHANGED <<content, rows, work>> /\ (Current.over = "each" => Readable(b))
  BY DEF ReadPage
<1>2. rep' = [rep EXCEPT
               !.left = IF more THEN @ ELSE Tail(@),
               !.offset = IF more THEN @ + Len(batch) ELSE 0,
               !.seen = [id \in DOMAIN @ \cup ToSet(batch) |->
                           IF id \in ToSet(batch) THEN [row |-> rows[id], bundle |-> b] ELSE @[id]],
               !.queue = @ \o batch, !.tried = FALSE,
               !.cut = @ \/ (~more /\ hasNext),
               !.admits = @ \/ (~more /\ Approximate(Current, full, hasNext))]
  BY DEF ReadPage
<1> HIDE DEF b, list, limit, end, batch, hasNext, more, full
<1>3. /\ CallShape /\ work.left # <<>> /\ SiteShape /\ DOMAIN rep = RepFields
      /\ InPlace /\ RowsRead /\ RowsAsked /\ NothingMissed /\ Sound(Name, Current)
  BY <1>1, ReadingFacts
<1>4. /\ rep'.left = (IF more THEN rep.left ELSE Tail(rep.left))
      /\ rep'.offset = (IF more THEN rep.offset + Len(batch) ELSE 0)
      /\ rep'.queue = rep.queue \o batch
      /\ rep'.found = rep.found /\ rep'.touched = rep.touched
      /\ rep'.silent = rep.silent /\ rep'.shifted = rep.shifted /\ rep'.place = rep.place
      /\ DOMAIN rep' = DOMAIN rep
  BY <1>2, <1>3 DEF RepFields
<1>5. rep'.cut <=> rep.cut \/ (~more /\ hasNext)
  BY <1>2, <1>3 DEF RepFields
<1>6. rep'.admits <=> rep.admits \/ (~more /\ Approximate(Current, full, hasNext))
  BY <1>2, <1>3 DEF RepFields
<1>7. rep'.seen = [id \in DOMAIN rep.seen \cup ToSet(batch) |->
                     IF id \in ToSet(batch) THEN [row |-> rows[id], bundle |-> b] ELSE rep.seen[id]]
  BY <1>2, <1>3 DEF RepFields
<1>8. /\ DOMAIN rep'.seen = DOMAIN rep.seen \cup ToSet(batch)
      /\ \A id \in ToSet(batch) : rep'.seen[id].row = rows[id] /\ rep'.seen[id].bundle = b
      /\ \A id \in DOMAIN rep.seen \ ToSet(batch) : rep'.seen[id] = rep.seen[id]
  BY <1>7
<1>9. /\ b \in ToSet(Scope(Current)) /\ b \in ToSet(Bundles)
      /\ ToSet(rep.left) = {b} \cup ToSet(Tail(rep.left))
  BY <1>1, NextBundle DEF b
<1>10. /\ IsASequence(list) /\ DOMAIN list \subseteq Nat
       /\ ToSet(list) = {id \in ToSet(content[b]) : Matches(Current, rows[id])}
  <2>1. /\ IsASequence(list)
        /\ ToSet(list) = {id \in ToSet(content[b]) : Matches(Current, rows[id])}
    BY <1>3, <1>9, SiteListing DEF list
  <2>2. DOMAIN list = 1..Len(list) /\ Len(list) \in Nat
    BY <2>1, OwnElements DEF IsASequence
  <2> QED BY <2>1, <2>2
<1>11. /\ IsASequence(batch) /\ ToSet(batch) \subseteq ToSet(list) /\ Len(batch) \in Nat
       /\ \A i \in DOMAIN list : i <= rep.offset \/ i > end \/ list[i] \in ToSet(batch)
       /\ end \in Nat /\ (more => rep.offset + Len(batch) = end /\ end < SampleSize)
       /\ ~hasNext => \A i \in DOMAIN list : i <= end
       /\ ~more /\ hasNext => Current.tells = "never" \/ Approximate(Current, full, hasNext)
  <2>1. /\ end = PageEnd(Current, list, rep.offset) /\ batch = PageOf(Current, list, rep.offset)
        /\ (more <=> PageGoesOn(Current, list, rep.offset))
        /\ (full <=> PageIsFull(Current, list, rep.offset))
    BY DEF end, batch, more, full, limit, hasNext, PageEnd, PageOf, PageGoesOn, PageIsFull, LimitOf
  <2>2. rep.offset \in Nat /\ (rep.offset = 0 \/ rep.offset < SampleSize)
    BY <1>3 DEF InPlace
  <2>3. Approximate(Current, full, hasNext) <=> Approximate(Current, PageIsFull(Current, list, rep.offset), hasNext)
    BY <2>1 DEF Approximate
  <2> QED BY <1>3, <1>10, <2>1, <2>2, <2>3, PageFacts DEF hasNext
<1>12. SameAsked
  BY <1>1 DEF SameAsked
<1>13. Name' = Name /\ Current' = Current /\ Scope(Current)' = Scope(Current)
  BY <1>12, SameCall DEF SameAsked
<1>14. InPlace'
  <2>1. rep'.offset \in Nat /\ (rep'.offset = 0 \/ rep'.offset < SampleSize)
    BY <1>4, <1>11
  <2> QED BY <1>1, <1>4, <1>12, <2>1, PlaceMoves
<1>15. /\ ToSet(batch) \subseteq DOMAIN rows /\ ToSet(batch) \subseteq ToSet(content[b])
       /\ \A id \in ToSet(batch) : Matches(Current, rows[id]) /\ Present(id)
  BY <1>3, <1>9, <1>10, <1>11 DEF SiteShape, Present
<1>16. Readable(b) \/ Current.pages = "counted"
  <2>1. Readable(b) \/ Current.over \in {"every", "each"} \/ (b = work.type /\ Readable(b))
    BY <1>3, <1>9, ScopeFacts DEF InPlace
  <2> QED BY <1>1, <1>3, <2>1 DEF Sound
<1>17. RowsRead'
  <2>1. IsFiniteSet(DOMAIN rep'.seen) /\ DOMAIN rep'.seen \subseteq DOMAIN rows
    <3>1. IsFiniteSet(ToSet(batch))
      BY <1>11, FiniteElements
    <3>2. IsFiniteSet(DOMAIN rep.seen) /\ DOMAIN rep.seen \subseteq DOMAIN rows
      BY <1>3 DEF RowsRead
    <3>3. IsFiniteSet(DOMAIN rep.seen \cup ToSet(batch))
      BY <3>1, <3>2, FS_Union
    <3> QED BY <1>8, <1>15, <3>2, <3>3
  <2>2. ASSUME NEW id \in DOMAIN rep'.seen
        PROVE  /\ rep'.seen[id].bundle \in ToSet(Scope(Current))
               /\ Readable(rep'.seen[id].bundle) \/ Current.pages = "counted"
    <3>1. CASE id \in ToSet(batch)
      BY <1>8, <1>9, <1>16, <3>1
    <3>2. CASE id \in DOMAIN rep.seen \ ToSet(batch)
      BY <1>3, <1>8, <3>2 DEF RowsRead
    <3> QED BY <1>8, <2>2, <3>1, <3>2
  <2>3. ASSUME NEW id \in DOMAIN rep'.seen \ rep'.touched
        PROVE  /\ rep'.seen[id].row = rows[id] /\ id \in ToSet(content[rep'.seen[id].bundle])
               /\ Matches(Current, rows[id])
    <3>1. CASE id \in ToSet(batch)
      BY <1>8, <1>15, <3>1
    <3>2. CASE id \in DOMAIN rep.seen \ ToSet(batch)
      BY <1>3, <1>4, <1>8, <2>3, <3>2 DEF RowsRead
    <3> QED BY <1>8, <2>3, <3>1, <3>2
  <2> QED BY <1>1, <1>13, <2>1, <2>2, <2>3 DEF RowsRead, Readable, Matches
<1>18. RowsAsked'
  <2>1. /\ IsASequence(rep'.queue) /\ ToSet(rep'.queue) = ToSet(rep.queue) \cup ToSet(batch)
    BY <1>3, <1>4, <1>11, ConcatElements DEF RowsAsked
  <2>2. \A id \in ToSet(rep'.queue) \ rep'.touched : Present(id)
    BY <1>3, <1>4, <1>15, <2>1 DEF RowsAsked
  <2>3. ToSet(rep'.queue) \subseteq DOMAIN rows
    BY <1>3, <1>15, <2>1 DEF RowsAsked
  <2>4. ASSUME Follows(Current), ~rep'.admits, NEW id \in DOMAIN rep'.seen \ rep'.touched, rows[id].bad
        PROVE  id \in ToSet(rep'.queue) \cup {f.id : f \in rep'.found}
    <3>1. CASE id \in ToSet(batch)
      BY <2>1, <3>1
    <3>2. CASE id \in DOMAIN rep.seen
      BY <1>3, <1>4, <1>6, <2>1, <2>4, <3>2 DEF RowsAsked
    <3> QED BY <1>8, <2>4, <3>1, <3>2
  <2>5. \A f \in rep'.found : f.id \in DOMAIN rows /\ (f.why = "bad" /\ f.id \notin rep'.touched => rows[f.id].bad)
    BY <1>3, <1>4 DEF RowsAsked
  <2>6. \A id : Present(id)' <=> Present(id)
    BY <1>1, <1>13, SameSite
  <2>7. Follows(Current)' <=> Follows(Current)
    BY <1>13 DEF Follows
  <2> QED BY <1>1, <2>1, <2>2, <2>3, <2>4, <2>5, <2>6, <2>7 DEF RowsAsked
<1>19. NothingMissed'
  <2>1. rep'.cut => Current.tells = "never" \/ rep'.admits
    BY <1>3, <1>5, <1>6, <1>11 DEF NothingMissed
  <2>2. SUFFICES ASSUME ~Incomplete', NEW c \in ToSet(Scope(Current)) PROVE Covered(c)'
    BY <1>13, <2>1 DEF NothingMissed
  <2>3. ~Incomplete /\ ~rep'.cut
    BY <1>4, <1>5, <1>6, <1>13, <2>1, <2>2 DEF Incomplete
  <2>4. Covered(c)
    BY <1>3, <2>2, <2>3 DEF NothingMissed
  <2>5. PICK rowsOfC : rowsOfC = ListingOf(content[c], rows)
    OBVIOUS
  <2>6. ListingOf(content[c], rows)' = rowsOfC
    BY <1>1, <1>13, <2>5, SameSite
  <2>7. c # b => (rep.left # <<>> /\ c \in ToSet(rep.left) => c \in ToSet(Tail(rep.left)))
    BY <1>9
  <2>8. ASSUME c \notin ToSet(rep'.left)
        PROVE  ToSet(rowsOfC) \subseteq DOMAIN rep'.seen \cup rep'.touched
    <3>1. CASE c \notin ToSet(rep.left)
      BY <1>4, <1>8, <2>4, <2>5, <3>1 DEF Covered
    <3>2. CASE c \in ToSet(rep.left)
      <4>1. c = b /\ ~more
        BY <1>4, <1>9, <2>8, <3>2
      <4>2. ~hasNext
        BY <1>5, <2>3, <4>1
      <4>3. rowsOfC = list
        BY <2>5, <4>1 DEF list
      <4>4. ASSUME NEW i \in DOMAIN list PROVE list[i] \in DOMAIN rep'.seen \cup rep'.touched
        <5>1. i <= rep.offset \/ list[i] \in ToSet(batch)
          <6>1. i <= end
            BY <1>11, <4>2, <4>4
          <6>2. i \in Nat /\ end \in Nat
            BY <1>10, <1>11, <4>4
          <6> QED BY <1>11, <4>4, <6>1, <6>2
        <5>2. CASE list[i] \in ToSet(batch)
          BY <1>8, <5>2
        <5>3. CASE i <= rep.offset
          <6>1. list[i] \in DOMAIN rep.seen \cup rep.touched
            BY <1>1, <2>4, <2>5, <4>1, <4>3, <4>4, <5>3 DEF Covered, b
          <6> QED BY <1>4, <1>8, <6>1
        <5> QED BY <5>1, <5>2, <5>3
      <4> QED BY <4>3, <4>4 DEF ToSet
    <3> QED BY <3>1, <3>2
  <2>9. ASSUME rep'.left # <<>>, c = Head(rep'.left), NEW i \in DOMAIN rowsOfC, i <= rep'.offset
        PROVE  rowsOfC[i] \in DOMAIN rep'.seen \cup rep'.touched
    <3>1. CASE more
      <4>1. c = b /\ rowsOfC = list
        BY <1>4, <2>5, <2>9, <3>1 DEF b, list
      <4>2. rep'.offset = end
        BY <1>4, <1>11, <3>1
      <4>3. i \in Nat /\ end \in Nat /\ rep.offset \in Nat
        BY <1>3, <1>10, <1>11, <2>9, <4>1 DEF InPlace
      <4>4. i <= rep.offset \/ list[i] \in ToSet(batch)
        BY <1>11, <2>9, <4>1, <4>2, <4>3
      <4>5. CASE list[i] \in ToSet(batch)
        BY <1>8, <4>1, <4>5
      <4>6. CASE i <= rep.offset
        <5>1. list[i] \in DOMAIN rep.seen \cup rep.touched
          BY <1>1, <2>4, <2>5, <2>9, <4>1, <4>6 DEF Covered, b
        <5> QED BY <1>4, <1>8, <4>1, <5>1
      <4> QED BY <4>4, <4>5, <4>6
    <3>2. CASE ~more
      <4>1. rep'.offset = 0
        BY <1>4, <3>2
      <4>2. c \in ToSet(Bundles)
        BY <1>1, <1>3, <2>2, ScopeFacts DEF InPlace
      <4>3. DOMAIN rowsOfC = 1..Len(rowsOfC) /\ Len(rowsOfC) \in Nat
        BY <1>3, <2>5, <4>2, SiteListing, OwnElements DEF IsASequence
      <4> QED BY <2>9, <4>1, <4>3
    <3> QED BY <3>1, <3>2
  <2> QED BY <2>6, <2>8, <2>9 DEF Covered
<1> QED BY <1>1, <1>3, <1>4, <1>12, <1>14, <1>17, <1>18, <1>19, SiteStays, GoesOnReading DEF Reading

LEMMA RowsStay ==
  ASSUME ReportInv, Reading, SameAsked, content' = content, rows' = rows, rep'.touched = rep.touched,
         DOMAIN rep'.seen \subseteq DOMAIN rep.seen,
         \A id \in DOMAIN rep'.seen : rep'.seen[id] = rep.seen[id]
  PROVE  RowsRead'
<1>1. /\ RowsRead /\ Current' = Current /\ Scope(Current)' = Scope(Current)
  BY ReadingFacts, SameCall DEF SameAsked
<1>2. IsFiniteSet(DOMAIN rep'.seen)
  BY <1>1, FS_Subset DEF RowsRead
<1>3. \A id \in DOMAIN rep'.seen :
        /\ rep'.seen[id].bundle \in ToSet(Scope(Current))
        /\ Readable(rep'.seen[id].bundle) \/ Current.pages = "counted"
  BY <1>1 DEF RowsRead
<1>4. \A id \in DOMAIN rep'.seen \ rep'.touched :
        /\ rep'.seen[id].row = rows[id] /\ id \in ToSet(content[rep'.seen[id].bundle])
        /\ Matches(Current, rows[id])
  BY <1>1 DEF RowsRead
<1>5. DOMAIN rep'.seen \subseteq DOMAIN rows
  BY <1>1 DEF RowsRead
<1> QED BY <1>1, <1>2, <1>3, <1>4, <1>5 DEF RowsRead, Readable, Matches

LEMMA AskedStays ==
  ASSUME ReportInv, Reading, SameAsked, content' = content, rows' = rows, rep'.touched = rep.touched,
         rep'.queue = rep.queue, rep'.found = rep.found, rep.admits => rep'.admits,
         DOMAIN rep'.seen \subseteq DOMAIN rep.seen
  PROVE  RowsAsked'
<1>1. RowsAsked /\ Current' = Current
  BY ReadingFacts, SameCall DEF SameAsked
<1>2. \A id : Present(id)' <=> Present(id)
  BY <1>1, SameSite
<1>3. Follows(Current)' <=> Follows(Current)
  BY <1>1 DEF Follows
<1> QED BY <1>1, <1>2, <1>3 DEF RowsAsked

\* A step of the asking leaves what was read as it is.
LEMMA NothingMoves ==
  ASSUME ReportInv, Reading, SameAsked, content' = content, rows' = rows, rep'.touched = rep.touched,
         rep'.left = rep.left, rep'.offset = rep.offset, rep'.seen = rep.seen, rep'.cut = rep.cut,
         rep'.shifted = rep.shifted, rep'.silent = rep.silent, rep.admits => rep'.admits
  PROVE  SiteShape' /\ InPlace' /\ RowsRead' /\ NothingMissed'
<1>1. /\ SiteShape /\ InPlace /\ NothingMissed /\ CallShape
      /\ Name' = Name /\ Current' = Current /\ Scope(Current)' = Scope(Current)
  BY ReadingFacts, SameCall DEF SameAsked
<1>2. SiteShape'
  BY <1>1, SiteStays
<1>3. InPlace'
  <2>1. Readable(work.type)' <=> Readable(work.type)
    BY DEF SameAsked, Readable
  <2>2. IsASequence(rep.left)' /\ (ToSet(rep.left) \subseteq ToSet(Scope(Current)))'
    BY <1>1 DEF InPlace
  <2>3. (Current.over = "bundle" => work.type # "")'
    BY <1>1 DEF InPlace, SameAsked
  <2>4. (Current.over \in {"bundle", "readable", "each"} /\ work.type # "" => Readable(work.type))'
    BY <1>1, <2>1 DEF InPlace, SameAsked
  <2>5. (rep.offset \in Nat /\ (rep.offset = 0 \/ rep.offset < SampleSize))'
    BY <1>1 DEF InPlace
  <2> QED BY <2>2, <2>3, <2>4, <2>5 DEF InPlace
<1>4. RowsRead'
  BY RowsStay
<1>5. NothingMissed'
  <2>1. rep'.cut => Current.tells = "never" \/ rep'.admits
    BY <1>1 DEF NothingMissed
  <2>2. SUFFICES ASSUME ~Incomplete', NEW b \in ToSet(Scope(Current)) PROVE Covered(b)'
    BY <1>1, <2>1 DEF NothingMissed
  <2>3. Covered(b)
    BY <1>1, <2>2 DEF NothingMissed, Incomplete
  <2>4. ListingOf(content[b], rows)' = ListingOf(content[b], rows)
    BY <1>1, SameSite
  <2> QED BY <2>3, <2>4 DEF Covered
<1> QED BY <1>2, <1>3, <1>4, <1>5

LEMMA DeniedBundleKeeps == ReportInv /\ DeniedBundle => ReportInv'
<1> SUFFICES ASSUME ReportInv, DeniedBundle PROVE ReportInv'
  OBVIOUS
<1>1. /\ Reading /\ rep.left # <<>> /\ UNCHANGED <<content, rows, work>>
      /\ rep' = [rep EXCEPT !.left = Tail(@), !.admits = TRUE]
  BY DEF DeniedBundle
<1>2. DOMAIN rep = RepFields /\ InPlace /\ SiteShape
  BY <1>1, ReadingFacts
<1>3. /\ rep'.left = Tail(rep.left) /\ rep'.admits = TRUE /\ rep'.offset = rep.offset /\ rep'.seen = rep.seen
      /\ rep'.queue = rep.queue /\ rep'.found = rep.found /\ rep'.touched = rep.touched
      /\ rep'.place = rep.place /\ DOMAIN rep' = DOMAIN rep
  BY <1>1, <1>2 DEF RepFields
<1>4. SameAsked
  BY <1>1 DEF SameAsked
<1>5. InPlace'
  BY <1>1, <1>2, <1>3, <1>4, PlaceMoves DEF InPlace
<1>6. RowsRead' /\ RowsAsked'
  BY <1>1, <1>3, <1>4, RowsStay, AskedStays
<1>7. NothingMissed'
  BY <1>3 DEF NothingMissed, Incomplete
<1> QED BY <1>1, <1>2, <1>3, <1>4, <1>5, <1>6, <1>7, SiteStays, GoesOnReading DEF Reading

LEMMA PageFailsKeeps == ReportInv /\ PageFails => ReportInv'
<1> SUFFICES ASSUME ReportInv, PageFails PROVE ReportInv'
  OBVIOUS
<1>1. /\ Reading /\ rep.left # <<>> /\ content' = content /\ rows' = rows /\ Fault
      /\ \/ rep' = [rep EXCEPT !.tried = TRUE]
         \/ \E status \in {"error", "gated"} : rep' = Ended(status)
         \/ /\ Current.listFails = "silent"
            /\ rep' = [rep EXCEPT !.left = <<>>, !.silent = TRUE, !.offset = 0]
         \/ rep' = [rep EXCEPT !.left = Tail(@), !.offset = 0, !.admits = TRUE,
                      !.seen = [id \in {i \in DOMAIN @ : @[i].bundle # Head(rep.left)} |-> @[id]]]
  BY DEF PageFails
<1>2. /\ DOMAIN rep = RepFields /\ SiteShape /\ work.left # <<>> /\ CallShape /\ Sound(Name, Current)
  BY <1>1, ReadingFacts
<1>3. SameAsked /\ Name' = Name /\ SiteShape'
  BY <1>1, <1>2, FaultFacts, SiteStays, SameCall DEF SameAsked
<1>4. CASE rep' = [rep EXCEPT !.tried = TRUE]
  <2>1. /\ rep'.left = rep.left /\ rep'.admits = rep.admits /\ rep'.offset = rep.offset
        /\ rep'.seen = rep.seen /\ rep'.queue = rep.queue /\ rep'.found = rep.found
        /\ rep'.touched = rep.touched /\ rep'.cut = rep.cut /\ rep'.silent = rep.silent
        /\ rep'.shifted = rep.shifted /\ rep'.place = rep.place /\ DOMAIN rep' = DOMAIN rep
    BY <1>2, <1>4 DEF RepFields
  <2>2. InPlace' /\ RowsRead' /\ NothingMissed' /\ RowsAsked'
    BY <1>1, <1>3, <2>1, NothingMoves, AskedStays
  <2> QED BY <1>1, <1>3, <2>1, <2>2, GoesOnReading DEF Reading
<1>5. CASE \E status \in {"error", "gated"} : rep' = Ended(status)
  BY <1>1, <1>2, <1>3, <1>5, EndsUnsaid
<1>6. CASE /\ Current.listFails = "silent"
           /\ rep' = [rep EXCEPT !.left = <<>>, !.silent = TRUE, !.offset = 0]
  <2>1. /\ rep'.left = <<>> /\ rep'.admits = rep.admits /\ rep'.offset = 0 /\ rep'.silent = TRUE
        /\ rep'.seen = rep.seen /\ rep'.queue = rep.queue /\ rep'.found = rep.found
        /\ rep'.touched = rep.touched /\ rep'.cut = rep.cut
        /\ rep'.place = rep.place /\ DOMAIN rep' = DOMAIN rep
    BY <1>2, <1>6 DEF RepFields
  <2>2. InPlace' /\ RowsRead' /\ RowsAsked'
    BY <1>1, <1>3, <2>1, PlaceMoves, RowsStay, AskedStays
  <2>3. NothingMissed'
    <3>1. Name = "userActivity"
      BY <1>2, <1>6 DEF Sound
    <3>2. Incomplete'
      BY <1>3, <2>1, <3>1 DEF Incomplete
    <3>3. (rep.cut => Current.tells = "never" \/ rep.admits)'
      BY <1>1, <1>3, <2>1, ReadingFacts, SameCall DEF NothingMissed, SameAsked
    <3> QED BY <3>2, <3>3 DEF NothingMissed
  <2> QED BY <1>1, <1>3, <2>1, <2>2, <2>3, GoesOnReading DEF Reading
<1>7. CASE rep' = [rep EXCEPT !.left = Tail(@), !.offset = 0, !.admits = TRUE,
                     !.seen = [id \in {i \in DOMAIN @ : @[i].bundle # Head(rep.left)} |-> @[id]]]
  <2> DEFINE kept == {i \in DOMAIN rep.seen : rep.seen[i].bundle # Head(rep.left)}
  <2>1. /\ rep'.left = Tail(rep.left) /\ rep'.admits = TRUE /\ rep'.offset = 0
        /\ rep'.seen = [id \in kept |-> rep.seen[id]] /\ rep'.queue = rep.queue /\ rep'.found = rep.found
        /\ rep'.touched = rep.touched /\ rep'.place = rep.place /\ DOMAIN rep' = DOMAIN rep
    BY <1>2, <1>7 DEF RepFields
  <2>2. DOMAIN rep'.seen \subseteq DOMAIN rep.seen /\ \A id \in DOMAIN rep'.seen : rep'.seen[id] = rep.seen[id]
    BY <2>1
  <2>3. InPlace' /\ RowsRead' /\ RowsAsked'
    BY <1>1, <1>3, <2>1, <2>2, PlaceMoves, RowsStay, AskedStays
  <2>4. NothingMissed'
    BY <2>1 DEF NothingMissed, Incomplete
  <2> QED BY <1>1, <1>3, <2>1, <2>3, <2>4, GoesOnReading DEF Reading
<1> QED BY <1>1, <1>4, <1>5, <1>6, <1>7

LEMMA CheckAllKeeps == ReportInv /\ CheckAll => ReportInv'
<1> SUFFICES ASSUME ReportInv, CheckAll PROVE ReportInv'
  OBVIOUS
<1>1. /\ Reading /\ content' = content /\ rows' = rows /\ (Fault \/ UNCHANGED work)
      /\ \E how \in {"ok", "failed"} : rep' = [rep EXCEPT !.second = how]
  BY DEF CheckAll, ReadAll
<1>2. CallShape /\ DOMAIN rep = RepFields
  BY <1>1, ReadingFacts
<1>3. /\ rep'.left = rep.left /\ rep'.admits = rep.admits /\ rep'.offset = rep.offset
      /\ rep'.seen = rep.seen /\ rep'.queue = rep.queue /\ rep'.found = rep.found
      /\ rep'.touched = rep.touched /\ rep'.cut = rep.cut /\ rep'.silent = rep.silent
      /\ rep'.shifted = rep.shifted /\ rep'.place = rep.place /\ DOMAIN rep' = DOMAIN rep
  BY <1>1, <1>2 DEF RepFields
<1>4. SameAsked
  BY <1>1, <1>2, FaultFacts
<1>5. SiteShape' /\ InPlace' /\ RowsRead' /\ NothingMissed' /\ RowsAsked'
  BY <1>1, <1>3, <1>4, NothingMoves, AskedStays
<1> QED BY <1>1, <1>3, <1>4, <1>5, GoesOnReading DEF Reading

---------------------------------------------------------------------------
(* Asking more *)

\* An answer about a row: it is taken out of the queue, and found or admitted
\* unless it says that the row has nothing wrong.
LEMMA TakeKeeps ==
  ASSUME ReportInv, Reading, SameAsked, content' = content, rows' = rows, Follows(Current),
         NEW id \in ToSet(rep.queue),
         NEW verdict \in {"ok", "told", "bad", "unseen", "throws", "gates"},
         rep' = Take(verdict, id),
         verdict = "bad" /\ id \notin rep.touched => rows[id].bad,
         verdict = "ok" /\ id \notin rep.touched => ~rows[id].bad
  PROVE  ReportInv'
<1>1. /\ CallShape /\ work.left # <<>> /\ SiteShape /\ DOMAIN rep = RepFields
      /\ InPlace /\ RowsRead /\ RowsAsked /\ NothingMissed
  BY ReadingFacts
<1>2. CASE verdict \in {"throws", "gates"}
  <2>1. rep' = Ended("error") \/ rep' = Ended("gated")
    BY <1>2 DEF Take
  <2> QED BY <1>1, <2>1, EndsUnsaid
<1>3. CASE verdict \in {"ok", "told", "bad", "unseen"}
  <2> DEFINE queue == Kept(rep.queue, ToSet(rep.queue) \ {id})
  <2>1. /\ rep'.left = rep.left /\ rep'.offset = rep.offset /\ rep'.seen = rep.seen /\ rep'.queue = queue
        /\ rep'.touched = rep.touched /\ rep'.cut = rep.cut /\ rep'.silent = rep.silent
        /\ rep'.shifted = rep.shifted /\ rep'.place = rep.place /\ DOMAIN rep' = DOMAIN rep
    BY <1>1, <1>3 DEF Take, RepFields
  <2>2. rep'.admits = IF verdict = "told" THEN TRUE ELSE rep.admits
    BY <1>1, <1>3 DEF Take, RepFields
  <2>3. rep'.found = IF verdict \in {"bad", "unseen"} THEN rep.found \cup {Finding(id, verdict)}
                     ELSE rep.found
    BY <1>1, <1>3 DEF Take, RepFields
  <2> HIDE DEF queue
  <2>4. IsASequence(queue) /\ ToSet(queue) = ToSet(rep.queue) \ {id}
    <3>1. IsASequence(rep.queue)
      BY <1>1 DEF RowsAsked
    <3>2. IsASequence(queue) /\ ToSet(queue) = ToSet(rep.queue) \cap (ToSet(rep.queue) \ {id})
      BY <3>1, KeptFacts DEF queue
    <3> QED BY <3>2
  <2>5. Current' = Current
    BY SameCall DEF SameAsked
  <2>6. \A i : Present(i)' <=> Present(i)
    BY <2>5, SameSite
  <2>7. Follows(Current)' <=> Follows(Current)
    BY <2>5 DEF Follows
  <2>8. ASSUME NEW f \in rep'.found
        PROVE  f.id \in DOMAIN rows /\ (f.why = "bad" /\ f.id \notin rep'.touched => rows[f.id].bad)
    <3>1. CASE f \in rep.found
      BY <1>1, <2>1, <3>1 DEF RowsAsked
    <3>2. CASE verdict \in {"bad", "unseen"} /\ f = Finding(id, verdict)
      <4>1. f.id = id /\ f.why = verdict
        BY <3>2 DEF Finding
      <4> QED BY <1>1, <2>1, <4>1 DEF RowsAsked
    <3> QED BY <2>3, <2>8, <3>1, <3>2
  <2>9. ASSUME ~rep'.admits, NEW i \in DOMAIN rep'.seen \ rep'.touched, rows[i].bad
        PROVE  i \in ToSet(rep'.queue) \cup {f.id : f \in rep'.found}
    <3>1. i \in ToSet(rep.queue) \cup {f.id : f \in rep.found} /\ verdict # "told"
      BY <1>1, <2>1, <2>2, <2>9 DEF RowsAsked
    <3>2. rep.found \subseteq rep'.found
      BY <2>3
    <3>3. CASE i = id
      <4>1. verdict \in {"bad", "unseen"}
        BY <1>3, <2>1, <2>9, <3>1, <3>3
      <4>2. Finding(id, verdict) \in rep'.found /\ Finding(id, verdict).id = id
        BY <2>3, <4>1 DEF Finding
      <4> QED BY <3>3, <4>2
    <3>4. CASE i # id
      BY <2>1, <2>4, <3>1, <3>2, <3>4
    <3> QED BY <3>3, <3>4
  <2>10. RowsAsked'
    <3>1. IsASequence(rep'.queue) /\ ToSet(rep'.queue) \subseteq DOMAIN rows
      BY <1>1, <2>1, <2>4 DEF RowsAsked
    <3>2. \A i \in ToSet(rep'.queue) \ rep'.touched : Present(i)
      BY <1>1, <2>1, <2>4 DEF RowsAsked
    <3> QED BY <2>6, <2>7, <2>8, <2>9, <3>1, <3>2 DEF RowsAsked
  <2>11. SiteShape' /\ InPlace' /\ RowsRead' /\ NothingMissed'
    BY <2>1, <2>2, NothingMoves
  <2> QED BY <2>1, <2>10, <2>11, GoesOnReading DEF Reading
<1> QED BY <1>2, <1>3

LEMMA CheckRowKeeps == ReportInv /\ CheckRow => ReportInv'
<1> SUFFICES ASSUME ReportInv, CheckRow PROVE ReportInv'
  OBVIOUS
<1>1. PICK id \in Askable(Current) : AskRow(id) \/ AskFails(id)
  BY DEF CheckRow
<1>2. Reading /\ Follows(Current) /\ rep.queue # <<>>
  BY <1>1 DEF CheckRow, ReadAll, Askable
<1>3. /\ CallShape /\ work.left # <<>> /\ SiteShape /\ DOMAIN rep = RepFields
      /\ RowsAsked /\ Sound(Name, Current)
  BY <1>2, ReadingFacts
<1>4. id \in ToSet(rep.queue)
  <2>1. Head(rep.queue) \in ToSet(rep.queue)
    BY <1>2, <1>3, TailElements DEF RowsAsked
  <2> QED BY <1>1, <2>1 DEF Askable
<1>5. /\ Current.verdict.good = "ok" /\ Current.verdict.bad = "bad"
      /\ Current.verdict.closed \in {"told", "throws"}
      /\ Current.verdict.absent \in {"told", "bad", "gates", "throws", "ok", "unseen"}
      /\ Current.verdict.down \in {"told", "throws", "unseen"}
  BY <1>2, <1>3 DEF Sound
<1>6. CASE AskRow(id)
  <2>1. PICK answer : answer = RowAnswer(Current, id)
    OBVIOUS
  <2>2. PICK verdict : verdict = Current.verdict[answer]
    OBVIOUS
  <2>3. /\ answer \in {"closed", "absent", "bad", "good"}
        /\ answer = "absent" => ~Present(id)
        /\ answer = "bad" => rows[id].bad
        /\ answer = "good" => ~rows[id].bad
    BY <2>1 DEF RowAnswer
  <2>4. id \notin rep.touched => Present(id)
    BY <1>3, <1>4 DEF RowsAsked
  <2>5. /\ verdict \in {"ok", "told", "bad", "unseen", "throws", "gates"}
        /\ verdict = "bad" /\ id \notin rep.touched => rows[id].bad
        /\ verdict = "ok" /\ id \notin rep.touched => ~rows[id].bad
    BY <1>5, <2>2, <2>3, <2>4
  <2>6. /\ rep' = Take(verdict, id) /\ content' = content /\ rows' = rows /\ SameAsked
    BY <1>6, <2>1, <2>2 DEF AskRow, SameAsked
  <2> QED BY <1>2, <1>4, <2>5, <2>6, TakeKeeps
<1>7. CASE AskFails(id)
  <2>1. Fault /\ content' = content /\ rows' = rows
    BY <1>7 DEF AskFails
  <2>2. SameAsked
    BY <1>3, <2>1, FaultFacts
  <2>3. CASE rep' = [rep EXCEPT !.tried = TRUE]
    <3>1. /\ rep'.left = rep.left /\ rep'.admits = rep.admits /\ rep'.offset = rep.offset
          /\ rep'.seen = rep.seen /\ rep'.queue = rep.queue /\ rep'.found = rep.found
          /\ rep'.touched = rep.touched /\ rep'.cut = rep.cut /\ rep'.silent = rep.silent
          /\ rep'.shifted = rep.shifted /\ rep'.place = rep.place /\ DOMAIN rep' = DOMAIN rep
      BY <1>3, <2>3 DEF RepFields
    <3>2. SiteShape' /\ InPlace' /\ RowsRead' /\ NothingMissed' /\ RowsAsked'
      BY <1>2, <2>1, <2>2, <3>1, NothingMoves, AskedStays
    <3> QED BY <1>2, <2>2, <3>1, <3>2, GoesOnReading DEF Reading
  <2>4. CASE rep' = Take(Current.verdict.down, id)
    BY <1>2, <1>4, <1>5, <2>1, <2>2, <2>4, TakeKeeps
  <2> QED BY <1>7, <2>3, <2>4 DEF AskFails
<1> QED BY <1>1, <1>6, <1>7

---------------------------------------------------------------------------
(* Editors *)

LEMMA EditKeeps == ReportInv /\ Edit => ReportInv'
<1> SUFFICES ASSUME ReportInv, Edit PROVE ReportInv'
  OBVIOUS
<1>1. Reading /\ rep.left # <<>> /\ work' = [work EXCEPT !.edits = @ - 1]
  BY DEF Edit
<1>2. PICK b \in ToSet(Bundles) : \E id \in ToSet(content[b]) \cup {NewRow} :
        /\ id = NewRow => ~Present(id)
        /\ \E pub, bad \in BOOLEAN : rows' = [rows EXCEPT ![id].pub = pub, ![id].bad = bad]
        /\ content' \in {[content EXCEPT ![b] = Saved(Current, @, id)],
                         [content EXCEPT ![b] = Kept(@, ToSet(@) \ {id})]}
        /\ rep' = [rep EXCEPT !.touched = @ \cup {id},
                     !.shifted = @ \/ Slipped(b, ListingOf(content[b], rows), ListingOf(content'[b], rows'))]
  BY DEF Edit
<1>3. PICK id \in ToSet(content[b]) \cup {NewRow} :
        /\ id = NewRow => ~Present(id)
        /\ \E pub, bad \in BOOLEAN : rows' = [rows EXCEPT ![id].pub = pub, ![id].bad = bad]
        /\ content' \in {[content EXCEPT ![b] = Saved(Current, @, id)],
                         [content EXCEPT ![b] = Kept(@, ToSet(@) \ {id})]}
        /\ rep' = [rep EXCEPT !.touched = @ \cup {id},
                     !.shifted = @ \/ Slipped(b, ListingOf(content[b], rows), ListingOf(content'[b], rows'))]
  BY <1>2
<1>4. /\ CallShape /\ work.left # <<>> /\ SiteShape /\ DOMAIN rep = RepFields
      /\ InPlace /\ RowsRead /\ RowsAsked /\ NothingMissed
  BY <1>1, ReadingFacts
<1>5. SameAsked
  BY <1>1, <1>4 DEF SameAsked, CallShape, WorkFields
<1>6. Name' = Name /\ Current' = Current /\ Scope(Current)' = Scope(Current)
  BY <1>5, SameCall DEF SameAsked
<1>7. /\ rep'.left = rep.left /\ rep'.admits = rep.admits /\ rep'.offset = rep.offset
      /\ rep'.seen = rep.seen /\ rep'.queue = rep.queue /\ rep'.found = rep.found
      /\ rep'.touched = rep.touched \cup {id} /\ rep'.cut = rep.cut /\ rep'.silent = rep.silent
      /\ rep'.place = rep.place /\ DOMAIN rep' = DOMAIN rep
  BY <1>3, <1>4 DEF RepFields
<1>8. rep'.shifted <=>
        rep.shifted \/ Slipped(b, ListingOf(content[b], rows), ListingOf(content'[b], rows'))
  BY <1>3, <1>4 DEF RepFields
<1>9. DOMAIN rows' = DOMAIN rows /\ \A i \in DOMAIN rows : i # id => rows'[i] = rows[i]
  BY <1>3
<1>10. /\ DOMAIN content' = ToSet(Bundles) /\ \A c \in ToSet(Bundles) : c # b => content'[c] = content[c]
       /\ content'[b] \in {Saved(Current, content[b], id), Kept(content[b], ToSet(content[b]) \ {id})}
  BY <1>3, <1>4 DEF SiteShape
<1>11. /\ IsASequence(content'[b]) /\ ToSet(content'[b]) \ {id} = ToSet(content[b]) \ {id}
       /\ ToSet(content'[b]) \subseteq ToSet(content[b]) \cup {id}
  <2>1. PICK t, u, r : t = content[b] /\ u = content'[b] /\ r = Current
    OBVIOUS
  <2>2. IsASequence(t) /\ (u = Saved(r, t, id) \/ u = Kept(t, ToSet(t) \ {id}))
    BY <1>4, <1>10, <2>1 DEF SiteShape
  <2>3. IsASequence(u) /\ ToSet(u) \ {id} = ToSet(t) \ {id} /\ ToSet(u) \subseteq ToSet(t) \cup {id}
    BY <2>2, SavedFacts
  <2> QED BY <2>1, <2>3
<1>12. id \in DOMAIN rows /\ \A c \in ToSet(Bundles) : c # b => id \notin ToSet(content[c])
  <2>1. CASE id \in ToSet(content[b])
    BY <1>4, <2>1 DEF SiteShape
  <2>2. CASE id = NewRow
    BY <1>3, <1>4, <2>2 DEF SiteShape, Present
  <2> QED BY <2>1, <2>2
<1>13. SiteShape'
  <2>1. \A c \in ToSet(Bundles) : IsASequence(content'[c]) /\ ToSet(content'[c]) \subseteq DOMAIN rows'
    BY <1>4, <1>9, <1>10, <1>11, <1>12 DEF SiteShape
  <2>2. ASSUME NEW c \in ToSet(Bundles), NEW d \in ToSet(Bundles), c # d
        PROVE  ToSet(content'[c]) \cap ToSet(content'[d]) = {}
    BY <1>4, <1>10, <1>11, <1>12, <2>2 DEF SiteShape
  <2> QED BY <1>4, <1>9, <1>10, <2>1, <2>2 DEF SiteShape
<1>14. InPlace'
  BY <1>1, <1>4, <1>5, <1>7, PlaceMoves DEF InPlace
\* What nobody touched is where and what it was.
<1>15. \A c \in ToSet(Bundles) : ToSet(content'[c]) \ {id} = ToSet(content[c]) \ {id}
  BY <1>10, <1>11
<1>16. \A i \in DOMAIN rows : i # id /\ Present(i) => Present(i)'
  BY <1>4, <1>10, <1>15 DEF Present, SiteShape
<1>17. RowsRead'
  <2>1. ToSet(Scope(Current)) \subseteq ToSet(Bundles)
    BY <1>4, ScopeFacts DEF InPlace
  <2>2. ASSUME NEW i \in DOMAIN rep'.seen \ rep'.touched
        PROVE  /\ rep'.seen[i].row = rows'[i] /\ i \in ToSet(content'[rep'.seen[i].bundle])
               /\ Matches(Current, rows'[i])
    <3>1. i \in DOMAIN rep.seen \ rep.touched /\ i # id /\ i \in DOMAIN rows
      BY <1>4, <1>7, <2>2 DEF RowsRead
    <3>2. rows'[i] = rows[i] /\ rep.seen[i].bundle \in ToSet(Bundles)
      BY <1>4, <1>9, <2>1, <3>1 DEF RowsRead
    <3>3. /\ rep.seen[i].row = rows[i] /\ i \in ToSet(content[rep.seen[i].bundle])
          /\ Matches(Current, rows[i])
      BY <1>4, <3>1 DEF RowsRead
    <3> QED BY <1>7, <1>15, <3>1, <3>2, <3>3
  <2>3. ASSUME NEW i \in DOMAIN rep'.seen
        PROVE  /\ rep'.seen[i].bundle \in ToSet(Scope(Current))
               /\ Readable(rep'.seen[i].bundle) \/ Current.pages = "counted"
    BY <1>4, <1>7 DEF RowsRead
  <2>4. IsFiniteSet(DOMAIN rep'.seen) /\ DOMAIN rep'.seen \subseteq DOMAIN rows'
    BY <1>4, <1>7, <1>9 DEF RowsRead
  <2> QED BY <1>6, <2>2, <2>3, <2>4 DEF RowsRead, Readable, Matches
<1>18. RowsAsked'
  <2>1. IsASequence(rep'.queue) /\ ToSet(rep'.queue) \subseteq DOMAIN rows'
    BY <1>4, <1>7, <1>9 DEF RowsAsked
  <2>2. ASSUME NEW i \in ToSet(rep'.queue) \ rep'.touched PROVE Present(i)'
    BY <1>4, <1>7, <1>16, <2>2 DEF RowsAsked
  <2>3. ASSUME NEW f \in rep'.found
        PROVE  f.id \in DOMAIN rows' /\ (f.why = "bad" /\ f.id \notin rep'.touched => rows'[f.id].bad)
    BY <1>4, <1>7, <1>9, <2>3 DEF RowsAsked
  <2>4. ASSUME Follows(Current), ~rep'.admits, NEW i \in DOMAIN rep'.seen \ rep'.touched, rows'[i].bad
        PROVE  i \in ToSet(rep'.queue) \cup {f.id : f \in rep'.found}
    <3>1. i \in DOMAIN rep.seen \ rep.touched /\ i # id /\ i \in DOMAIN rows
      BY <1>4, <1>7, <2>4 DEF RowsRead
    <3>2. rows[i].bad
      BY <1>9, <2>4, <3>1
    <3> QED BY <1>4, <1>7, <2>4, <3>1, <3>2 DEF RowsAsked
  <2>5. Follows(Current)' <=> Follows(Current)
    BY <1>6 DEF Follows
  <2> QED BY <2>1, <2>2, <2>3, <2>4, <2>5 DEF RowsAsked
<1>19. NothingMissed'
  <2>1. rep'.cut => Current.tells = "never" \/ rep'.admits
    BY <1>4, <1>7 DEF NothingMissed
  <2>2. SUFFICES ASSUME ~Incomplete', NEW c \in ToSet(Scope(Current)) PROVE Covered(c)'
    BY <1>6, <2>1 DEF NothingMissed
  <2>3. Covered(c) /\ ~rep'.shifted
    BY <1>4, <1>6, <1>7, <1>8, <2>2 DEF NothingMissed, Incomplete
  <2>4. c \in ToSet(Bundles)
    BY <1>4, <2>2, ScopeFacts DEF InPlace
  <2>5. PICK before, after : before = ListingOf(content[c], rows) /\ after = ListingOf(content[c], rows)'
    OBVIOUS
  <2>6. /\ IsASequence(before)
        /\ ToSet(before) = {i \in ToSet(content[c]) : Matches(Current, rows[i])}
    BY <1>4, <2>4, <2>5, SiteListing
  <2>7. PICK ids, of : ids = content'[c] /\ of = rows'
    OBVIOUS
  <2>8. after = ListingOf(ids, of)
    BY <1>6, <2>5, <2>7 DEF ListingOf, Matches
  <2>9. /\ IsASequence(after) /\ ToSet(after) = {i \in ToSet(content'[c]) : Matches(Current, rows'[i])}
    <3>1. IsASequence(ids)
      BY <1>13, <2>4, <2>7 DEF SiteShape
    <3>2. /\ IsASequence(ListingOf(ids, of))
          /\ ToSet(ListingOf(ids, of)) = {i \in ToSet(ids) : Matches(Current, of[i])}
      BY <3>1, ListingFacts
    <3> QED BY <2>7, <2>8, <3>2
  <2>10. ASSUME NEW i \in ToSet(after) \ {id} PROVE i \in ToSet(before)
    <3>1. i \in ToSet(content[c]) /\ Matches(Current, rows'[i])
      BY <1>15, <2>4, <2>9, <2>10
    <3>2. rows'[i] = rows[i]
      BY <1>4, <1>9, <2>4, <2>10, <3>1 DEF SiteShape
    <3> QED BY <2>6, <3>1, <3>2
  <2>11. c \notin ToSet(rep'.left) => ToSet(after) \subseteq DOMAIN rep'.seen \cup rep'.touched
    BY <1>7, <2>3, <2>5, <2>10 DEF Covered
  <2>12. ASSUME rep'.left # <<>>, c = Head(rep'.left), NEW k \in DOMAIN after, k <= rep'.offset
         PROVE  after[k] \in DOMAIN rep'.seen \cup rep'.touched
    <3>1. c = Head(rep.left) /\ k <= rep.offset
      BY <1>7, <2>12
    <3>2. after[k] \in ToSet(after)
      BY DEF ToSet
    <3>3. SUFFICES ASSUME after[k] # id PROVE after[k] \in DOMAIN rep.seen \cup rep.touched
      BY <1>7
    <3>4. PICK j \in DOMAIN before : before[j] = after[k]
      BY <2>10, <3>2, <3>3 DEF ToSet
    <3>5. CASE c = b
      <4>1. ~Slipped(b, before, after)
        <5>1. ListingOf(content'[b], rows') = after
          BY <2>7, <2>8, <3>5
        <5> QED BY <1>8, <2>3, <2>5, <3>5, <5>1
      <4>2. \A m \in DOMAIN before : m > rep.offset => before[m] # after[k]
        <5>1. SUFFICES ASSUME NEW m \in DOMAIN before, m > rep.offset, before[m] = after[k] PROVE FALSE
          OBVIOUS
        <5>2. after[k] \in {i \in ToSet(before) : \E n \in DOMAIN before : n > rep.offset /\ before[n] = i}
          BY <2>10, <3>2, <3>3, <5>1
        <5> QED BY <2>12, <3>1, <3>5, <4>1, <5>2 DEF Slipped
      <4>3. j <= rep.offset
        <5>1. j \in Nat /\ rep.offset \in Nat
          <6>1. DOMAIN before = 1..Len(before) /\ Len(before) \in Nat
            BY <2>6, OwnElements DEF IsASequence
          <6>2. j \in Nat
            BY <3>4, <6>1
          <6>3. rep.offset \in Nat
            BY <1>4 DEF InPlace
          <6> QED BY <6>2, <6>3
        <5> QED BY <3>4, <4>2, <5>1
      <4> QED BY <1>1, <2>3, <2>5, <3>1, <3>4, <4>3 DEF Covered
    <3>6. CASE c # b
      <4>1. content'[c] = content[c] /\ id \notin ToSet(content[c])
        BY <1>10, <1>12, <2>4, <3>6
      <4>2. \A i \in ToSet(content[c]) : rows'[i] = rows[i]
        BY <1>4, <1>9, <2>4, <4>1 DEF SiteShape
      <4>3. ToSet(content[c]) = ToSet(ids) /\ content[c] = ids
        BY <2>7, <4>1
      <4>4. {i \in ToSet(ids) : Matches(Current, of[i])} = {i \in ToSet(ids) : Matches(Current, rows[i])}
        BY <2>7, <4>2, <4>3
      <4>5. after = before
        BY <2>5, <2>8, <4>3, <4>4 DEF ListingOf
      <4> QED BY <1>1, <2>3, <2>5, <2>12, <3>1, <4>5 DEF Covered
    <3> QED BY <3>5, <3>6
  <2> QED BY <2>5, <2>11, <2>12 DEF Covered
<1> QED BY <1>1, <1>5, <1>7, <1>13, <1>14, <1>17, <1>18, <1>19, GoesOnReading DEF Reading

---------------------------------------------------------------------------
(* The result *)

FindingsOf(why, set) == {Finding(id, why) : id \in set}
Defects == {id \in DOMAIN rep.seen \ Overlooks(Sight(Current)) : Current.of = "all" \/ rep.seen[id].row.bad}
Unlinked == {id \in DOMAIN rep.seen : rep.seen[id].row.bad \/ Linker \notin DOMAIN rep.seen \ Hidden}

LEMMA ListedParts ==
  Listed(Current, DOMAIN rep.seen) =
    IF Current.of = "unlinked" THEN FindingsOf("unseen", Unlinked)
    ELSE IF Current.of = "twins" THEN IF Cardinality(Defects) > 1 THEN FindingsOf("bad", Defects) ELSE {}
    ELSE IF Sight(Current) \in {"lists", "guesses"} /\ Blind(DOMAIN rep.seen) THEN {}
    ELSE IF Sight(Current) = "lists"
         THEN FindingsOf("bad", Defects) \cup FindingsOf("unseen", DOMAIN rep.seen \cap Hidden)
    ELSE IF Sight(Current) = "guesses" THEN FindingsOf("bad", Defects \cup (DOMAIN rep.seen \cap Hidden))
    ELSE FindingsOf("bad", Defects)
  BY DEF Listed, FindingsOf, Defects, Unlinked

LEMMA FindingFacts ==
  ASSUME NEW why, NEW set
  PROVE  /\ \A f \in FindingsOf(why, set) : f.why = why /\ f.id \in set
         /\ \A id \in set : \E f \in FindingsOf(why, set) : f.id = id
<1>1. ASSUME NEW f \in FindingsOf(why, set) PROVE f.why = why /\ f.id \in set
  <2>1. PICK id \in set : f = Finding(id, why)
    BY <1>1 DEF FindingsOf
  <2> QED BY <2>1 DEF Finding
<1>2. ASSUME NEW id \in set PROVE \E f \in FindingsOf(why, set) : f.id = id
  <2>1. Finding(id, why) \in FindingsOf(why, set) /\ Finding(id, why).id = id
    BY <1>2 DEF FindingsOf, Finding
  <2> QED BY <2>1
<1> QED BY <1>1, <1>2

\* What is listed as a defect is a row that was seen to be one, or whose field
\* was not shown while that of others was.
LEMMA ListedIsSeen ==
  ASSUME NEW f \in Listed(Current, DOMAIN rep.seen), f.why = "bad"
  PROVE  \/ f.id \in Defects
         \/ Sight(Current) = "guesses" /\ ~Blind(DOMAIN rep.seen) /\ f.id \in DOMAIN rep.seen \cap Hidden
<1>1. CASE f \in FindingsOf("bad", Defects)
  BY <1>1, FindingFacts
<1>2. CASE f \in FindingsOf("unseen", Unlinked) \cup FindingsOf("unseen", DOMAIN rep.seen \cap Hidden)
  <2>1. f.why = "unseen"
    BY <1>2, FindingFacts
  <2> QED BY <2>1
<1>3. CASE /\ Sight(Current) = "guesses" /\ ~Blind(DOMAIN rep.seen)
           /\ f \in FindingsOf("bad", Defects \cup (DOMAIN rep.seen \cap Hidden))
  BY <1>3, FindingFacts
<1> QED BY <1>1, <1>2, <1>3, ListedParts

\* A row that has what the report looks for, and shows it, is listed; unless the
\* report sees none of the fields, or too few to compare.
LEMMA SeenIsListed ==
  ASSUME NEW id \in DOMAIN rep.seen, Current.of = "all" \/ rep.seen[id].row.bad,
         id \notin Overlooks(Sight(Current)),
         Current.of = "unlinked" => rep.seen[id].row.bad,
         Current.of = "twins" => Cardinality(Defects) > 1,
         ~(Sight(Current) \in {"lists", "guesses"} /\ Blind(DOMAIN rep.seen))
  PROVE  \E f \in Listed(Current, DOMAIN rep.seen) : f.id = id
<1>1. id \in Defects
  BY DEF Defects
<1>2. CASE Current.of = "unlinked"
  <2>1. id \in Unlinked
    BY <1>2 DEF Unlinked
  <2>2. Listed(Current, DOMAIN rep.seen) = FindingsOf("unseen", Unlinked)
    BY <1>2, ListedParts
  <2> QED BY <2>1, <2>2, FindingFacts
<1>3. CASE Current.of # "unlinked"
  <2>1. \E f \in FindingsOf("bad", Defects) : f.id = id
    BY <1>1, FindingFacts
  <2>2. \E f \in FindingsOf("bad", Defects \cup (DOMAIN rep.seen \cap Hidden)) : f.id = id
    BY <1>1, FindingFacts
  <2> QED BY <1>3, <2>1, <2>2, ListedParts
<1> QED BY <1>2, <1>3

\* The rows a report owes, however many there are.
Sought ==
  {id \in InScope(Current) \ rep.touched :
     /\ Matches(Current, rows[id]) /\ (Current.of = "all" \/ rows[id].bad)
     /\ Current.sight = "clear" \/ rows[id].shown}

LEMMA OwedIsSought == Owed(Current) = IF Current.of = "twins" /\ Cardinality(Sought) < 2 THEN {} ELSE Sought
  BY DEF Owed, Sought

LEMMA SoughtWasRead ==
  ASSUME ReportInv, ReadAll, ~Incomplete, NEW id \in Sought
  PROVE  id \in DOMAIN rep.seen \ rep.touched /\ rep.seen[id].row = rows[id]
<1>1. /\ CallShape /\ work.left # <<>> /\ SiteShape /\ InPlace /\ RowsRead /\ NothingMissed
      /\ rep.left = <<>>
  BY ReadingFacts DEF ReadAll
<1>2. PICK b \in ToSet(Scope(Current)) : id \in ToSet(content[b])
  BY DEF Sought, InScope
<1>3. b \in ToSet(Bundles) /\ Covered(b) /\ b \notin ToSet(rep.left)
  BY <1>1, <1>2, ScopeFacts, NoElement DEF InPlace, NothingMissed
<1>4. id \in ToSet(ListingOf(content[b], rows))
  BY <1>1, <1>2, <1>3, SiteListing DEF Sought
<1>5. id \in DOMAIN rep.seen \cup rep.touched /\ id \notin rep.touched
  BY <1>3, <1>4 DEF Covered, Sought
<1> QED BY <1>1, <1>5 DEF RowsRead

LEMMA FinishKeeps == ReportInv /\ Finish => ReportInv'
<1> SUFFICES ASSUME ReportInv, Finish PROVE ReportInv'
  OBVIOUS
<1>1. /\ ReadAll /\ Reading /\ rep.left = <<>> /\ UNCHANGED <<content, rows, work>>
      /\ Available(Current) => Askable(Current) = {}
      /\ \/ rep' = Ended("gated")
         \/ Available(Current) /\ rep' \in Slice(Current, Complete(Current))
  BY DEF Finish, ReadAll
<1>2. /\ CallShape /\ work.left # <<>> /\ SiteShape /\ DOMAIN rep = RepFields
      /\ InPlace /\ RowsRead /\ RowsAsked /\ NothingMissed /\ Sound(Name, Current)
  BY <1>1, ReadingFacts
<1>3. SameAsked
  BY <1>1 DEF SameAsked
<1>4. Name' = Name /\ Current' = Current /\ Scope(Current)' = Scope(Current)
  BY <1>3, SameCall DEF SameAsked
<1>5. CASE rep' = Ended("gated")
  BY <1>1, <1>2, <1>3, <1>5, EndsUnsaid
<1>6. CASE Available(Current) /\ rep' \in Slice(Current, Complete(Current))
  <2>1. PICK done : done = Complete(Current)
    OBVIOUS
  <2> DEFINE unasked == Current.follow = "advisories" /\ rep.second = "failed"
  <2>2. /\ DOMAIN done = RepFields /\ done.place = "ended" /\ done.status = "ok"
        /\ done.seen = rep.seen /\ done.touched = rep.touched /\ done.shifted = rep.shifted
        /\ done.cut = rep.cut /\ done.sliced = rep.sliced
    BY <1>2, <2>1 DEF Complete, RepFields
  <2>3. done.admits <=> rep.admits \/ Admits(Current)
    BY <1>2, <2>1 DEF Complete, RepFields
  <2>4. done.silent <=> rep.silent \/ Omits(Current)
    BY <1>2, <2>1 DEF Complete, RepFields
  <2>5. done.found = IF Follows(Current) THEN rep.found
                     ELSE IF unasked THEN {} ELSE Listed(Current, DOMAIN rep.seen)
    BY <1>2, <2>1 DEF Complete, RepFields
  <2> HIDE DEF unasked
  <2>6. \/ rep' = done
        \/ /\ Current.over = "readable"
           /\ \E kept \in SUBSET done.found :
                rep' = [done EXCEPT !.found = kept, !.sliced = TRUE,
                                    !.admits = @ \/ Current.only = "unpublished"]
    BY <1>6, <2>1 DEF Slice
  <2>7. /\ DOMAIN rep' = RepFields /\ rep'.place = "ended" /\ rep'.seen = rep.seen
        /\ rep'.touched = rep.touched /\ rep'.shifted = rep.shifted /\ rep'.cut = rep.cut
        /\ rep'.silent = done.silent /\ rep'.found \subseteq done.found
        /\ done.admits => rep'.admits
        /\ \/ rep'.found = done.found
           \/ Current.over = "readable" /\ rep'.sliced /\ (Current.only = "unpublished" => rep'.admits)
    <3>1. CASE rep' = done
      BY <2>2, <3>1
    <3>2. CASE /\ Current.over = "readable"
               /\ \E kept \in SUBSET done.found :
                    rep' = [done EXCEPT !.found = kept, !.sliced = TRUE,
                                        !.admits = @ \/ Current.only = "unpublished"]
      <4>1. PICK kept \in SUBSET done.found :
              rep' = [done EXCEPT !.found = kept, !.sliced = TRUE,
                                  !.admits = @ \/ Current.only = "unpublished"]
        BY <3>2
      <4>2. rep'.admits <=> done.admits \/ Current.only = "unpublished"
        BY <2>2, <4>1 DEF RepFields
      <4>3. /\ DOMAIN rep' = RepFields /\ rep'.place = "ended" /\ rep'.seen = rep.seen
            /\ rep'.touched = rep.touched /\ rep'.shifted = rep.shifted /\ rep'.cut = rep.cut
            /\ rep'.silent = done.silent /\ rep'.found = kept /\ rep'.sliced
        BY <2>2, <4>1 DEF RepFields
      <4> QED BY <3>2, <4>2, <4>3
    <3> QED BY <2>6, <3>1, <3>2
  <2>8. CallShape' /\ SiteShape' /\ ~Reading'
    BY <1>1, <1>2, <1>3, <2>7, ShapeStays, SiteStays DEF Reading
  <2>9. Sight(Current) = Current.sight \/ Sight(Current) = "rendered"
    BY DEF Sight
  <2>10. ASSUME NEW f \in rep'.found, f.why = "bad", f.id \notin rep'.touched
         PROVE  \/ IF Current.of = "all" THEN Matches(Current, rows[f.id]) ELSE rows[f.id].bad
                \/ Current.sight = "guesses" /\ ~rows[f.id].shown /\ ~Blind(DOMAIN rep.seen)
    <3>1. CASE Follows(Current)
      <4>1. Current.of = "bad" /\ f \in rep.found
        BY <1>2, <2>5, <2>7, <3>1 DEF Sound
      <4> QED BY <1>2, <2>7, <2>10, <4>1 DEF RowsAsked
    <3>2. CASE ~Follows(Current)
      <4>1. f \in Listed(Current, DOMAIN rep.seen)
        BY <2>5, <2>7, <3>2
      <4>2. CASE f.id \in Defects
        <5>1. f.id \in DOMAIN rep.seen \ rep.touched /\ (Current.of = "all" \/ rep.seen[f.id].row.bad)
          BY <2>7, <2>10, <4>2 DEF Defects
        <5> QED BY <1>2, <5>1 DEF RowsRead
      <4>3. CASE Sight(Current) = "guesses" /\ ~Blind(DOMAIN rep.seen) /\ f.id \in DOMAIN rep.seen \cap Hidden
        <5>1. f.id \in DOMAIN rep.seen \ rep.touched /\ ~rep.seen[f.id].row.shown
          BY <2>7, <2>10, <4>3 DEF Hidden
        <5> QED BY <1>2, <2>9, <4>3, <5>1 DEF RowsRead
      <4> QED BY <2>10, <4>1, <4>2, <4>3, ListedIsSeen
    <3> QED BY <3>1, <3>2
  <2>11. \A id \in DOMAIN rep.seen : Readable(rep.seen[id].bundle) \/ Current.pages = "counted"
    BY <1>2 DEF RowsRead
  <2>12. ASSUME ~rep'.admits, ~Excused(Current)', NEW id \in Owed(Current)
         PROVE  id \in {f.id : f \in rep'.found}
    <3>1. /\ ~rep.admits /\ ~Admits(Current) /\ ~rep.shifted /\ ~(rep.cut /\ Current.tells = "never")
          /\ ~((rep.silent \/ Omits(Current)) /\ Name \in {"userActivity", "moduleAudit", "seoAudit"})
          /\ ~(rep'.sliced /\ Name = "recentlyPublished")
      BY <1>4, <2>3, <2>4, <2>7, <2>12 DEF Excused
    <3>2. ~Incomplete
      BY <3>1 DEF Incomplete
    <3>3. id \in Sought /\ (Current.of = "twins" => ~(Cardinality(Sought) < 2))
      BY <2>12, OwedIsSought
    <3>4. \A i \in Sought : i \in DOMAIN rep.seen \ rep.touched /\ rep.seen[i].row = rows[i]
      BY <1>1, <3>2, SoughtWasRead
    <3>5. rep'.found = done.found
      BY <1>2, <2>7, <2>12, <3>1 DEF Sound
    <3>6. \A i \in Sought : (Current.of = "all" \/ rows[i].bad) /\ (Current.sight = "clear" \/ rows[i].shown)
      BY DEF Sought
    <3>7. CASE Follows(Current)
      <4>1. Current.of = "bad" /\ done.found = rep.found
        BY <1>2, <2>5, <3>7 DEF Sound
      <4>2. id \in ToSet(rep.queue) \cup {f.id : f \in rep.found}
        BY <1>2, <3>1, <3>3, <3>4, <3>6, <3>7, <4>1 DEF RowsAsked
      <4>3. rep.queue = <<>>
        <5>1. SUFFICES ASSUME rep.queue # <<>> PROVE FALSE
          OBVIOUS
        <5>2. ~Current.links
          BY <3>1, <5>1 DEF Admits
        <5>3. Head(rep.queue) \in ToSet(rep.queue)
          BY <1>2, <5>1, TailElements DEF RowsAsked
        <5>4. Head(rep.queue) \in Askable(Current)
          BY <1>1, <1>6, <3>7, <5>1, <5>2, <5>3 DEF Askable
        <5> QED BY <1>1, <1>6, <5>4
      <4> QED BY <3>5, <4>1, <4>2, <4>3, NoElement
    <3>8. CASE ~Follows(Current)
      <4>1. ~unasked
        <5>1. SUFFICES ASSUME unasked PROVE FALSE
          OBVIOUS
        <5>2. Omits(Current) /\ Name = "moduleAudit"
          BY <1>2, <5>1 DEF Omits, Sound, unasked
        <5> QED BY <3>1, <5>2
      <4>2. done.found = Listed(Current, DOMAIN rep.seen)
        BY <2>5, <3>8, <4>1
      <4>3. Sight(Current) # "rendered" \/ Unrendered = {}
        <5>1. SUFFICES ASSUME Sight(Current) = "rendered", Unrendered # {} PROVE FALSE
          OBVIOUS
        <5>2. Omits(Current)
          BY <5>1 DEF Omits
        <5>3. Current.follow = "rendered"
          BY <1>2, <5>1 DEF Sight, Sound
        <5> QED BY <1>2, <3>1, <5>2, <5>3 DEF Sound
      <4>4. ASSUME NEW i \in Sought PROVE i \notin Overlooks(Sight(Current))
        <5>1. i \in DOMAIN rep.seen /\ rep.seen[i].row = rows[i] /\ (Current.sight = "clear" \/ rows[i].shown)
          BY <3>4, <3>6
        <5>2. CASE Sight(Current) = "clear"
          BY <5>2 DEF Overlooks
        <5>3. CASE Sight(Current) = "rendered"
          BY <4>3, <5>3 DEF Overlooks
        <5>4. CASE Sight(Current) \notin {"clear", "rendered"}
          <6>1. rows[i].shown
            BY <2>9, <5>1, <5>4
          <6>2. i \notin Hidden
            BY <5>1, <6>1 DEF Hidden
          <6> QED BY <5>4, <6>2 DEF Overlooks
        <5> QED BY <5>2, <5>3, <5>4
      <4>5. ~(Sight(Current) \in {"lists", "guesses"} /\ Blind(DOMAIN rep.seen))
        <5>1. SUFFICES ASSUME Sight(Current) \in {"lists", "guesses"}, Blind(DOMAIN rep.seen) PROVE FALSE
          OBVIOUS
        <5>2. Current.over = "bundle"
          BY <1>2, <2>9, <5>1 DEF Sound
        <5>3. work.type \in ToSet(Bundles) /\ ToSet(Scope(Current)) = {work.type}
          BY <1>2, <5>2, ScopeFacts DEF InPlace
        <5>4. {i \in DOMAIN rep.seen : rep.seen[i].bundle = work.type} = DOMAIN rep.seen
          BY <1>2, <5>3 DEF RowsRead
        <5>5. BlindBundle
          BY <5>1, <5>3, <5>4 DEF BlindBundle
        <5> QED BY <3>1, <5>1, <5>5 DEF Admits
      <4>6. Current.of = "twins" => Cardinality(Defects) > 1
        <5>1. SUFFICES ASSUME Current.of = "twins" PROVE Cardinality(Defects) > 1
          OBVIOUS
        <5>2. Sought \subseteq Defects
          BY <3>4, <3>6, <4>4 DEF Defects
        <5>3. IsFiniteSet(Defects)
          BY <1>2, FS_Subset DEF Defects, RowsRead
        <5>4. IsFiniteSet(Sought) /\ Cardinality(Sought) <= Cardinality(Defects)
          BY <5>2, <5>3, FS_Subset
        <5>5. Cardinality(Sought) \in Nat /\ Cardinality(Defects) \in Nat
          BY <5>3, <5>4, FS_CardinalityType
        <5> QED BY <3>3, <5>1, <5>4, <5>5
      <4>7. /\ id \in DOMAIN rep.seen /\ (Current.of = "all" \/ rep.seen[id].row.bad)
            /\ Current.of = "unlinked" => rep.seen[id].row.bad
        BY <3>3, <3>4, <3>6
      <4>8. \E f \in Listed(Current, DOMAIN rep.seen) : f.id = id
        BY <3>3, <4>4, <4>5, <4>6, <4>7, SeenIsListed
      <4> QED BY <3>5, <4>2, <4>8
    <3> QED BY <3>7, <3>8
  <2>13. ReportIsTrue'
    <3>1. (Owed(Current))' = Owed(Current)
      BY <1>1, <1>4, <2>7 DEF Owed, InScope, Matches
    <3>2. Blind(DOMAIN rep.seen)' <=> Blind(DOMAIN rep.seen)
      BY <2>7 DEF Blind, Hidden
    <3>3. (\A f \in rep.found : f.why = "bad" /\ f.id \notin rep.touched =>
             \/ IF Current.of = "all" THEN Matches(Current, rows[f.id]) ELSE rows[f.id].bad
             \/ Current.sight = "guesses" /\ ~rows[f.id].shown /\ ~Blind(DOMAIN rep.seen))'
      BY <1>1, <1>4, <2>10, <3>2 DEF Matches
    <3>4. (\A id \in DOMAIN rep.seen : Readable(rep.seen[id].bundle) \/ Current.pages = "counted")'
      BY <1>4, <2>7, <2>11 DEF Readable
    <3>5. (rep.admits \/ Excused(Current) \/ Owed(Current) \subseteq {f.id : f \in rep.found})'
      BY <2>12, <3>1
    <3> QED BY <3>3, <3>4, <3>5 DEF ReportIsTrue
  <2> QED BY <2>8, <2>13 DEF ReportInv
<1> QED BY <1>1, <1>5, <1>6

LEMMA StutterKeeps ==
  ASSUME ReportInv, content' = content, rows' = rows, work' = work, rep' = rep
  PROVE  ReportInv'
<1>1. SameAsked /\ Name' = Name /\ Current' = Current /\ Scope(Current)' = Scope(Current)
  BY SameCall DEF SameAsked
<1>2. CallShape' /\ SiteShape'
  BY SiteStays DEF ReportInv, CallShape
<1>3. Reading => InPlace' /\ RowsRead' /\ RowsAsked' /\ NothingMissed'
  BY <1>1, NothingMoves, AskedStays
<1>4. ReportIsTrue'
  <2>1. (Owed(Current))' = Owed(Current)
    BY <1>1 DEF Owed, InScope, Matches
  <2>2. Excused(Current)' <=> Excused(Current)
    BY <1>1 DEF Excused
  <2>3. Blind(DOMAIN rep.seen)' <=> Blind(DOMAIN rep.seen)
    BY DEF Blind, Hidden
  <2>4. ReportIsTrue
    BY DEF ReportInv
  <2> QED BY <1>1, <2>1, <2>2, <2>3, <2>4 DEF ReportIsTrue, Readable, Matches
<1> QED BY <1>2, <1>3, <1>4 DEF ReportInv, Reading

---------------------------------------------------------------------------
(* The theorems *)

\* Of every report on every site, at every moment: the call and the site are
\* well formed, what has been read and asked is what the report is sure of, and
\* nothing before its place was missed that it will not admit.
THEOREM ReportInvariant == ReportSpec => []ReportInv
<1>1. ReportInit => ReportInv
  BY InitHolds
<1>2. ReportInv /\ [ReportNext]_reportVars => ReportInv'
  <2>1. ReportInv /\ ReportNext => ReportInv'
    BY BeginKeeps, FirstReadFailsKeeps, ReadPageKeeps, DeniedBundleKeeps, PageFailsKeeps, CheckRowKeeps,
       CheckAllKeeps, FinishKeeps, NextSectionKeeps, EditKeeps DEF ReportNext
  <2>2. ReportInv /\ UNCHANGED reportVars => ReportInv'
    BY StutterKeeps DEF reportVars
  <2> QED BY <2>1, <2>2
<1> QED BY <1>1, <1>2, PTL DEF ReportSpec

\* A report that ends with a result may be believed, whatever the site holds, the
\* editors do meanwhile and the requests come to: the run Requests checks the
\* same on three rows.
THEOREM ReportsAreTrue == ReportSpec => []ReportIsTrue
<1>1. ReportInv => ReportIsTrue
  BY DEF ReportInv
<1> QED BY <1>1, ReportInvariant, PTL
=============================================================================
