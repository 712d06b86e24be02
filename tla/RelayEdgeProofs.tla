-------------------------- MODULE RelayEdgeProofs --------------------------
(***************************************************************************)
(* The invariants of AgentChannel, the safety properties of RelayEdge and  *)
(* its refinement of RelayContract, for every set of agents, sockets,      *)
(* sites, tokens, documents, clients, requests, tickets and tools.         *)
(*                                                                         *)
(* The channel has one inductive invariant, ChannelInv.  Its heart is      *)
(* OwnerIsCurrent: a socket that is not yet greeted has no owner, so no    *)
(* session holds it, and the sessions the hello compares its binding with  *)
(* (Others) are all the other sessions.  SitesPartitioned needs exactly    *)
(* that, AttestedOnThisChannel needs that a socket which can still deliver *)
(* an acknowledgement is the one its agent's session holds.                *)
(*                                                                         *)
(* The edge adds RelayInv.  fanDown keeps the session it selected across   *)
(* the live token check, while hellos, closes, edits and offboardings      *)
(* replace that session: what survives is that a socket never changes its  *)
(* owner and never forgets an activated document (ChannelGrows).  So what  *)
(* held of the selected session's socket when the request was routed       *)
(* (Routed) still holds when its frame is written, and a frame, wherever   *)
(* it is, is its own request's only one (FramesInOrder).                   *)
(***************************************************************************)
EXTENDS RelayEdge, FiniteSetTheorems, TLAPS

---------------------------------------------------------------------------
(* The channel: its invariant *)

\* A socket has an owner only after its hello.
OwnersGreeted ==
  \A s \in Sockets :
    sock[s].owner # None => sock[s].greeted /\ sock[s].st # "free"

ChannelInv ==
  /\ ChannelTypeOK
  /\ OwnersGreeted
  /\ OwnerIsCurrent
  /\ SitesPartitioned
  /\ AttestedOnThisChannel

---------------------------------------------------------------------------
(* The operators the steps are built from *)

\* What the credential store answers: an agent whose record holds the token.
LEMMA LookupFinds ==
  ASSUME NEW token, Lookup(token) # None
  PROVE  /\ Lookup(token) \in Agents
         /\ creds[Lookup(token)] # None
         /\ creds[Lookup(token)].token = token
<1>1. readable /\ Holders(token) # {}
  BY DEF Lookup
<1>2. Lookup(token) = CHOOSE a \in Holders(token) : TRUE
  BY <1>1 DEF Lookup
<1>3. Lookup(token) \in Holders(token)
  BY <1>1, <1>2
<1> QED BY <1>3 DEF Holders

\* A socket whose hello is pending belongs to no session: the sessions a hello
\* is compared with are all the other agents' sessions.
LEMMA PendingIsFresh ==
  ASSUME ChannelTypeOK, OwnersGreeted, OwnerIsCurrent,
         NEW s \in Sockets, HelloPending(s)
  PROVE  /\ sock[s].owner = None
         /\ \A b \in Connected : sessions[b].sock # s
         /\ \A a : Others(a, s) = Connected \ {a}
<1>1. sock[s].owner = None
  BY DEF HelloPending, OwnersGreeted
<1>2. \A b \in Connected : sessions[b].sock # s
  BY <1>1, ChannelAssumption DEF OwnerIsCurrent, Connected, ChannelAssumption
<1>3. \A a : Others(a, s) = Connected \ {a}
  BY <1>2 DEF Others
<1> QED BY <1>1, <1>2, <1>3

\* The session a hello creates is one.
LEMMA NewSessionType ==
  ASSUME ChannelTypeOK, NEW s \in Sockets, Admitted(s)
  PROVE  NewSession(Lookup(sock[s].token), s) \in Session
<1> DEFINE a == Lookup(sock[s].token)
<1>1. a \in Agents /\ creds[a] # None /\ creds[a].token = sock[s].token
  BY LookupFinds DEF Admitted
<1>2. creds[a] \in Record
  BY <1>1 DEF ChannelTypeOK
<1>3. sock[s].token \in Tokens
  BY <1>1, <1>2 DEF Record
<1>4. BoundSites(a) \subseteq Catalog
  BY DEF BoundSites
<1> QED BY <1>3, <1>4 DEF NewSession, Session

---------------------------------------------------------------------------
(* Type correctness *)

\* What the handlers write into a socket's state leaves it one.
LEMMA SocketUpdates ==
  \A q \in SocketState :
    /\ [q EXCEPT !.st = "destroyed"] \in SocketState
    /\ [q EXCEPT !.greeted = TRUE, !.st = "destroyed"] \in SocketState
    /\ \A a \in Agents : [q EXCEPT !.greeted = TRUE, !.owner = a] \in SocketState
BY DEF SocketState

\* The edge starts with well-typed state: no session, free sockets.
LEMMA TypeInit == ChannelInit => ChannelTypeOK
<1> SUFFICES ASSUME ChannelInit PROVE ChannelTypeOK
  OBVIOUS
<1>1. creds \in [Agents -> Record \cup {None}]
  BY ChannelAssumption DEF ChannelInit, ChannelAssumption
<1>2. sock \in [Sockets -> SocketState]
  BY DEF ChannelInit, SocketState
<1>3. readable \in BOOLEAN /\ edits \in 0..MaxEdits
  BY ChannelAssumption DEF ChannelInit, ChannelAssumption
<1>4. /\ sessions \in [Agents -> Session \cup {None}]
      /\ enforced \in [Sockets -> SUBSET Digests]
  BY DEF ChannelInit
<1> QED BY <1>1, <1>2, <1>3, <1>4 DEF ChannelTypeOK

\* Every handler of the channel keeps the type of every variable.
LEMMA TypeStep == ChannelTypeOK /\ [ChannelNext]_channelVars => ChannelTypeOK'
<1> SUFFICES ASSUME ChannelTypeOK, [ChannelNext]_channelVars
             PROVE  ChannelTypeOK'
  OBVIOUS
<1> USE DEF ChannelTypeOK
<1>1. CASE FileFlips
  BY <1>1, ChannelAssumption DEF FileFlips, ChannelAssumption
<1>2. ASSUME NEW s \in Sockets, NEW token \in Tokens, Dial(s, token)
      PROVE  ChannelTypeOK'
  <2>1. [sock[s] EXCEPT !.st = "open", !.token = token] \in SocketState
    BY <1>2 DEF SocketState
  <2>2. sock' = [sock EXCEPT ![s] = [sock[s] EXCEPT !.st = "open", !.token = token]]
    BY <1>2 DEF Dial
  <2> QED BY <1>2, <2>1, <2>2 DEF Dial
<1>3. ASSUME NEW s \in Sockets, HelloDenied(s)
      PROVE  ChannelTypeOK'
  <2>1. [sock[s] EXCEPT !.st = "destroyed", !.greeted = TRUE] \in SocketState
    BY <1>3 DEF SocketState
  <2>2. sock' = [sock EXCEPT
            ![s] = [sock[s] EXCEPT !.st = "destroyed", !.greeted = TRUE]]
    BY <1>3 DEF HelloDenied
  <2> QED BY <1>3, <2>1, <2>2 DEF HelloDenied
<1>4. ASSUME NEW s \in Sockets, HelloAccepted(s)
      PROVE  ChannelTypeOK'
  <2> DEFINE a == Lookup(sock[s].token)
  <2>1. a \in Agents
    BY <1>4, LookupFinds DEF HelloAccepted, Admitted
  <2>2. sessions' \in [Agents -> Session \cup {None}]
    BY <1>4, <2>1, NewSessionType DEF HelloAccepted
  <2>3. sock' \in [Sockets -> SocketState]
    <3>1. \A x \in Sockets : sock[x] \in SocketState
      OBVIOUS
    <3> QED BY <1>4, <2>1, <3>1, SocketUpdates DEF HelloAccepted
  <2> QED BY <1>4, <2>2, <2>3 DEF HelloAccepted
<1>5. ASSUME NEW s \in Sockets, HelloOfferFails(s)
      PROVE  ChannelTypeOK'
  <2>1. sessions' \in [Agents -> Session \cup {None}]
    BY <1>5 DEF HelloOfferFails
  <2>2. sock' \in [Sockets -> SocketState]
    <3>1. \A x \in Sockets : sock[x] \in SocketState
      OBVIOUS
    <3> QED BY <1>5, <3>1, SocketUpdates DEF HelloOfferFails
  <2> QED BY <1>5, <2>1, <2>2 DEF HelloOfferFails
<1>6. ASSUME NEW s \in Sockets, ProtocolViolation(s)
      PROVE  ChannelTypeOK'
  BY <1>6 DEF ProtocolViolation, SocketState
<1>7. ASSUME NEW s \in Sockets, NEW d \in Digests, Activate(s, d)
      PROVE  ChannelTypeOK'
  BY <1>7 DEF Activate
<1>8. ASSUME NEW s \in Sockets, NEW d \in Digests, BundleAck(s, d)
      PROVE  ChannelTypeOK'
  <2>1. sock[s].owner \in Agents /\ sessions[sock[s].owner] \in Session
    BY <1>8 DEF BundleAck, Connected
  <2>2. sessions' \in [Agents -> Session \cup {None}]
    BY <1>8, <2>1 DEF BundleAck, Session
  <2> QED BY <1>8, <2>2 DEF BundleAck
<1>9. ASSUME NEW a \in Agents, NEW rec \in Record \cup {None}, EditCredential(a, rec)
      PROVE  ChannelTypeOK'
  BY <1>9, ChannelAssumption DEF EditCredential, ChannelAssumption
<1>10. ASSUME NEW s \in Sockets, AgentLost(s)
       PROVE  ChannelTypeOK'
  BY <1>10 DEF AgentLost, SocketState
<1>11. ASSUME NEW s \in Sockets, SocketCloses(s)
       PROVE  ChannelTypeOK'
  BY <1>11 DEF SocketCloses, SocketState
<1>12. CASE UNCHANGED channelVars
  BY <1>12 DEF channelVars
<1> QED
  BY <1>1, <1>2, <1>3, <1>4, <1>5, <1>6, <1>7, <1>8, <1>9, <1>10, <1>11, <1>12
     DEF ChannelNext, ChannelQuiet

\* The channel's variables always have their types.
THEOREM ChannelTypeCorrect == ChannelSpec => []ChannelTypeOK
<1>1. ChannelInit => ChannelTypeOK
  BY TypeInit
<1>2. ChannelTypeOK /\ [ChannelNext]_channelVars => ChannelTypeOK'
  BY TypeStep
<1> QED BY <1>1, <1>2, PTL DEF ChannelSpec

---------------------------------------------------------------------------
(* The inductive invariant *)

\* The invariant holds when the edge starts: nobody is connected.
LEMMA InvInit == ChannelInit => ChannelInv
<1> SUFFICES ASSUME ChannelInit PROVE ChannelInv
  OBVIOUS
<1>1. ChannelTypeOK
  BY TypeInit
<1>2. Connected = {}
  BY DEF ChannelInit, Connected
<1>3. \A s \in Sockets : sock[s].owner = None /\ sock[s].st = "free"
  BY DEF ChannelInit
<1> QED
  BY <1>1, <1>2, <1>3
     DEF ChannelInv, OwnersGreeted, OwnerIsCurrent, SitesPartitioned,
         AttestedOnThisChannel

\* A step that adds no session: none changes, an ended one leaves its socket
\* unwritable, and no socket changes owner, is greeted no longer, or becomes
\* writable unless it was free.
LEMMA NoNewSession ==
  ASSUME ChannelInv, ChannelTypeOK',
         \A a \in Agents : sessions'[a] \in {sessions[a], None},
         \A a \in Connected :
           sessions'[a] = None => sock'[sessions[a].sock].st \notin {"open", "lost"},
         \A s \in Sockets :
           /\ sock'[s].owner = sock[s].owner
           /\ sock[s].greeted => sock'[s].greeted
           /\ sock'[s].st = "free" => sock[s].st = "free"
           /\ Writable(s)' => Writable(s) \/ sock[s].st = "free",
         \A s \in Sockets : enforced[s] \subseteq enforced'[s]
  PROVE  ChannelInv'
<1> USE DEF ChannelInv
<1>1. \A a \in Connected' : a \in Connected /\ a \in Agents /\ sessions'[a] = sessions[a]
  BY DEF Connected
<1>2. \A a \in Connected : a \in Agents /\ sessions[a].sock \in Sockets
  BY DEF Connected, ChannelTypeOK, Session
<1>3. OwnersGreeted'
  BY DEF OwnersGreeted
<1>4. OwnerIsCurrent'
  <2>1. ASSUME NEW s \in Sockets, Writable(s)', sock'[s].owner # None
        PROVE  sock'[s].owner \in Connected' /\ sessions'[sock'[s].owner].sock = s
    <3>1. Writable(s) /\ sock'[s].owner = sock[s].owner
      BY <2>1 DEF OwnersGreeted
    <3>2. sock[s].owner \in Connected /\ sessions[sock[s].owner].sock = s
      BY <2>1, <3>1 DEF OwnerIsCurrent
    <3>3. sessions'[sock[s].owner] # None
      BY <2>1, <3>2 DEF Writable
    <3> QED BY <1>2, <3>1, <3>2, <3>3 DEF Connected
  <2>2. ASSUME NEW a \in Connected'
        PROVE  sock'[sessions'[a].sock].owner = a
    BY <1>1, <1>2, <2>2 DEF OwnerIsCurrent
  <2> QED BY <2>1, <2>2 DEF OwnerIsCurrent
<1>5. SitesPartitioned'
  BY <1>1 DEF SitesPartitioned
<1>6. AttestedOnThisChannel'
  BY <1>1, <1>2 DEF AttestedOnThisChannel
<1> QED BY <1>3, <1>4, <1>5, <1>6

\* An admitted hello: the binding was compared with every other session, and
\* the only session it overwrites is the one whose socket it destroys.
LEMMA HelloAcceptedStep ==
  ASSUME ChannelInv, ChannelTypeOK', NEW s \in Sockets, HelloAccepted(s)
  PROVE  ChannelInv'
<1> DEFINE a == Lookup(sock[s].token)
           new == NewSession(a, s)
<1> USE DEF ChannelInv
<1>1. a \in Agents /\ HelloOk(a, s)
  BY LookupFinds DEF HelloAccepted, Admitted
<1>2. /\ sock[s].owner = None
      /\ \A b \in Connected : sessions[b].sock # s
      /\ Others(a, s) = Connected \ {a}
  BY PendingIsFresh DEF HelloAccepted
<1>3. new # None
  BY NewSessionType, ChannelAssumption DEF HelloAccepted, ChannelAssumption
<1>4. /\ new.sock = s /\ new.sites = BoundSites(a) /\ new.attested = {}
  BY DEF NewSession
<1>5. sessions' = [sessions EXCEPT ![a] = new]
  BY DEF HelloAccepted
<1>6. \A b \in Agents : sessions'[b] = IF b = a THEN new ELSE sessions[b]
  BY <1>1, <1>5 DEF ChannelTypeOK
<1>7. Connected' = Connected \cup {a}
  BY <1>1, <1>3, <1>6 DEF Connected
<1>8. \A x \in Sockets :
        /\ sock'[x].owner = IF x = s THEN a ELSE sock[x].owner
        /\ sock'[x].greeted = IF x = s THEN TRUE ELSE sock[x].greeted
        /\ sock'[x].st = IF x \in Displaced(a, s) THEN "destroyed" ELSE sock[x].st
  <2>1. s \notin Displaced(a, s)
    BY DEF Displaced
  <2>2. \A x \in Sockets :
          sock'[x] = IF x = s THEN [sock[s] EXCEPT !.greeted = TRUE, !.owner = a]
                     ELSE IF x \in Displaced(a, s) THEN [sock[x] EXCEPT !.st = "destroyed"]
                     ELSE sock[x]
    BY DEF HelloAccepted
  <2>3. \A x \in Sockets : sock[x] \in SocketState
    BY DEF ChannelTypeOK
  <2> HIDE DEF a
  <2> QED BY <2>1, <2>2, <2>3 DEF SocketState
<1>9. sock[s].st \in {"open", "lost"}
  BY DEF HelloAccepted, HelloPending, Writable
<1>10. Displaced(a, s) = IF a \in Connected THEN {sessions[a].sock} ELSE {}
  BY <1>2 DEF Displaced
<1>11. \A b \in Connected : sessions[b].sock \in Sockets /\ sock[sessions[b].sock].owner = b
  BY DEF Connected, OwnerIsCurrent, ChannelTypeOK, Session
<1> HIDE DEF a, new
<1>12. OwnersGreeted'
  BY <1>8, <1>9, <1>10 DEF OwnersGreeted
<1>13. OwnerIsCurrent'
  <2>1. ASSUME NEW x \in Sockets, Writable(x)', sock'[x].owner # None
        PROVE  sock'[x].owner \in Connected' /\ sessions'[sock'[x].owner].sock = x
    <3>1. CASE x = s
      BY <1>1, <1>4, <1>6, <1>7, <1>8, <3>1
    <3>2. CASE x # s
      <4>1. x \notin Displaced(a, s) /\ Writable(x) /\ sock[x].owner # None
        BY <1>8, <2>1, <3>2 DEF Writable
      <4>2. sock[x].owner \in Connected /\ sessions[sock[x].owner].sock = x
        BY <4>1 DEF OwnerIsCurrent
      <4>3. sock[x].owner # a
        BY <1>10, <4>1, <4>2
      <4> QED BY <1>6, <1>7, <1>8, <3>2, <4>2, <4>3 DEF Connected
    <3> QED BY <3>1, <3>2
  <2>2. ASSUME NEW b \in Connected'
        PROVE  sock'[sessions'[b].sock].owner = b
    <3>1. CASE b = a
      BY <1>1, <1>4, <1>6, <1>8, <3>1
    <3>2. CASE b # a
      <4>1. b \in Connected /\ b \in Agents /\ sessions'[b] = sessions[b]
        BY <1>6, <1>7, <2>2, <3>2 DEF Connected
      <4>2. sessions[b].sock \in Sockets /\ sessions[b].sock # s
        BY <1>2, <1>11, <4>1
      <4> QED BY <1>8, <1>11, <4>1, <4>2
    <3> QED BY <3>1, <3>2
  <2> QED BY <2>1, <2>2 DEF OwnerIsCurrent
<1>14. SitesPartitioned'
  <2>1. \A b \in Connected \ {a} :
          /\ BoundSites(a) # {} /\ sessions[b].sites # {}
          /\ BoundSites(a) \cap sessions[b].sites = {}
    BY <1>1, <1>2 DEF HelloOk, Overlapping
  <2> SUFFICES ASSUME NEW b \in Connected', NEW c \in Connected', b # c
               PROVE  /\ sessions'[b].sites # {}
                      /\ sessions'[b].sites \cap sessions'[c].sites = {}
    BY DEF SitesPartitioned
  <2>2. b \in Agents /\ c \in Agents
    BY DEF Connected
  <2>3. CASE b = a
    BY <1>4, <1>6, <1>7, <2>1, <2>2, <2>3
  <2>4. CASE c = a
    BY <1>4, <1>6, <1>7, <2>1, <2>2, <2>4
  <2>5. CASE b # a /\ c # a
    BY <1>6, <1>7, <2>2, <2>5 DEF SitesPartitioned
  <2> QED BY <2>3, <2>4, <2>5
<1>15. AttestedOnThisChannel'
  <2>1. enforced' = enforced
    BY DEF HelloAccepted
  <2> SUFFICES ASSUME NEW b \in Connected'
               PROVE  sessions'[b].attested \subseteq enforced'[sessions'[b].sock]
    BY DEF AttestedOnThisChannel
  <2>2. CASE b = a
    BY <1>1, <1>4, <1>6, <2>2
  <2>3. CASE b # a
    BY <1>6, <1>7, <2>1, <2>3 DEF AttestedOnThisChannel, Connected
  <2> QED BY <2>2, <2>3
<1> QED BY <1>12, <1>13, <1>14, <1>15

\* An acknowledgement reaches the session its own socket opened, and only for
\* a document the agent activated on that socket.
LEMMA BundleAckStep ==
  ASSUME ChannelInv, ChannelTypeOK', NEW s \in Sockets, NEW d \in Digests,
         BundleAck(s, d)
  PROVE  ChannelInv'
<1> DEFINE a == sock[s].owner
<1> USE DEF ChannelInv
<1>1. a \in Connected /\ a \in Agents /\ sessions[a] \in Session
  BY DEF BundleAck, Connected, ChannelTypeOK
<1>2. sessions[a].sock = s
  BY <1>1, ChannelAssumption
     DEF BundleAck, Writable, OwnerIsCurrent, ChannelAssumption
<1>3. /\ sessions' = [sessions EXCEPT ![a].attested = @ \cup {d}]
      /\ UNCHANGED <<sock, enforced>>
      /\ d \in enforced[s]
  BY DEF BundleAck
<1> HIDE DEF a
<1>4. \A b \in Agents : b # a => sessions'[b] = sessions[b]
  BY <1>3
<1>5. /\ sessions'[a] \in Session
      /\ sessions'[a].sock = s
      /\ sessions'[a].sites = sessions[a].sites
      /\ sessions'[a].attested = sessions[a].attested \cup {d}
  BY <1>1, <1>2, <1>3 DEF ChannelTypeOK, Session
<1>6. Connected' = Connected
  BY <1>1, <1>4, <1>5, ChannelAssumption DEF Connected, ChannelAssumption
<1>7. OwnersGreeted'
  BY <1>3 DEF OwnersGreeted
<1>8. \A b \in Connected :
        /\ sessions'[b].sock = sessions[b].sock
        /\ sessions'[b].sites = sessions[b].sites
  BY <1>2, <1>4, <1>5 DEF Connected
<1>9. OwnerIsCurrent'
  BY <1>3, <1>6, <1>8 DEF OwnerIsCurrent, Writable
<1>10. SitesPartitioned'
  BY <1>6, <1>8 DEF SitesPartitioned
<1>11. AttestedOnThisChannel'
  <2>1. \A b \in Connected : b \in Agents
    BY DEF Connected
  <2> QED BY <1>2, <1>3, <1>4, <1>5, <1>6, <2>1 DEF AttestedOnThisChannel
<1> QED BY <1>7, <1>9, <1>10, <1>11

\* The close of a socket ends the session it carries, and no other.
LEMMA SocketClosesStep ==
  ASSUME ChannelInv, ChannelTypeOK', NEW s \in Sockets, SocketCloses(s)
  PROVE  ChannelInv'
<1> USE DEF ChannelInv
<1>1. \A x \in Sockets : sock'[x] = IF x = s THEN [sock[s] EXCEPT !.st = "closed"] ELSE sock[x]
  BY DEF SocketCloses, ChannelTypeOK
<1>2. \A x \in Sockets : sock[x] \in SocketState
  BY DEF ChannelTypeOK
<1>3. \A x \in Sockets :
        /\ sock'[x].owner = sock[x].owner
        /\ sock'[x].greeted = sock[x].greeted
        /\ sock'[x].st = IF x = s THEN "closed" ELSE sock[x].st
  BY <1>1, <1>2 DEF SocketState
<1>4. \A a \in Agents :
        /\ sessions'[a] \in {sessions[a], None}
        /\ sessions'[a] # sessions[a] => EndsSession(s) /\ a = sock[s].owner
  BY DEF SocketCloses, ChannelTypeOK
<1>5. \A a \in Connected :
        sessions'[a] = None => sock'[sessions[a].sock].st \notin {"open", "lost"}
  BY <1>3, <1>4 DEF Connected, EndsSession
<1>6. \A x \in Sockets :
        /\ sock'[x].st = "free" => sock[x].st = "free"
        /\ Writable(x)' => Writable(x) \/ sock[x].st = "free"
  BY <1>3 DEF Writable
<1> QED BY <1>3, <1>4, <1>5, <1>6, NoNewSession DEF SocketCloses

\* A hello whose bundles cannot be written: its own session and the one it
\* replaced are both gone, and so are their sockets.
LEMMA HelloOfferFailsStep ==
  ASSUME ChannelInv, ChannelTypeOK', NEW s \in Sockets, HelloOfferFails(s)
  PROVE  ChannelInv'
<1> DEFINE a == Lookup(sock[s].token)
<1> USE DEF ChannelInv
<1>1. a \in Agents
  BY LookupFinds DEF HelloOfferFails, Admitted
<1>2. \A b \in Connected : sessions[b].sock # s
  BY PendingIsFresh DEF HelloOfferFails
<1>3. \A b \in Agents : sessions'[b] = IF b = a THEN None ELSE sessions[b]
  BY DEF HelloOfferFails, ChannelTypeOK
<1>4. \A x \in Sockets :
        /\ sock'[x].owner = sock[x].owner
        /\ sock[x].greeted => sock'[x].greeted
        /\ sock'[x].st = IF x = s \/ x \in Displaced(a, s) THEN "destroyed"
                         ELSE sock[x].st
  <2>1. \A x \in Sockets :
          sock'[x] = IF x = s THEN [sock[s] EXCEPT !.greeted = TRUE, !.st = "destroyed"]
                     ELSE IF x \in Displaced(a, s) THEN [sock[x] EXCEPT !.st = "destroyed"]
                     ELSE sock[x]
    BY DEF HelloOfferFails
  <2>2. \A x \in Sockets : sock[x] \in SocketState
    BY DEF ChannelTypeOK
  <2> HIDE DEF a
  <2>3. ASSUME NEW x \in Sockets
        PROVE  /\ sock'[x].owner = sock[x].owner
               /\ sock[x].greeted => sock'[x].greeted
               /\ sock'[x].st = IF x = s \/ x \in Displaced(a, s) THEN "destroyed"
                                ELSE sock[x].st
    <3>1. CASE x = s
      BY <2>1, <2>2, <3>1 DEF SocketState
    <3>2. CASE x # s
      BY <2>1, <2>2, <3>2 DEF SocketState
    <3> QED BY <3>1, <3>2
  <2> QED BY <2>3
<1>5. \A b \in Connected :
        sessions'[b] = None => sock'[sessions[b].sock].st \notin {"open", "lost"}
  <2> SUFFICES ASSUME NEW b \in Connected, sessions'[b] = None
               PROVE  sock'[sessions[b].sock].st = "destroyed"
    OBVIOUS
  <2>1. b \in Agents /\ sessions[b] # None /\ sessions[b].sock \in Sockets
    BY DEF Connected, ChannelTypeOK, Session
  <2>2. b = a
    BY <1>3, <2>1
  <2>3. sessions[b].sock \in Displaced(a, s)
    BY <1>2, <2>2 DEF Displaced
  <2> QED BY <1>4, <2>1, <2>3
<1>6. \A x \in Sockets :
        /\ sock'[x].st = "free" => sock[x].st = "free"
        /\ Writable(x)' => Writable(x) \/ sock[x].st = "free"
  BY <1>4 DEF Writable
<1>7. \A b \in Agents : sessions'[b] \in {sessions[b], None}
  BY <1>3
<1> QED BY <1>4, <1>5, <1>6, <1>7, NoNewSession DEF HelloOfferFails

\* The steps that change one socket's state, keeping its owner, and no session.
LEMMA SocketStep ==
  ASSUME ChannelInv, ChannelTypeOK', NEW s \in Sockets,
         UNCHANGED <<sessions, enforced>>,
         \A x \in Sockets : x # s => sock'[x] = sock[x],
         sock'[s].owner = sock[s].owner,
         sock[s].greeted => sock'[s].greeted,
         sock'[s].st # "free",
         Writable(s)' => Writable(s) \/ sock[s].st = "free"
  PROVE  ChannelInv'
<1>1. \A x \in Sockets :
        /\ sock'[x].owner = sock[x].owner
        /\ sock[x].greeted => sock'[x].greeted
        /\ sock'[x].st = "free" => sock[x].st = "free"
        /\ Writable(x)' => Writable(x) \/ sock[x].st = "free"
  BY DEF Writable
<1>2. \A a \in Connected : sessions'[a] # None
  BY DEF Connected
<1> QED BY <1>1, <1>2, NoNewSession

\* Every handler of the channel keeps the invariant.
LEMMA InvStep == ChannelInv /\ [ChannelNext]_channelVars => ChannelInv'
<1> SUFFICES ASSUME ChannelInv, [ChannelNext]_channelVars PROVE ChannelInv'
  OBVIOUS
<1>t. ChannelTypeOK /\ ChannelTypeOK'
  BY TypeStep DEF ChannelInv
<1>u. \A s \in Sockets : sock[s] \in SocketState
  BY <1>t DEF ChannelTypeOK
<1>v. ASSUME UNCHANGED <<sock, sessions, enforced>> PROVE ChannelInv'
  BY <1>t, <1>v
     DEF ChannelInv, OwnersGreeted, OwnerIsCurrent, SitesPartitioned,
         AttestedOnThisChannel, Connected, Writable
<1>1. CASE FileFlips
  BY <1>1, <1>v DEF FileFlips
<1>2. ASSUME NEW s \in Sockets, NEW token \in Tokens, Dial(s, token)
      PROVE  ChannelInv'
  BY <1>2, <1>t, <1>u, SocketStep DEF Dial, SocketState, ChannelTypeOK
<1>3. ASSUME NEW s \in Sockets, HelloDenied(s)
      PROVE  ChannelInv'
  BY <1>3, <1>t, <1>u, SocketStep DEF HelloDenied, SocketState, ChannelTypeOK, Writable
<1>4. ASSUME NEW s \in Sockets, HelloAccepted(s)
      PROVE  ChannelInv'
  BY <1>4, <1>t, HelloAcceptedStep
<1>5. ASSUME NEW s \in Sockets, HelloOfferFails(s)
      PROVE  ChannelInv'
  BY <1>5, <1>t, HelloOfferFailsStep
<1>6. ASSUME NEW s \in Sockets, ProtocolViolation(s)
      PROVE  ChannelInv'
  BY <1>6, <1>t, <1>u, SocketStep
     DEF ProtocolViolation, SocketState, ChannelTypeOK, Writable
<1>7. ASSUME NEW s \in Sockets, NEW d \in Digests, Activate(s, d)
      PROVE  ChannelInv'
  <2>1. \A x \in Sockets : enforced[x] \subseteq enforced'[x]
    BY <1>7, <1>t DEF Activate, ChannelTypeOK
  <2> QED BY <1>7, <1>t, <2>1, NoNewSession DEF Activate, Writable, Connected
<1>8. ASSUME NEW s \in Sockets, NEW d \in Digests, BundleAck(s, d)
      PROVE  ChannelInv'
  BY <1>8, <1>t, BundleAckStep
<1>9. ASSUME NEW a \in Agents, NEW rec \in Record \cup {None}, EditCredential(a, rec)
      PROVE  ChannelInv'
  BY <1>9, <1>v DEF EditCredential
<1>10. ASSUME NEW s \in Sockets, AgentLost(s)
       PROVE  ChannelInv'
  BY <1>10, <1>t, <1>u, SocketStep DEF AgentLost, SocketState, ChannelTypeOK, Writable
<1>11. ASSUME NEW s \in Sockets, SocketCloses(s)
       PROVE  ChannelInv'
  BY <1>11, <1>t, SocketClosesStep
<1>12. CASE UNCHANGED channelVars
  BY <1>12, <1>v DEF channelVars
<1> QED
  BY <1>1, <1>2, <1>3, <1>4, <1>5, <1>6, <1>7, <1>8, <1>9, <1>10, <1>11, <1>12
     DEF ChannelNext, ChannelQuiet

\* The inductive invariant holds however hellos, acknowledgements, credential
\* edits and closes are interleaved.
THEOREM ChannelInvariant == ChannelSpec => []ChannelInv
<1>1. ChannelInit => ChannelInv
  BY InvInit
<1>2. ChannelInv /\ [ChannelNext]_channelVars => ChannelInv'
  BY InvStep
<1> QED BY <1>1, <1>2, PTL DEF ChannelSpec

---------------------------------------------------------------------------
(* What follows for the code *)

\* acceptAgentHello keeps every site of the catalog with one connected tenant
\* at most, through any order of hellos, reconnects, closes and record edits.
THEOREM SitesStayPartitioned == ChannelSpec => []SitesPartitioned
<1>1. ChannelInv => SitesPartitioned
  BY DEF ChannelInv
<1> QED BY <1>1, ChannelInvariant, PTL

\* The frame handlers may act on sessions[agentId]: it is the session of the
\* very socket the frame came from.
THEOREM OwnersStayCurrent == ChannelSpec => []OwnerIsCurrent
<1>1. ChannelInv => OwnerIsCurrent
  BY DEF ChannelInv
<1> QED BY <1>1, ChannelInvariant, PTL

\* An attestation is the acknowledgement of this connection's agent.
THEOREM AttestationsAreFresh == ChannelSpec => []AttestedOnThisChannel
<1>1. ChannelInv => AttestedOnThisChannel
  BY DEF ChannelInv
<1> QED BY <1>1, ChannelInvariant, PTL

\* The handlers that remove a session are the close of its own socket, and a
\* hello whose offer cannot be written, which destroys the socket it replaces.
LEMMA SessionEndStep ==
  ASSUME ChannelInv, ChannelNext, NEW a \in Connected, sessions'[a] = None
  PROVE  sock'[sessions[a].sock].st \in {"destroyed", "closed"}
<1>t. /\ ChannelTypeOK
      /\ a \in Agents /\ sessions[a] # None
      /\ sessions[a].sock \in Sockets
  BY DEF ChannelInv, ChannelTypeOK, Connected, Session
<1>1. ASSUME NEW s \in Sockets, HelloAccepted(s) PROVE FALSE
  <2> DEFINE b == Lookup(sock[s].token)
  <2>1. NewSession(b, s) # None
    BY <1>1, <1>t, NewSessionType, ChannelAssumption
       DEF HelloAccepted, ChannelAssumption
  <2>2. sessions' = [sessions EXCEPT ![b] = NewSession(b, s)]
    BY <1>1 DEF HelloAccepted
  <2> HIDE DEF b
  <2> QED BY <1>t, <2>1, <2>2 DEF ChannelTypeOK
<1>2. ASSUME NEW s \in Sockets, HelloOfferFails(s)
      PROVE  sock'[sessions[a].sock].st = "destroyed"
  <2> DEFINE b == Lookup(sock[s].token)
  <2>1. sessions' = [sessions EXCEPT ![b] = None]
    BY <1>2 DEF HelloOfferFails
  <2>2. a = b
    BY <1>t, <2>1 DEF ChannelTypeOK
  <2>3. sessions[a].sock \in Displaced(b, s)
    BY <1>2, <2>2, PendingIsFresh DEF ChannelInv, HelloOfferFails, Displaced
  <2>4. sessions[a].sock # s
    BY <2>3 DEF Displaced
  <2>5. sock'[sessions[a].sock] = [sock[sessions[a].sock] EXCEPT !.st = "destroyed"]
    BY <1>2, <1>t, <2>3, <2>4 DEF HelloOfferFails
  <2>6. sock[sessions[a].sock] \in SocketState
    BY <1>t DEF ChannelTypeOK
  <2> QED BY <2>5, <2>6 DEF SocketState
<1>3. ASSUME NEW s \in Sockets, NEW d \in Digests, BundleAck(s, d) PROVE FALSE
  <2> DEFINE b == sock[s].owner
  <2>1. b \in Agents /\ sessions[b] \in Session
    BY <1>3, <1>t DEF BundleAck, Connected, ChannelTypeOK
  <2>2. sessions' = [sessions EXCEPT ![b].attested = @ \cup {d}]
    BY <1>3 DEF BundleAck
  <2> HIDE DEF b
  <2>3. sessions'[b] \in Session
    BY <2>1, <2>2, <1>t DEF ChannelTypeOK, Session
  <2> QED BY <1>t, <2>2, <2>3, ChannelAssumption DEF ChannelTypeOK, ChannelAssumption
<1>4. ASSUME NEW s \in Sockets, SocketCloses(s)
      PROVE  sock'[sessions[a].sock].st = "closed"
  <2>1. EndsSession(s) /\ a = sock[s].owner
    BY <1>4, <1>t DEF SocketCloses, ChannelTypeOK
  <2>2. sessions[a].sock = s
    BY <2>1 DEF EndsSession
  <2> QED BY <1>4, <1>t, <2>2 DEF SocketCloses, ChannelTypeOK, SocketState
<1>5. ASSUME sessions' = sessions PROVE FALSE
  BY <1>5, <1>t
<1> QED
  BY <1>1, <1>2, <1>3, <1>4, <1>5
     DEF ChannelNext, ChannelQuiet, FileFlips, Dial, HelloDenied,
         ProtocolViolation, Activate, EditCredential, AgentLost

\* The late close of a replaced socket never ends the session that replaced it.
THEOREM SessionsEndWithTheirSocket == ChannelSpec => SessionEndsWithItsSocket
<1>1. ChannelInv /\ [ChannelNext]_channelVars =>
        [\A a \in Agents :
           a \in Connected /\ sessions'[a] = None
             => sock'[sessions[a].sock].st \in {"destroyed", "closed"}]_channelVars
  BY SessionEndStep
<1> QED BY <1>1, ChannelInvariant, PTL DEF ChannelSpec, SessionEndsWithItsSocket

---------------------------------------------------------------------------
(* The edge: its invariant *)

\* A request past the checks: its socket belongs to the tenant it was routed
\* to, the client is granted that tenant, and a governed call's policy is
\* active on that socket.
Routed(q) ==
  /\ q.client \in Clients /\ q.tool \in Tools
  /\ q.agent \in Agents /\ q.sock \in Sockets
  /\ sock[q.sock].owner = q.agent
  /\ ByGrant => q.agent \in TenantGrants[q.client]
  /\ Digests # {} /\ q.tool \in GovernedTools => PolicyOf[q.client] \in enforced[q.sock]

Past(r) == req[r].st \in {"checking", "sent", "done"}

\* Every request is routed or has no tenant, and only a finished one has an
\* outcome.
RequestsRouted ==
  \A r \in Requests :
    /\ Past(r) => Routed(req[r])
    /\ ~Past(r) => req[r].agent = None
    /\ req[r].st = "done" <=> req[r].outcome # "none"

\* A request has a frame only on its own socket and only once written; the
\* frame is in flight before the call executes and in service after, and the
\* call executes on its own tenant.
FramesInOrder ==
  /\ \A s \in Sockets, r \in Requests :
       /\ <<s, r>> \in toAgent =>
            req[r].st \in {"sent", "done"} /\ req[r].sock = s /\ ranOn[r] = {}
       /\ <<s, r>> \in serving =>
            req[r].st \in {"sent", "done"} /\ req[r].sock = s
            /\ ranOn[r] = {req[r].agent}
  /\ \A r \in Requests :
       /\ ranOn[r] \subseteq {req[r].agent}
       /\ ranOn[r] # {} => req[r].st \in {"sent", "done"}

\* No live record is one an offboarding destroyed.
RetiredAreGone ==
  \A a \in Agents : creds[a] # None => <<a, creds[a].token>> \notin retired

RelayInv ==
  /\ RelayTypeOK
  /\ ChannelInv
  /\ RequestsRouted
  /\ FramesInOrder
  /\ AnsweredByOwner
  /\ OneCallPerTicket
  /\ RetiredAreGone
  /\ RetiredTokenIsCut

---------------------------------------------------------------------------
(* The channel under the edge *)

\* A socket keeps the owner its hello gave it, and its agent forgets no
\* document it activated on it.
ChannelGrows ==
  \A s \in Sockets :
    /\ sock[s].owner # None => sock'[s].owner = sock[s].owner
    /\ enforced[s] \subseteq enforced'[s]

\* Every handler of the channel keeps owners and activated documents.
LEMMA ChannelNextGrows ==
  ASSUME ChannelInv, [ChannelNext]_channelVars
  PROVE  ChannelGrows
<1>t. /\ sock \in [Sockets -> SocketState]
      /\ \A x \in Sockets : sock[x] \in SocketState
      /\ enforced \in [Sockets -> SUBSET Digests]
  BY DEF ChannelInv, ChannelTypeOK
<1>u. ASSUME UNCHANGED <<sock, enforced>> PROVE ChannelGrows
  BY <1>u DEF ChannelGrows
<1>1. ASSUME NEW s \in Sockets, HelloAccepted(s) PROVE ChannelGrows
  <2> DEFINE a == Lookup(sock[s].token)
  <2>1. sock[s].owner = None
    BY <1>1, PendingIsFresh DEF ChannelInv, HelloAccepted
  <2>2. \A x \in Sockets :
          sock'[x] = IF x = s THEN [sock[s] EXCEPT !.greeted = TRUE, !.owner = a]
                     ELSE IF x \in Displaced(a, s) THEN [sock[x] EXCEPT !.st = "destroyed"]
                     ELSE sock[x]
    BY <1>1 DEF HelloAccepted
  <2> HIDE DEF a
  <2>3. \A x \in Sockets \ {s} : sock'[x].owner = sock[x].owner
    BY <1>t, <2>2 DEF SocketState
  <2> QED BY <1>1, <2>1, <2>3 DEF ChannelGrows, HelloAccepted
<1>2. ASSUME NEW s \in Sockets, HelloOfferFails(s) PROVE ChannelGrows
  <2> DEFINE a == Lookup(sock[s].token)
  <2>1. \A x \in Sockets :
          sock'[x] = IF x = s THEN [sock[s] EXCEPT !.greeted = TRUE, !.st = "destroyed"]
                     ELSE IF x \in Displaced(a, s) THEN [sock[x] EXCEPT !.st = "destroyed"]
                     ELSE sock[x]
    BY <1>2 DEF HelloOfferFails
  <2> HIDE DEF a
  <2>2. ASSUME NEW x \in Sockets PROVE sock'[x].owner = sock[x].owner
    <3>1. sock[x] \in SocketState /\ sock[s] \in SocketState
      BY <1>t, <1>2
    <3> QED BY <2>1, <3>1 DEF SocketState
  <2> QED BY <1>2, <2>2 DEF ChannelGrows, HelloOfferFails
<1>3. ASSUME NEW s \in Sockets,
             \/ \E token \in Tokens : Dial(s, token)
             \/ HelloDenied(s) \/ ProtocolViolation(s) \/ AgentLost(s) \/ SocketCloses(s)
      PROVE  ChannelGrows
  BY <1>3, <1>t
     DEF ChannelGrows, Dial, HelloDenied, ProtocolViolation, AgentLost, SocketCloses,
         SocketState
<1>4. ASSUME NEW s \in Sockets, NEW d \in Digests, Activate(s, d) \/ BundleAck(s, d)
      PROVE  ChannelGrows
  BY <1>4, <1>t DEF ChannelGrows, Activate, BundleAck
<1> QED
  BY <1>u, <1>1, <1>2, <1>3, <1>4
     DEF ChannelNext, ChannelQuiet, FileFlips, EditCredential, channelVars

\* A tunnel dropped for a changed bind: one socket is destroyed.
LEMMA ReboundChannel ==
  ASSUME RelayInv, NEW r, NEW c, NEW tool, NEW hint, NEW target,
         Rebound(r, c, tool, hint, target)
  PROVE  ChannelInv' /\ ChannelGrows
<1> DEFINE a == Route(c, hint, target)
<1>1. a # None /\ a \in Connected
  BY DEF Rebound, Entitled, Route
<1>2. a \in Agents /\ sessions[a].sock \in Sockets
  BY <1>1 DEF Connected, RelayInv, RelayTypeOK, ChannelTypeOK, Session
<1>3. sock' = [sock EXCEPT ![sessions[a].sock].st = "destroyed"]
  BY DEF Rebound
<1>4. UNCHANGED <<creds, readable, edits, sessions, enforced>>
  BY DEF Rebound
<1> HIDE DEF a
<1>5. ChannelInv /\ ChannelTypeOK /\ \A x \in Sockets : sock[x] \in SocketState
  BY DEF RelayInv, ChannelInv, ChannelTypeOK
<1>6. ChannelTypeOK'
  BY <1>2, <1>3, <1>4, <1>5 DEF ChannelTypeOK, SocketState
<1>7. ChannelInv'
  BY <1>2, <1>3, <1>4, <1>5, <1>6, SocketStep DEF ChannelTypeOK, SocketState, Writable
<1>8. ChannelGrows
  BY <1>2, <1>3, <1>4, <1>5 DEF ChannelGrows, ChannelTypeOK, SocketState
<1> QED BY <1>7, <1>8

\* An offboarding: the tenant's session ends together with its socket.
LEMMA OffboardChannel ==
  ASSUME RelayInv, NEW c \in Clients, OffboardDestroys(c)
  PROVE  ChannelInv' /\ ChannelGrows
<1> DEFINE a == TenantOf(c)
<1>1. /\ creds' = [creds EXCEPT ![a] = None]
      /\ sessions' = [sessions EXCEPT ![a] = None]
      /\ sock' = [s \in Sockets |->
            IF s \in CutSockets(a) THEN [sock[s] EXCEPT !.st = "destroyed"] ELSE sock[s]]
      /\ UNCHANGED <<readable, edits, enforced>>
  BY DEF OffboardDestroys
<1> HIDE DEF a
<1>2. ChannelInv /\ ChannelTypeOK /\ \A x \in Sockets : sock[x] \in SocketState
  BY DEF RelayInv, ChannelInv, ChannelTypeOK
<1>3. ChannelTypeOK'
  <2>1. creds' \in [Agents -> Record \cup {None}]
    BY <1>1, <1>2 DEF ChannelTypeOK
  <2>2. sessions' \in [Agents -> Session \cup {None}]
    BY <1>1, <1>2 DEF ChannelTypeOK
  <2>3. sock' \in [Sockets -> SocketState]
    BY <1>1, <1>2, SocketUpdates
  <2> QED BY <1>1, <1>2, <2>1, <2>2, <2>3 DEF ChannelTypeOK
<1>4. \A x \in Sockets :
        /\ sock'[x].owner = sock[x].owner
        /\ sock'[x].greeted = sock[x].greeted
        /\ sock'[x].st = IF x \in CutSockets(a) THEN "destroyed" ELSE sock[x].st
  BY <1>1, <1>2 DEF SocketState
<1>5. \A b \in Agents : sessions'[b] = IF b = a THEN None ELSE sessions[b]
  BY <1>1, <1>2 DEF ChannelTypeOK
<1>6. \A b \in Connected :
        sessions'[b] = None => sock'[sessions[b].sock].st \notin {"open", "lost"}
  <2> SUFFICES ASSUME NEW b \in Connected, sessions'[b] = None
               PROVE  sock'[sessions[b].sock].st = "destroyed"
    OBVIOUS
  <2>1. b \in Agents /\ sessions[b] # None /\ sessions[b].sock \in Sockets
    BY <1>2 DEF Connected, ChannelTypeOK, Session
  <2>2. b = a
    BY <1>5, <2>1
  <2>3. sessions[b].sock \in CutSockets(a)
    BY <2>2 DEF CutSockets
  <2> QED BY <1>4, <2>1, <2>3
<1>7. \A x \in Sockets :
        /\ sock'[x].st = "free" => sock[x].st = "free"
        /\ Writable(x)' => Writable(x) \/ sock[x].st = "free"
  BY <1>4 DEF Writable
<1>8. ChannelInv'
  BY <1>1, <1>2, <1>3, <1>4, <1>5, <1>6, <1>7, NoNewSession
<1>9. ChannelGrows
  BY <1>1, <1>4 DEF ChannelGrows
<1> QED BY <1>8, <1>9

---------------------------------------------------------------------------
(* Routing *)

\* A grant names a tenant of its own, with or without a hint.
LEMMA GrantedTenantIsGranted ==
  ASSUME NEW c, NEW hint, GrantedTenant(c, hint) # None
  PROVE  GrantedTenant(c, hint) \in TenantGrants[c]
<1>1. CASE hint # None
  BY <1>1 DEF GrantedTenant
<1>2. CASE hint = None
  <2>1. Cardinality(TenantGrants[c]) = 1
    BY <1>2 DEF GrantedTenant
  <2>2. TenantGrants[c] # {}
    BY <2>1, FS_EmptySet
  <2>3. GrantedTenant(c, hint) = CHOOSE a \in TenantGrants[c] : TRUE
    BY <1>2, <2>1 DEF GrantedTenant
  <2> QED BY <2>2, <2>3
<1> QED BY <1>1, <1>2

\* The session fanDown selects belongs to a tenant the client is granted, and
\* a governed call's policy is active on its socket.
LEMMA EntitledIsRouted ==
  ASSUME RelayInv, NEW c \in Clients, NEW tool \in Tools, NEW hint, NEW target,
         Entitled(c, tool, hint, target),
         NEW q, q.client = c, q.tool = tool,
         q.agent = Route(c, hint, target),
         q.sock = sessions[Route(c, hint, target)].sock
  PROVE  Routed(q)
<1> DEFINE a == Route(c, hint, target)
<1>1. a # None /\ a \in Connected
  BY DEF Entitled, Route
<1>2. a \in Agents /\ sessions[a] \in Session
  BY <1>1 DEF Connected, RelayInv, RelayTypeOK, ChannelTypeOK
<1>3. sessions[a].sock \in Sockets
  BY <1>2 DEF Session
<1>4. sock[sessions[a].sock].owner = a
  BY <1>1 DEF RelayInv, ChannelInv, OwnerIsCurrent
<1>5. ByGrant => a \in TenantGrants[c]
  <2>1. ByGrant => a = GrantedTenant(c, hint)
    BY <1>1 DEF Route
  <2> QED BY <1>1, <2>1, GrantedTenantIsGranted
<1>6. Digests # {} /\ tool \in GovernedTools => PolicyOf[c] \in sessions[a].attested
  BY DEF Entitled
<1>7. sessions[a].attested \subseteq enforced[sessions[a].sock]
  BY <1>1 DEF RelayInv, ChannelInv, AttestedOnThisChannel
<1>8. q.agent = a /\ q.sock = sessions[a].sock
  OBVIOUS
<1> HIDE DEF a
<1> QED BY <1>2, <1>3, <1>4, <1>5, <1>6, <1>7, <1>8 DEF Routed

---------------------------------------------------------------------------
(* The types *)

\* What the handlers write into a request leaves it one.
LEMMA RequestUpdates ==
  /\ Idle \in Request
  /\ \A c \in Clients \cup {None}, tool \in Tools \cup {None} : Refused(c, tool) \in Request
  /\ \A q \in Request : [q EXCEPT !.st = "sent"] \in Request
  /\ \A q \in Request, outcome \in {"ok", "failed", "unknown"} :
       [q EXCEPT !.st = "done", !.outcome = outcome] \in Request
<1>1. Idle \in Request
  BY DEF Request, Idle
<1>2. \A c \in Clients \cup {None}, tool \in Tools \cup {None} : Refused(c, tool) \in Request
  BY DEF Request, Idle, Refused
<1>3. \A q \in Request : [q EXCEPT !.st = "sent"] \in Request
  BY DEF Request
<1>4. \A q \in Request, outcome \in {"ok", "failed", "unknown"} :
        [q EXCEPT !.st = "done", !.outcome = outcome] \in Request
  BY DEF Request
<1> QED BY <1>1, <1>2, <1>3, <1>4

\* The record a request is suspended with.
LEMMA SelectionType ==
  ASSUME NEW c \in Clients, NEW tool \in Tools, NEW a \in Agents, NEW s \in Sockets,
         NEW ticket \in Tickets \cup {None}
  PROVE  [Idle EXCEPT !.st = "checking", !.client = c, !.tool = tool,
            !.agent = a, !.sock = s, !.ticket = ticket] \in Request
BY DEF Request, Idle

\* A ticket issued for a routed request is one.
LEMMA BoundType ==
  ASSUME NEW q, Routed(q)
  PROVE  /\ Bound(q) \in Ticket
         /\ [Bound(q) EXCEPT !.used = TRUE] \in Ticket
BY DEF Bound, Ticket, Routed

\* Approval, spending and the write keep the types of what they write.
LEMMA DispatchType ==
  ASSUME RelayTypeOK, NEW r \in Requests, NEW q \in Request, Routed(q), Dispatch(r, q)
  PROVE  /\ req' \in [Requests -> Request]
         /\ tickets' \in [Tickets -> Ticket \cup {None}]
         /\ toAgent' \subseteq Sockets \X Requests
<1> USE DEF RelayTypeOK
<1>1. q.client \in Clients /\ q.tool \in Tools /\ q.sock \in Sockets
  BY DEF Routed
<1>2. Refused(q.client, q.tool) \in Request
  BY <1>1, RequestUpdates
<1>3. CASE Challenge(r, q)
  <2>1. req' \in [Requests -> Request]
    BY <1>2, <1>3 DEF Challenge, Finish
  <2>2. tickets' \in [Tickets -> Ticket \cup {None}]
    <3>1. Bound(q) \in Ticket
      BY BoundType
    <3>2. PICK t \in Tickets : tickets' = [tickets EXCEPT ![t] = Bound(q)]
      BY <1>3, Zenon DEF Challenge
    <3> HIDE DEF RelayTypeOK
    <3>3. tickets \in [Tickets -> Ticket \cup {None}]
      BY DEF RelayTypeOK
    <3> QED BY ONLY <3>1, <3>2, <3>3
  <2> QED BY <1>3, <2>1, <2>2 DEF Challenge
<1>4. CASE RefuseTicket(r, q)
  BY <1>2, <1>4 DEF RefuseTicket, Finish
<1>5. CASE WriteFrame(r, q)
  <2>1. req' \in [Requests -> Request]
    BY <1>2, <1>5, RequestUpdates DEF WriteFrame, Finish
  <2>2. tickets' \in [Tickets -> Ticket \cup {None}]
    <3>1. CASE ~Gated(q)
      BY <1>5, <3>1 DEF WriteFrame, Spend
    <3>2. CASE Gated(q)
      <4>1. q.ticket \in Tickets /\ tickets[q.ticket] = Bound(q)
        BY <1>5, <3>2 DEF WriteFrame, Consumable, Issued
      <4>2. tickets' = [tickets EXCEPT ![q.ticket].used = TRUE]
        BY <1>5, <3>2 DEF WriteFrame, Spend
      <4>3. tickets' = [tickets EXCEPT ![q.ticket] = [Bound(q) EXCEPT !.used = TRUE]]
        BY <4>1, <4>2
      <4> QED BY <4>3, BoundType
    <3> QED BY <3>1, <3>2
  <2>3. toAgent' \subseteq Sockets \X Requests
    BY <1>1, <1>5 DEF WriteFrame, FramesAfterWrite
  <2> QED BY <2>1, <2>2, <2>3
<1> QED BY <1>3, <1>4, <1>5 DEF Dispatch

---------------------------------------------------------------------------
(* What a step may do to a request *)

\* Fails one of the checks, or its approval.
IsRefused(r) ==
  /\ req[r].st \in {"idle", "checking"}
  /\ \E c \in Clients \cup {None}, tool \in Tools \cup {None} : req'[r] = Refused(c, tool)

\* Is suspended with the session it selected.
IsSuspended(r) ==
  /\ req[r].st = "idle"
  /\ req'[r].st = "checking" /\ req'[r].outcome = "none"
  /\ Routed(req'[r])

\* Is settled by its tenant's answer, or given up.
IsDone(r) ==
  /\ req[r].st = "sent"
  /\ \E outcome \in {"ok", "failed", "unknown"} :
       /\ outcome # "unknown" => ranOn[r] = {req[r].agent}
       /\ req'[r] = [req[r] EXCEPT !.st = "done", !.outcome = outcome]

Moves(r) == req'[r] = req[r] \/ IsRefused(r) \/ IsSuspended(r) \/ IsDone(r)

\* A move neither puts a frame on the wire nor takes one from a call, and a
\* written call keeps its client, tenant, socket and ticket.
LEMMA MoveFacts ==
  ASSUME RelayInv, ChannelGrows, NEW r \in Requests, Moves(r)
  PROVE  /\ req'[r].st \in {"sent", "done"} <=> req[r].st \in {"sent", "done"}
         /\ req[r].st \in {"sent", "done"} =>
              /\ req'[r].client = req[r].client /\ req'[r].tool = req[r].tool
              /\ req'[r].agent = req[r].agent /\ req'[r].sock = req[r].sock
              /\ req'[r].ticket = req[r].ticket
         /\ req[r].st \notin {"sent", "done"} => ranOn[r] = {}
         /\ Past(r)' => Routed(req[r])' 
         /\ ~Past(r)' => req'[r].agent = None
         /\ req'[r].st = "done" <=> req'[r].outcome # "none"
         /\ req'[r].outcome \in {"ok", "failed"} => ranOn[r] = {req'[r].agent}
<1>t. req[r] \in Request /\ ranOn[r] \subseteq {req[r].agent}
  BY DEF RelayInv, RelayTypeOK, FramesInOrder
<1>i. /\ Past(r) => Routed(req[r])
      /\ ~Past(r) => req[r].agent = None
      /\ req[r].st = "done" <=> req[r].outcome # "none"
      /\ req[r].st \notin {"sent", "done"} => ranOn[r] = {}
      /\ req[r].outcome \in {"ok", "failed"} => ranOn[r] = {req[r].agent}
  BY DEF RelayInv, RequestsRouted, FramesInOrder, AnsweredByOwner
<1>g. ASSUME Past(r), req'[r].client = req[r].client, req'[r].tool = req[r].tool,
             req'[r].agent = req[r].agent, req'[r].sock = req[r].sock
      PROVE  Routed(req[r])'
  BY <1>g, <1>i, ChannelAssumption DEF Routed, ChannelGrows, ChannelAssumption
<1>1. CASE req'[r] = req[r]
  BY <1>i, <1>g, <1>1 DEF Past
<1>2. CASE IsRefused(r)
  BY <1>i, <1>2 DEF IsRefused, Refused, Idle, Past
<1>3. CASE IsSuspended(r)
  <2>1. Routed(req[r])'
    BY <1>3, ChannelAssumption DEF IsSuspended, Routed, ChannelGrows, ChannelAssumption
  <2> QED BY <1>i, <1>3, <2>1 DEF IsSuspended, Past
<1>4. CASE IsDone(r)
  <2> PICK outcome \in {"ok", "failed", "unknown"} :
         /\ outcome # "unknown" => ranOn[r] = {req[r].agent}
         /\ req'[r] = [req[r] EXCEPT !.st = "done", !.outcome = outcome]
    BY <1>4 DEF IsDone
  <2>1. /\ req'[r].client = req[r].client /\ req'[r].tool = req[r].tool
        /\ req'[r].agent = req[r].agent /\ req'[r].sock = req[r].sock
        /\ req'[r].ticket = req[r].ticket
        /\ req'[r].st = "done" /\ req'[r].outcome = outcome
    BY <1>t DEF Request
  <2>2. req[r].st = "sent"
    BY <1>4 DEF IsDone
  <2> QED BY <1>i, <1>g, <2>1, <2>2 DEF Past
<1> QED BY <1>1, <1>2, <1>3, <1>4 DEF Moves

\* A step that only moves requests, and takes frames away, keeps the invariants
\* about requests.  Tickets already issued may be spent by it.
LEMMA RequestsMove ==
  ASSUME RelayInv, ChannelGrows,
         \A r \in Requests : Moves(r),
         toAgent' \subseteq toAgent, serving' \subseteq serving, ranOn' = ranOn,
         tickets' \in [Tickets -> Ticket \cup {None}],
         \A t \in Issued : tickets'[t] \in {tickets[t], [tickets[t] EXCEPT !.used = TRUE]}
  PROVE  (RequestsRouted /\ FramesInOrder /\ AnsweredByOwner /\ OneCallPerTicket)'
<1>i. FramesInOrder /\ OneCallPerTicket
  BY DEF RelayInv
<1>1. RequestsRouted'
  BY MoveFacts DEF RequestsRouted
<1>2. FramesInOrder'
  <2>1. ASSUME NEW r \in Requests
        PROVE  /\ ranOn'[r] \subseteq {req'[r].agent}
               /\ ranOn'[r] # {} => req'[r].st \in {"sent", "done"}
    BY <1>i, MoveFacts DEF FramesInOrder
  <2>2. ASSUME NEW s \in Sockets, NEW r \in Requests, <<s, r>> \in toAgent'
        PROVE  req'[r].st \in {"sent", "done"} /\ req'[r].sock = s /\ ranOn'[r] = {}
    BY <1>i, <2>2, MoveFacts DEF FramesInOrder
  <2>3. ASSUME NEW s \in Sockets, NEW r \in Requests, <<s, r>> \in serving'
        PROVE  req'[r].st \in {"sent", "done"} /\ req'[r].sock = s
               /\ ranOn'[r] = {req'[r].agent}
    BY <1>i, <2>3, MoveFacts DEF FramesInOrder
  <2> QED BY <2>1, <2>2, <2>3 DEF FramesInOrder
<1>3. AnsweredByOwner'
  BY MoveFacts DEF AnsweredByOwner
<1>4. OneCallPerTicket'
  <2> DEFINE crossed == {r \in Requests : req[r].st \in {"sent", "done"}
                                            /\ req[r].tool \in GatedTools}
  <2>1. crossed' = crossed
    BY MoveFacts
  <2>2. \A r \in crossed : req'[r].ticket = req[r].ticket /\ Bound(req[r])' = Bound(req[r])
    BY MoveFacts DEF Bound
  <2>3. ASSUME NEW r \in crossed
        PROVE  /\ req[r].ticket \in Issued'
               /\ tickets'[req[r].ticket] = [Bound(req[r]) EXCEPT !.used = TRUE]
    <3> DEFINE t == req[r].ticket
    <3>1. t \in Issued /\ tickets[t] = [Bound(req[r]) EXCEPT !.used = TRUE]
      BY <1>i DEF OneCallPerTicket
    <3>2. tickets'[t] = [Bound(req[r]) EXCEPT !.used = TRUE]
      BY <3>1 DEF Bound
    <3>3. tickets'[t] # None
      <4>1. Routed(req[r])
        BY DEF RelayInv, RequestsRouted, Past
      <4> QED BY <3>2, <4>1, BoundType, RelayAssumption DEF RelayAssumption
    <3> QED BY <3>1, <3>2, <3>3 DEF Issued
  <2>4. \A r1, r2 \in crossed : r1 # r2 => req[r1].ticket # req[r2].ticket
    BY <1>i DEF OneCallPerTicket
  <2>5. \A r \in crossed' :
          /\ req'[r].ticket \in Issued'
          /\ tickets'[req'[r].ticket] = [Bound(req[r])' EXCEPT !.used = TRUE]
    BY <2>1, <2>2, <2>3
  <2>6. \A r1, r2 \in crossed' : r1 # r2 => req'[r1].ticket # req'[r2].ticket
    BY <2>1, <2>2, <2>4
  <2> QED BY <2>5, <2>6 DEF OneCallPerTicket
<1> QED BY <1>1, <1>2, <1>3, <1>4

---------------------------------------------------------------------------
(* The dispatch and the agent *)

RequestInv == RequestsRouted /\ FramesInOrder /\ AnsweredByOwner /\ OneCallPerTicket

\* A frame is written for a request that has none and never executed, and its
\* approval, unspent until then, is no other call's.
LEMMA FrameWritten ==
  ASSUME RelayInv, NEW r \in Requests, NEW q \in Request,
         req[r].st \in {"idle", "checking"},
         Routed(q), q.st = "checking", q.outcome = "none",
         WriteFrame(r, q), Writable(q.sock),
         UNCHANGED <<channelVars, serving, ranOn>>
  PROVE  RequestInv'
<1>i. RequestInv /\ RelayTypeOK
  BY DEF RelayInv, RequestInv
<1>c. UNCHANGED <<sock, enforced>>
  BY DEF channelVars
<1>w. /\ req' = [req EXCEPT ![r] = [q EXCEPT !.st = "sent"]]
      /\ toAgent' \subseteq toAgent \cup {<<q.sock, r>>}
      /\ Gated(q) => q.ticket # None /\ Consumable(q)
      /\ tickets' = IF Gated(q) THEN [tickets EXCEPT ![q.ticket].used = TRUE] ELSE tickets
  BY DEF WriteFrame, Finish, FramesAfterWrite, Spend
<1>1. /\ req'[r].st = "sent" /\ req'[r].outcome = "none"
      /\ req'[r].client = q.client /\ req'[r].tool = q.tool
      /\ req'[r].agent = q.agent /\ req'[r].sock = q.sock /\ req'[r].ticket = q.ticket
  BY <1>i, <1>w DEF RelayTypeOK, Request
<1>2. \A x \in Requests \ {r} : req'[x] = req[x]
  BY <1>i, <1>w DEF RelayTypeOK
<1>3. /\ ranOn[r] = {}
      /\ \A s \in Sockets : <<s, r>> \notin toAgent /\ <<s, r>> \notin serving
  BY <1>i DEF RequestInv, FramesInOrder
<1>4. RequestsRouted'
  <2>1. Routed(req[r])'
    BY <1>c, <1>1 DEF Routed
  <2>2. ASSUME NEW x \in Requests \ {r}
        PROVE  /\ Past(x)' => Routed(req[x])'
               /\ ~Past(x)' => req'[x].agent = None
               /\ req'[x].st = "done" <=> req'[x].outcome # "none"
    BY <1>i, <1>c, <1>2 DEF RequestInv, RequestsRouted, Past, Routed
  <2> QED BY <1>1, <2>1, <2>2 DEF RequestsRouted, Past
<1>5. FramesInOrder'
  <2>1. ASSUME NEW x \in Requests
        PROVE  /\ ranOn'[x] \subseteq {req'[x].agent}
               /\ ranOn'[x] # {} => req'[x].st \in {"sent", "done"}
    BY <1>i, <1>1, <1>2, <1>3 DEF RequestInv, FramesInOrder
  <2>2. ASSUME NEW s \in Sockets, NEW x \in Requests, <<s, x>> \in toAgent'
        PROVE  req'[x].st \in {"sent", "done"} /\ req'[x].sock = s /\ ranOn'[x] = {}
    <3>1. CASE x = r
      BY <1>w, <1>1, <1>3, <2>2, <3>1
    <3>2. CASE x # r
      BY <1>i, <1>w, <1>2, <2>2, <3>2 DEF RequestInv, FramesInOrder
    <3> QED BY <3>1, <3>2
  <2>3. ASSUME NEW s \in Sockets, NEW x \in Requests, <<s, x>> \in serving'
        PROVE  req'[x].st \in {"sent", "done"} /\ req'[x].sock = s
               /\ ranOn'[x] = {req'[x].agent}
    BY <1>i, <1>2, <1>3, <2>3 DEF RequestInv, FramesInOrder
  <2> QED BY <2>1, <2>2, <2>3 DEF FramesInOrder
<1>6. AnsweredByOwner'
  BY <1>i, <1>1, <1>2 DEF RequestInv, AnsweredByOwner
<1>7. OneCallPerTicket'
  <2> DEFINE crossed == {x \in Requests : req[x].st \in {"sent", "done"}
                                            /\ req[x].tool \in GatedTools}
             spent(x) == [Bound(req[x]) EXCEPT !.used = TRUE]
  <2>1. \A x \in crossed : req[x].ticket \in Issued /\ tickets[req[x].ticket] = spent(x)
    BY <1>i DEF RequestInv, OneCallPerTicket
  <2>2. \A x1, x2 \in crossed : x1 # x2 => req[x1].ticket # req[x2].ticket
    BY <1>i DEF RequestInv, OneCallPerTicket
  <2>3. \A x \in crossed' \ {r} :
          /\ x \in crossed /\ x \in Requests
          /\ req'[x].ticket = req[x].ticket /\ spent(x)' = spent(x)
    BY <1>2 DEF Bound
  <2>4. CASE ~Gated(q)
    <3>1. r \notin crossed'
      BY <1>1, <2>4 DEF Gated
    <3>2. tickets' = tickets /\ Issued' = Issued
      BY <1>w, <2>4 DEF Issued
    <3>3. \A x \in crossed' :
            req'[x].ticket \in Issued' /\ tickets'[req'[x].ticket] = spent(x)'
      BY <2>1, <2>3, <3>1, <3>2
    <3>4. \A x1, x2 \in crossed' : x1 # x2 => req'[x1].ticket # req'[x2].ticket
      <4>1. \A x \in crossed' : x \in crossed /\ req'[x].ticket = req[x].ticket
        BY <2>3, <3>1
      <4> HIDE DEF crossed
      <4> QED BY <2>2, <4>1
    <3> QED BY <3>3, <3>4 DEF OneCallPerTicket
  <2>5. CASE Gated(q)
    <3>1. /\ q.ticket \in Tickets /\ tickets[q.ticket] = Bound(q)
          /\ tickets' = [tickets EXCEPT ![q.ticket] = [Bound(q) EXCEPT !.used = TRUE]]
      BY <1>w, <2>5 DEF Consumable, Issued
    <3>2. tickets'[q.ticket] = [Bound(q) EXCEPT !.used = TRUE] /\ tickets'[q.ticket] # None
      BY <1>i, <3>1, BoundType, RelayAssumption DEF RelayTypeOK, RelayAssumption
    <3>3. \A t \in Tickets \ {q.ticket} : tickets'[t] = tickets[t]
      BY <1>i, <3>1 DEF RelayTypeOK
    <3>4. spent(r)' = [Bound(q) EXCEPT !.used = TRUE]
      BY <1>1 DEF Bound
    <3>5. \A x \in crossed : req[x].ticket # q.ticket
      <4>1. \A x \in crossed : spent(x).used = TRUE
        BY DEF Bound
      <4>2. Bound(q).used = FALSE
        BY DEF Bound
      <4> HIDE DEF crossed, spent
      <4> QED BY <2>1, <3>1, <4>1, <4>2
    <3>6. \A x \in crossed' :
            req'[x].ticket \in Issued' /\ tickets'[req'[x].ticket] = spent(x)'
      <4>1. ASSUME NEW x \in crossed', x # r
            PROVE  req'[x].ticket \in Issued' /\ tickets'[req'[x].ticket] = spent(x)'
        <5>1. req[x].ticket \in Issued /\ tickets[req[x].ticket] = spent(x)
          BY <2>1, <2>3, <4>1
        <5>2. tickets'[req[x].ticket] = tickets[req[x].ticket]
          BY <2>3, <3>3, <3>5, <4>1, <5>1 DEF Issued
        <5>3. req'[x].ticket = req[x].ticket /\ spent(x)' = spent(x)
          BY <2>3, <4>1
        <5> HIDE DEF crossed, spent
        <5> QED BY <5>1, <5>2, <5>3 DEF Issued
      <4>2. req'[r].ticket \in Issued' /\ tickets'[req'[r].ticket] = spent(r)'
        BY <1>1, <3>1, <3>2, <3>4 DEF Issued
      <4> QED BY <4>1, <4>2
    <3>7. \A x1, x2 \in crossed' : x1 # x2 => req'[x1].ticket # req'[x2].ticket
      <4>1. \A x \in crossed' \ {r} :
              x \in crossed /\ req'[x].ticket = req[x].ticket /\ req[x].ticket # q.ticket
        BY <2>3, <3>5
      <4>2. req'[r].ticket = q.ticket
        BY <1>1
      <4> HIDE DEF crossed
      <4> QED BY <2>2, <4>1, <4>2
    <3> QED BY <3>6, <3>7 DEF OneCallPerTicket
  <2> QED BY <2>4, <2>5
<1> QED BY <1>4, <1>5, <1>6, <1>7 DEF RequestInv

\* The steps that leave the channel and the offboarded credentials alone.
LEMMA ChannelStays ==
  ASSUME RelayInv, UNCHANGED <<channelVars, retired>>
  PROVE  ChannelGrows /\ (ChannelTypeOK /\ ChannelInv /\ RetiredAreGone /\ RetiredTokenIsCut)'
<1>1. UNCHANGED <<creds, readable, edits, sock, sessions, enforced, retired>>
  BY DEF channelVars
<1>2. ChannelInv'
  <2>1. ChannelInv /\ [ChannelNext]_channelVars
    BY DEF RelayInv
  <2> QED BY <2>1, InvStep
<1>3. ChannelTypeOK'
  BY <1>2 DEF ChannelInv
<1>4. RetiredAreGone' /\ RetiredTokenIsCut'
  BY <1>1 DEF RelayInv, RetiredAreGone, RetiredTokenIsCut, Writable
<1> QED BY <1>1, <1>2, <1>3, <1>4 DEF ChannelGrows

\* Approval, spending and the write keep the invariant, whenever a routed
\* request comes to them.
LEMMA DispatchStep ==
  ASSUME RelayInv, NEW r \in Requests, NEW q \in Request,
         req[r].st \in {"idle", "checking"},
         Routed(q), q.st = "checking", q.outcome = "none",
         Dispatch(r, q),
         UNCHANGED <<channelVars, serving, ranOn, tombs, offCalls, retired>>
  PROVE  RelayInv'
<1>c. ChannelGrows /\ (ChannelTypeOK /\ ChannelInv /\ RetiredAreGone /\ RetiredTokenIsCut)'
  BY ChannelStays
<1>d. /\ req' \in [Requests -> Request]
      /\ tickets' \in [Tickets -> Ticket \cup {None}]
      /\ toAgent' \subseteq Sockets \X Requests
  BY DispatchType DEF RelayInv
<1>t. RelayTypeOK'
  BY <1>c, <1>d DEF RelayInv, RelayTypeOK
<1>r. ASSUME req' = [req EXCEPT ![r] = Refused(q.client, q.tool)]
      PROVE  \A x \in Requests : Moves(x)
  <2>1. q.client \in Clients /\ q.tool \in Tools
    BY DEF Routed
  <2>2. IsRefused(r)
    BY <1>r, <2>1 DEF IsRefused, RelayInv, RelayTypeOK
  <2>3. \A x \in Requests \ {r} : req'[x] = req[x]
    BY <1>r DEF RelayInv, RelayTypeOK
  <2> QED BY <2>2, <2>3 DEF Moves
<1>1. CASE Challenge(r, q)
  <2>1. \A t \in Issued : tickets'[t] = tickets[t]
    BY <1>1 DEF Challenge, Issued, RelayInv, RelayTypeOK
  <2>2. toAgent' = toAgent /\ req' = [req EXCEPT ![r] = Refused(q.client, q.tool)]
    BY <1>1 DEF Challenge, Finish
  <2>3. RequestInv'
    BY <1>c, <1>d, <1>r, <2>1, <2>2, RequestsMove DEF RequestInv
  <2> QED BY <1>c, <1>t, <2>3 DEF RelayInv, RequestInv
<1>2. CASE RefuseTicket(r, q)
  <2>1. UNCHANGED <<tickets, toAgent>> /\ req' = [req EXCEPT ![r] = Refused(q.client, q.tool)]
    BY <1>2 DEF RefuseTicket, Finish
  <2>2. RequestInv'
    BY <1>c, <1>d, <1>r, <2>1, RequestsMove DEF RequestInv
  <2> QED BY <1>c, <1>t, <2>2 DEF RelayInv, RequestInv
<1>3. CASE WriteFrame(r, q) /\ ~Writable(q.sock)
  <2>1. toAgent' = toAgent /\ req' = [req EXCEPT ![r] = Refused(q.client, q.tool)]
    BY <1>3 DEF WriteFrame, Finish
  <2>2. \A t \in Issued : tickets'[t] \in {tickets[t], [tickets[t] EXCEPT !.used = TRUE]}
    BY <1>3 DEF WriteFrame, Spend, Issued, RelayInv, RelayTypeOK
  <2>3. RequestInv'
    BY <1>c, <1>d, <1>r, <2>1, <2>2, RequestsMove DEF RequestInv
  <2> QED BY <1>c, <1>t, <2>3 DEF RelayInv, RequestInv
<1>4. CASE WriteFrame(r, q) /\ Writable(q.sock)
  <2>1. RequestInv'
    BY <1>4, FrameWritten
  <2> QED BY <1>c, <1>t, <2>1 DEF RelayInv, RequestInv
<1> QED BY <1>1, <1>2, <1>3, <1>4 DEF Dispatch

\* The agent takes its request's only frame off the wire, and executes the
\* call on the tenant it was routed to.
LEMMA ServeStep ==
  ASSUME RelayInv, NEW s \in Sockets, NEW r \in Requests, Serve(s, r)
  PROVE  RelayInv'
<1>c. ChannelGrows /\ (ChannelTypeOK /\ ChannelInv /\ RetiredAreGone /\ RetiredTokenIsCut)'
  BY ChannelStays DEF Serve
<1>w. /\ toAgent' = toAgent \ {<<s, r>>} /\ serving' = serving \cup {<<s, r>>}
      /\ ranOn' = [ranOn EXCEPT ![r] = @ \cup {sock[s].owner}]
      /\ UNCHANGED <<channelVars, req, tickets, tombs, offCalls, retired>>
  BY DEF Serve
<1>u. UNCHANGED <<sock, enforced>>
  BY <1>w DEF channelVars
<1>1. req[r].st \in {"sent", "done"} /\ req[r].sock = s /\ ranOn[r] = {}
  BY DEF Serve, RelayInv, FramesInOrder
<1>2. sock[s].owner = req[r].agent /\ req[r].agent \in Agents
  BY <1>1 DEF RelayInv, RequestsRouted, Past, Routed
<1>3. ranOn'[r] = {req[r].agent} /\ \A x \in Requests \ {r} : ranOn'[x] = ranOn[x]
  BY <1>w, <1>1, <1>2 DEF RelayInv, RelayTypeOK
<1>4. RelayTypeOK'
  <2>1. ranOn' \in [Requests -> SUBSET Agents]
    BY <1>w, <1>2 DEF RelayInv, RelayTypeOK
  <2> QED BY <1>c, <1>w, <2>1 DEF RelayInv, RelayTypeOK
<1>5. RequestsRouted'
  BY <1>w, <1>u DEF RelayInv, RequestsRouted, Past, Routed
<1>6. FramesInOrder'
  <2>1. ASSUME NEW x \in Requests
        PROVE  /\ ranOn'[x] \subseteq {req'[x].agent}
               /\ ranOn'[x] # {} => req'[x].st \in {"sent", "done"}
    BY <1>w, <1>1, <1>3 DEF RelayInv, FramesInOrder
  <2>2. ASSUME NEW y \in Sockets, NEW x \in Requests, <<y, x>> \in toAgent'
        PROVE  req'[x].st \in {"sent", "done"} /\ req'[x].sock = y /\ ranOn'[x] = {}
    <3>1. req[x].st \in {"sent", "done"} /\ req[x].sock = y /\ ranOn[x] = {}
      BY <1>w, <2>2 DEF RelayInv, FramesInOrder
    <3>2. x # r
      BY <1>w, <1>1, <2>2, <3>1
    <3> QED BY <1>w, <1>3, <3>1, <3>2
  <2>3. ASSUME NEW y \in Sockets, NEW x \in Requests, <<y, x>> \in serving'
        PROVE  req'[x].st \in {"sent", "done"} /\ req'[x].sock = y
               /\ ranOn'[x] = {req'[x].agent}
    BY <1>w, <1>1, <1>3, <2>3 DEF RelayInv, FramesInOrder
  <2> QED BY <2>1, <2>2, <2>3 DEF FramesInOrder
<1>7. AnsweredByOwner'
  BY <1>w, <1>3 DEF RelayInv, AnsweredByOwner
<1>8. OneCallPerTicket'
  BY <1>w DEF RelayInv, OneCallPerTicket, Issued, Bound
<1> QED BY <1>c, <1>4, <1>5, <1>6, <1>7, <1>8 DEF RelayInv

---------------------------------------------------------------------------
(* The steps of the channel *)

\* A step after which every owned socket was owned before, with the same token,
\* and is writable only if it was, retires no more tunnels than it cuts.
LEMMA RetiredStaysCut ==
  ASSUME RelayInv, RelayTypeOK', retired' \subseteq retired,
         \A s \in Sockets :
           sock'[s].owner # None =>
             /\ sock'[s].owner = sock[s].owner /\ sock'[s].token = sock[s].token
             /\ Writable(s)' => Writable(s)
  PROVE  RetiredTokenIsCut'
<1>1. \A s \in Sockets : <<sock'[s].owner, sock'[s].token>> \in retired' => sock'[s].owner # None
  BY ChannelAssumption DEF RelayTypeOK, ChannelAssumption
<1> QED BY <1>1 DEF RelayInv, RetiredTokenIsCut

\* The types, when only the channel and the retired records change.
LEMMA ChannelTypes ==
  ASSUME RelayInv, ChannelInv', retired' \subseteq retired,
         UNCHANGED <<req, tickets, serving, ranOn, tombs, offCalls>>, toAgent' \subseteq toAgent
  PROVE  RelayTypeOK'
BY DEF RelayInv, RelayTypeOK, ChannelInv

\* Hellos, bundles, dials and violations: a hello is admitted only with a live
\* record, so never as the owner of a retired one.
LEMMA QuietStep ==
  ASSUME RelayInv, ChannelQuiet, UNCHANGED requestVars
  PROVE  RelayInv'
<1>1. ChannelInv /\ [ChannelNext]_channelVars
  BY DEF RelayInv, ChannelNext
<1>2. ChannelInv' /\ ChannelGrows
  BY <1>1, InvStep, ChannelNextGrows
<1>3. RelayTypeOK'
  BY <1>2, ChannelTypes DEF requestVars
<1>4. RequestInv'
  BY <1>2, RequestsMove DEF RequestInv, requestVars, Moves, RelayInv, RelayTypeOK
<1>5. creds' = creds /\ retired' = retired
  BY DEF requestVars, ChannelQuiet, FileFlips, Dial, HelloDenied, HelloAccepted,
         HelloOfferFails, ProtocolViolation, Activate, BundleAck
<1>6. RetiredAreGone'
  BY <1>5 DEF RelayInv, RetiredAreGone
<1>t. /\ sock \in [Sockets -> SocketState]
      /\ \A x \in Sockets : sock[x] \in SocketState
      /\ \A x \in Sockets : sock[x].owner # None => sock[x].greeted /\ sock[x].st # "free"
  BY <1>1 DEF ChannelInv, ChannelTypeOK, OwnersGreeted
<1>7. RetiredTokenIsCut'
  <2>1. ASSUME NEW s \in Sockets, HelloAccepted(s) PROVE RetiredTokenIsCut'
    <3> DEFINE a == Lookup(sock[s].token)
    <3>1. a \in Agents /\ creds[a] # None /\ creds[a].token = sock[s].token
      BY <2>1, LookupFinds DEF HelloAccepted, Admitted
    <3>2. <<a, sock[s].token>> \notin retired
      BY <3>1 DEF RelayInv, RetiredAreGone
    <3>3. \A x \in Sockets :
            sock'[x] = IF x = s THEN [sock[s] EXCEPT !.greeted = TRUE, !.owner = a]
                       ELSE IF x \in Displaced(a, s) THEN [sock[x] EXCEPT !.st = "destroyed"]
                       ELSE sock[x]
      BY <2>1 DEF HelloAccepted
    <3> HIDE DEF a
    <3>4. sock'[s].owner = a /\ sock'[s].token = sock[s].token
      BY <1>t, <3>3 DEF SocketState
    <3>5. \A x \in Sockets \ {s} :
            /\ sock'[x].owner = sock[x].owner
            /\ sock'[x].token = sock[x].token
            /\ sock'[x].st = IF x \in Displaced(a, s) THEN "destroyed" ELSE sock[x].st
      BY <1>t, <3>3 DEF SocketState
    <3> QED BY <1>5, <3>2, <3>4, <3>5 DEF RelayInv, RetiredTokenIsCut, Writable
  <2>2. ASSUME NEW s \in Sockets, HelloOfferFails(s) PROVE RetiredTokenIsCut'
    <3> DEFINE a == Lookup(sock[s].token)
    <3>1. \A x \in Sockets :
            sock'[x] = IF x = s THEN [sock[s] EXCEPT !.greeted = TRUE, !.st = "destroyed"]
                       ELSE IF x \in Displaced(a, s) THEN [sock[x] EXCEPT !.st = "destroyed"]
                       ELSE sock[x]
      BY <2>2 DEF HelloOfferFails
    <3> HIDE DEF a
    <3>2. /\ sock'[s].owner = sock[s].owner
          /\ sock'[s].token = sock[s].token
          /\ sock'[s].st = "destroyed"
      BY <1>t, <3>1 DEF SocketState
    <3>3. \A x \in Sockets \ {s} :
            /\ sock'[x].owner = sock[x].owner
            /\ sock'[x].token = sock[x].token
            /\ sock'[x].st = IF x \in Displaced(a, s) THEN "destroyed" ELSE sock[x].st
      BY <1>t, <3>1 DEF SocketState
    <3> QED BY <1>3, <1>5, <3>2, <3>3, RetiredStaysCut DEF Writable
  <2>3. ASSUME NEW s \in Sockets, NEW token \in Tokens, Dial(s, token)
        PROVE  RetiredTokenIsCut'
    <3>1. sock'[s].owner = sock[s].owner /\ sock[s].st = "free"
      BY <1>t, <2>3 DEF Dial, SocketState
    <3>2. \A x \in Sockets \ {s} : sock'[x] = sock[x]
      BY <1>t, <2>3 DEF Dial
    <3> QED BY <1>3, <1>5, <1>t, <3>1, <3>2, RetiredStaysCut DEF Writable
  <2>4. ASSUME NEW s \in Sockets, HelloDenied(s) \/ ProtocolViolation(s)
        PROVE  RetiredTokenIsCut'
    <3>1. /\ sock'[s].owner = sock[s].owner /\ sock'[s].token = sock[s].token
          /\ sock'[s].st = "destroyed"
      BY <1>t, <2>4 DEF HelloDenied, ProtocolViolation, SocketState
    <3>2. \A x \in Sockets \ {s} : sock'[x] = sock[x]
      BY <1>t, <2>4 DEF HelloDenied, ProtocolViolation
    <3> QED BY <1>3, <1>5, <3>1, <3>2, RetiredStaysCut DEF Writable
  <2>5. ASSUME sock' = sock PROVE RetiredTokenIsCut'
    BY <1>3, <1>5, <2>5, RetiredStaysCut DEF Writable
  <2> QED
    BY <2>1, <2>2, <2>3, <2>4, <2>5 DEF ChannelQuiet, FileFlips, Activate, BundleAck
<1> QED BY <1>2, <1>3, <1>4, <1>6, <1>7 DEF RelayInv, RequestInv

\* A record an operator writes is no longer a retired one.
LEMMA CredentialEditedStep ==
  ASSUME RelayInv, NEW a \in Agents, NEW rec \in Record \cup {None}, CredentialEdited(a, rec)
  PROVE  RelayInv'
<1>w. /\ EditCredential(a, rec)
      /\ creds' = [creds EXCEPT ![a] = rec] /\ sock' = sock
      /\ retired' = IF rec = None THEN retired ELSE retired \ {<<a, rec.token>>}
      /\ UNCHANGED <<req, tickets, toAgent, serving, ranOn, tombs, offCalls>>
  BY DEF CredentialEdited, EditCredential
<1>1. ChannelInv /\ [ChannelNext]_channelVars
  BY <1>w DEF RelayInv, ChannelNext
<1>2. ChannelInv' /\ ChannelGrows
  BY <1>1, InvStep, ChannelNextGrows
<1>3. RelayTypeOK'
  BY <1>w, <1>2, ChannelTypes
<1>4. RequestInv'
  BY <1>w, <1>2, RequestsMove DEF RequestInv, Moves, RelayInv, RelayTypeOK
<1>5. \A b \in Agents : creds'[b] = IF b = a THEN rec ELSE creds[b]
  BY <1>w, <1>1 DEF ChannelInv, ChannelTypeOK
<1>6. RetiredAreGone'
  BY <1>w, <1>5 DEF RelayInv, RetiredAreGone
<1>7. RetiredTokenIsCut'
  BY <1>w, <1>3, RetiredStaysCut DEF Writable
<1> QED BY <1>2, <1>3, <1>4, <1>6, <1>7 DEF RelayInv, RequestInv

\* An agent that is gone takes the frames it had not received with it.
LEMMA AgentGoneStep ==
  ASSUME RelayInv, NEW s \in Sockets, AgentGone(s)
  PROVE  RelayInv'
<1>w. /\ AgentLost(s) /\ creds' = creds
      /\ sock[s].st = "open" /\ sock' = [sock EXCEPT ![s].st = "lost"]
      /\ toAgent' \subseteq toAgent
      /\ UNCHANGED <<req, tickets, serving, ranOn, tombs, offCalls, retired>>
  BY DEF AgentGone, AgentLost
<1>1. ChannelInv /\ [ChannelNext]_channelVars
  BY <1>w DEF RelayInv, ChannelNext
<1>2. ChannelInv' /\ ChannelGrows
  BY <1>1, InvStep, ChannelNextGrows
<1>3. RelayTypeOK'
  BY <1>w, <1>2, ChannelTypes
<1>4. RequestInv'
  BY <1>w, <1>2, RequestsMove DEF RequestInv, Moves, RelayInv, RelayTypeOK
<1>5. \A x \in Sockets :
        /\ sock'[x].owner = sock[x].owner /\ sock'[x].token = sock[x].token
        /\ sock'[x].st \in {"open", "lost"} => sock[x].st \in {"open", "lost"}
  BY <1>w, <1>1 DEF ChannelInv, ChannelTypeOK, SocketState
<1>6. RetiredTokenIsCut'
  BY <1>w, <1>3, <1>5, RetiredStaysCut DEF Writable
<1> QED BY <1>w, <1>2, <1>3, <1>4, <1>6 DEF RelayInv, RequestInv, RetiredAreGone

---------------------------------------------------------------------------
(* The steps of the requests *)

\* Pending calls given up together all finish as unknown.
LEMMA GiveUpMoves ==
  ASSUME RelayInv, NEW R, \A r \in R : r \in Requests /\ req[r].st = "sent", GiveUp(R)
  PROVE  req' \in [Requests -> Request] /\ \A r \in Requests : Moves(r)
<1>1. req \in [Requests -> Request]
  BY DEF RelayInv, RelayTypeOK
<1>2. \A r \in Requests :
        req'[r] = IF r \in R THEN [req[r] EXCEPT !.st = "done", !.outcome = "unknown"]
                  ELSE req[r]
  BY DEF GiveUp
<1>3. req' \in [Requests -> Request]
  BY <1>1, RequestUpdates DEF GiveUp
<1>4. ASSUME NEW r \in Requests PROVE Moves(r)
  BY <1>2 DEF Moves, IsDone
<1> QED BY <1>3, <1>4

\* A request that ends in its own step, the channel and its frames left alone.
LEMMA FinishStep ==
  ASSUME RelayInv, NEW r \in Requests, NEW f \in Request, Finish(r, f),
         IsRefused(r) \/ IsSuspended(r),
         UNCHANGED <<tickets, toAgent, serving, ranOn>>, ChannelGrows
  PROVE  req' \in [Requests -> Request] /\ RequestInv'
<1>1. /\ req \in [Requests -> Request]
      /\ tickets \in [Tickets -> Ticket \cup {None}]
  BY DEF RelayInv, RelayTypeOK
<1>2. req' \in [Requests -> Request] /\ \A x \in Requests \ {r} : req'[x] = req[x]
  BY <1>1 DEF Finish
<1>3. \A x \in Requests : Moves(x)
  BY <1>2 DEF Moves
<1> QED BY <1>1, <1>2, <1>3, RequestsMove DEF RequestInv

\* A refusal: the session the request selected may be dropped with it.
LEMMA RefusalStep ==
  ASSUME RelayInv, NEW r \in Requests, NEW c \in Clients \cup {None},
         NEW tool \in Tools \cup {None},
         req[r].st \in {"idle", "checking"}, Finish(r, Refused(c, tool)),
         UNCHANGED <<tickets, toAgent, serving, ranOn>>, ChannelGrows
  PROVE  req' \in [Requests -> Request] /\ RequestInv'
<1>1. Refused(c, tool) \in Request
  BY RequestUpdates
<1>2. req'[r] = Refused(c, tool)
  BY DEF Finish, RelayInv, RelayTypeOK
<1>3. IsRefused(r)
  BY <1>2 DEF IsRefused
<1> QED BY <1>1, <1>3, FinishStep

\* Any check refuses, or the issuer does.
LEMMA RefuseStep ==
  ASSUME RelayInv, NEW r \in Requests,
         \/ TokenDead(r)
         \/ \E hint, target, quotaOk : \E c \in Clients, tool \in Tools :
              Refuse(r, c, tool, hint, target, quotaOk)
  PROVE  RelayInv'
<1>w. /\ UNCHANGED <<channelVars, tickets, toAgent, serving, ranOn, tombs, offCalls, retired>>
      /\ req[r].st \in {"idle", "checking"}
      /\ \E c \in Clients \cup {None}, tool \in Tools \cup {None} : Finish(r, Refused(c, tool))
  <2>1. CASE TokenDead(r)
    <3>1. req[r].client \in Clients \cup {None} /\ req[r].tool \in Tools \cup {None}
      BY DEF RelayInv, RelayTypeOK, Request
    <3> QED BY <2>1, <3>1 DEF TokenDead
  <2>2. CASE \E hint, target, quotaOk : \E c \in Clients, tool \in Tools :
               Refuse(r, c, tool, hint, target, quotaOk)
    BY <2>2 DEF Refuse
  <2> QED BY <2>1, <2>2
<1>c. ChannelGrows /\ (ChannelTypeOK /\ ChannelInv /\ RetiredAreGone /\ RetiredTokenIsCut)'
  BY <1>w, ChannelStays
<1>1. req' \in [Requests -> Request] /\ RequestInv'
  BY <1>w, <1>c, RefusalStep
<1>2. RelayTypeOK'
  BY <1>w, <1>c, <1>1 DEF RelayInv, RelayTypeOK
<1> QED BY <1>c, <1>1, <1>2 DEF RelayInv, RequestInv

\* A changed bind: the tunnel is dropped and the request refused.
LEMMA ReboundStep ==
  ASSUME RelayInv, NEW r \in Requests, NEW c \in Clients, NEW tool \in Tools,
         NEW hint, NEW target, Rebound(r, c, tool, hint, target)
  PROVE  RelayInv'
<1>w. /\ UNCHANGED <<creds, tickets, toAgent, serving, ranOn, tombs, offCalls, retired>>
      /\ req[r].st = "idle" /\ Finish(r, Refused(c, tool))
  BY DEF Rebound
<1>c. ChannelInv' /\ ChannelGrows
  BY ReboundChannel
<1>1. req' \in [Requests -> Request] /\ RequestInv'
  BY <1>w, <1>c, RefusalStep
<1>2. RelayTypeOK'
  BY <1>w, <1>c, <1>1 DEF RelayInv, RelayTypeOK, ChannelInv
<1>3. RetiredAreGone'
  BY <1>w DEF RelayInv, RetiredAreGone
<1>4. RetiredTokenIsCut'
  <2> DEFINE k == sessions[Route(c, hint, target)].sock
  <2>1. sock' = [sock EXCEPT ![k].st = "destroyed"]
    BY DEF Rebound
  <2> HIDE DEF k
  <2>2. sock \in [Sockets -> SocketState]
    BY DEF RelayInv, RelayTypeOK, ChannelTypeOK
  <2>3. \A x \in Sockets :
          /\ sock'[x].owner = sock[x].owner
          /\ sock'[x].token = sock[x].token
          /\ sock'[x].st = IF x = k THEN "destroyed" ELSE sock[x].st
    BY <2>1, <2>2 DEF SocketState
  <2> QED BY <1>w, <1>2, <2>3, RetiredStaysCut DEF Writable
<1> QED BY <1>c, <1>1, <1>2, <1>3, <1>4 DEF RelayInv, RequestInv

\* A request that passes every check is suspended or dispatched, routed.
LEMMA StartStep ==
  ASSUME RelayInv, NEW r \in Requests, NEW c \in Clients, NEW tool \in Tools,
         NEW hint, NEW target, NEW ticket \in Issued \cup {None},
         Start(r, c, tool, hint, target, ticket)
  PROVE  RelayInv'
<1> DEFINE a == Route(c, hint, target)
           q == [Idle EXCEPT !.st = "checking", !.client = c, !.tool = tool,
                   !.agent = a, !.sock = sessions[a].sock, !.ticket = ticket]
<1>w. /\ req[r].st = "idle" /\ Entitled(c, tool, hint, target)
      /\ IF tool \in WriteTools THEN Finish(r, q) /\ UNCHANGED <<tickets, toAgent>>
         ELSE Dispatch(r, q)
      /\ UNCHANGED <<channelVars, serving, ranOn, tombs, offCalls, retired>>
  BY DEF Start
<1>1. /\ q.st = "checking" /\ q.outcome = "none"
      /\ q.client = c /\ q.tool = tool /\ q.agent = a /\ q.sock = sessions[a].sock
  BY DEF Idle
<1>2. Routed(q)
  BY <1>w, <1>1, EntitledIsRouted
<1>3. q \in Request
  <2>1. a \in Agents /\ sessions[a].sock \in Sockets
    BY <1>1, <1>2 DEF Routed
  <2>2. ticket \in Tickets \cup {None}
    BY DEF Issued
  <2> HIDE DEF a
  <2> QED BY <2>1, <2>2, SelectionType
<1> HIDE DEF q
<1>4. CASE tool \in WriteTools
  <2>c. ChannelGrows /\ (ChannelTypeOK /\ ChannelInv /\ RetiredAreGone /\ RetiredTokenIsCut)'
    BY <1>w, ChannelStays
  <2>1. req'[r] = q
    BY <1>w, <1>4 DEF Finish, RelayInv, RelayTypeOK
  <2>2. IsSuspended(r)
    BY <1>w, <1>1, <1>2, <2>1 DEF IsSuspended
  <2>3. req' \in [Requests -> Request] /\ RequestInv'
    BY <1>w, <1>3, <1>4, <2>c, <2>2, FinishStep
  <2>4. RelayTypeOK'
    BY <1>w, <1>4, <2>c, <2>3 DEF RelayInv, RelayTypeOK
  <2> QED BY <2>c, <2>3, <2>4 DEF RelayInv, RequestInv
<1>5. CASE tool \notin WriteTools
  BY <1>w, <1>1, <1>2, <1>3, <1>5, DispatchStep
<1> QED BY <1>4, <1>5

\* A suspended request is dispatched to the session it selected, routed still.
LEMMA TokenLiveStep ==
  ASSUME RelayInv, NEW r \in Requests, TokenLive(r)
  PROVE  RelayInv'
<1>1. /\ req[r] \in Request /\ req[r].st = "checking"
      /\ Routed(req[r]) /\ req[r].outcome = "none"
  BY DEF TokenLive, RelayInv, RelayTypeOK, RequestsRouted, Past
<1> QED BY <1>1, DispatchStep DEF TokenLive

\* The fan-down timeout gives one call up.
LEMMA TimeoutStep ==
  ASSUME RelayInv, NEW r \in Requests, Timeout(r)
  PROVE  RelayInv'
<1>w. /\ req[r].st = "sent" /\ GiveUp({r})
      /\ UNCHANGED <<channelVars, tickets, toAgent, serving, ranOn, tombs, offCalls, retired>>
  BY DEF Timeout
<1>c. ChannelGrows /\ (ChannelTypeOK /\ ChannelInv /\ RetiredAreGone /\ RetiredTokenIsCut)'
  BY <1>w, ChannelStays
<1>1. req' \in [Requests -> Request] /\ \A x \in Requests : Moves(x)
  BY <1>w, GiveUpMoves
<1>2. RequestInv'
  BY <1>w, <1>c, <1>1, RequestsMove DEF RequestInv, RelayInv, RelayTypeOK
<1>3. RelayTypeOK'
  BY <1>w, <1>c, <1>1 DEF RelayInv, RelayTypeOK
<1> QED BY <1>c, <1>2, <1>3 DEF RelayInv, RequestInv

\* A response settles only the wait of the tunnel it came from, whose agent
\* executed the call.
LEMMA McpResponseStep ==
  ASSUME RelayInv, NEW s \in Sockets, NEW r \in Requests,
         NEW outcome \in {"ok", "failed"}, McpResponse(s, r, outcome)
  PROVE  RelayInv'
<1>w. /\ <<s, r>> \in serving \/ req[r].agent # sock[s].owner
      /\ req' = IF Settles(s, r)
                THEN [req EXCEPT ![r].st = "done", ![r].outcome = outcome] ELSE req
      /\ serving' \subseteq serving
      /\ UNCHANGED <<channelVars, tickets, toAgent, ranOn, tombs, offCalls, retired>>
  BY DEF McpResponse
<1>c. ChannelGrows /\ (ChannelTypeOK /\ ChannelInv /\ RetiredAreGone /\ RetiredTokenIsCut)'
  BY <1>w, ChannelStays
<1>t. req \in [Requests -> Request] /\ tickets \in [Tickets -> Ticket \cup {None}]
  BY DEF RelayInv, RelayTypeOK
<1>1. req' \in [Requests -> Request] /\ \A x \in Requests : Moves(x)
  <2>1. CASE ~Settles(s, r)
    BY <1>w, <1>t, <2>1 DEF Moves
  <2>2. CASE Settles(s, r)
    <3>1. req[r].st = "sent" /\ ranOn[r] = {req[r].agent}
      BY <1>w, <2>2 DEF Settles, RelayInv, FramesInOrder
    <3>2. req' = [req EXCEPT ![r] = [req[r] EXCEPT !.st = "done", !.outcome = outcome]]
      BY <1>w, <2>2
    <3>3. req' \in [Requests -> Request]
      BY <1>t, <3>2, RequestUpdates
    <3>4. IsDone(r)
      BY <1>t, <3>1, <3>2 DEF IsDone
    <3>5. \A x \in Requests \ {r} : req'[x] = req[x]
      BY <1>t, <3>2
    <3> QED BY <3>3, <3>4, <3>5 DEF Moves
  <2> QED BY <2>1, <2>2
<1>2. RequestInv'
  BY <1>w, <1>c, <1>t, <1>1, RequestsMove DEF RequestInv
<1>3. RelayTypeOK'
  BY <1>w, <1>c, <1>1 DEF RelayInv, RelayTypeOK
<1> QED BY <1>c, <1>2, <1>3 DEF RelayInv, RequestInv

\* The close of a session's socket gives up the calls pending on its tenant.
LEMMA ChannelClosesStep ==
  ASSUME RelayInv, NEW s \in Sockets, ChannelCloses(s)
  PROVE  RelayInv'
<1>w. /\ SocketCloses(s) /\ creds' = creds
      /\ sock' = [sock EXCEPT ![s].st = "closed"]
      /\ IF EndsSession(s) THEN GiveUp(PendingOf(sock[s].owner)) ELSE UNCHANGED req
      /\ UNCHANGED <<tickets, toAgent, serving, ranOn, tombs, offCalls, retired>>
  BY DEF ChannelCloses, SocketCloses
<1>1. ChannelInv /\ [ChannelNext]_channelVars
  BY <1>w DEF RelayInv, ChannelNext
<1>2. ChannelInv' /\ ChannelGrows
  BY <1>1, InvStep, ChannelNextGrows
<1>3. req' \in [Requests -> Request] /\ \A x \in Requests : Moves(x)
  <2>1. CASE EndsSession(s)
    BY <1>w, <2>1, GiveUpMoves DEF PendingOf
  <2>2. CASE ~EndsSession(s)
    BY <1>w, <2>2 DEF Moves, RelayInv, RelayTypeOK
  <2> QED BY <2>1, <2>2
<1>4. RequestInv'
  BY <1>w, <1>2, <1>3, RequestsMove DEF RequestInv, RelayInv, RelayTypeOK
<1>5. RelayTypeOK'
  BY <1>w, <1>2, <1>3 DEF RelayInv, RelayTypeOK, ChannelInv
<1>6. \A x \in Sockets :
        /\ sock'[x].owner = sock[x].owner
        /\ sock'[x].token = sock[x].token
        /\ sock'[x].st = IF x = s THEN "closed" ELSE sock[x].st
  BY <1>w, <1>1 DEF ChannelInv, ChannelTypeOK, SocketState
<1>7. RetiredTokenIsCut'
  BY <1>w, <1>5, <1>6, RetiredStaysCut DEF Writable
<1> QED BY <1>w, <1>2, <1>4, <1>5, <1>7 DEF RelayInv, RequestInv, RetiredAreGone

---------------------------------------------------------------------------
(* Offboarding *)

\* The only tunnel its tenant's credential may still be on is the session's,
\* and that one is cut.
LEMMA OffboardDestroysStep ==
  ASSUME RelayInv, NEW c \in Clients, OffboardDestroys(c)
  PROVE  RelayInv'
<1> DEFINE a == TenantOf(c)
<1>w. /\ creds' = [creds EXCEPT ![a] = None]
      /\ retired' = IF creds[a] = None THEN retired ELSE retired \cup {<<a, creds[a].token>>}
      /\ sock' = [s \in Sockets |->
            IF s \in CutSockets(a) THEN [sock[s] EXCEPT !.st = "destroyed"] ELSE sock[s]]
      /\ IF a \in Connected THEN GiveUp(PendingOf(a)) ELSE UNCHANGED req
      /\ tickets' = [t \in Tickets |->
            IF tickets[t] = None THEN None ELSE [tickets[t] EXCEPT !.used = TRUE]]
      /\ offCalls[c] < MaxOffboards /\ offCalls' = [offCalls EXCEPT ![c] = @ + 1]
      /\ UNCHANGED <<toAgent, serving, ranOn, tombs>>
  BY DEF OffboardDestroys
<1>a. a \in Agents
  <2>1. Cardinality(TenantGrants[c]) = 1
    BY DEF OffboardDestroys
  <2>2. TenantGrants[c] # {}
    BY <2>1, FS_EmptySet
  <2> QED BY <2>2, RelayAssumption DEF TenantOf, RelayAssumption
<1> HIDE DEF a
<1>t. RelayTypeOK /\ ChannelTypeOK
  BY DEF RelayInv, RelayTypeOK
<1>1. ChannelInv' /\ ChannelGrows
  BY OffboardChannel
<1>2. req' \in [Requests -> Request] /\ \A x \in Requests : Moves(x)
  <2>1. CASE a \in Connected
    BY <1>w, <2>1, GiveUpMoves DEF PendingOf
  <2>2. CASE a \notin Connected
    BY <1>w, <1>t, <2>2 DEF Moves, RelayTypeOK
  <2> QED BY <2>1, <2>2
<1>3. tickets' \in [Tickets -> Ticket \cup {None}]
  <2>1. \A t \in Ticket : [t EXCEPT !.used = TRUE] \in Ticket
    BY DEF Ticket
  <2>2. tickets \in [Tickets -> Ticket \cup {None}]
    BY <1>t DEF RelayTypeOK
  <2> QED BY <1>w, <2>1, <2>2
<1>4. RequestInv'
  BY <1>w, <1>1, <1>2, <1>3, RequestsMove DEF RequestInv, Issued
<1>5. offCalls' \in [Clients -> 0..MaxOffboards]
  BY <1>w, <1>t, RelayAssumption DEF RelayTypeOK, RelayAssumption
<1>6. retired' \subseteq Agents \X Tokens
  BY <1>w, <1>a, <1>t DEF RelayTypeOK, ChannelTypeOK, Record
<1>7. RelayTypeOK'
  BY <1>w, <1>t, <1>1, <1>2, <1>3, <1>5, <1>6 DEF RelayTypeOK, ChannelInv
<1>8. RetiredAreGone'
  BY <1>w, <1>a, <1>t DEF RelayInv, RetiredAreGone, RelayTypeOK, ChannelTypeOK
<1>9. RetiredTokenIsCut'
  <2>1. \A x \in Sockets :
          /\ sock'[x].owner = sock[x].owner
          /\ sock'[x].token = sock[x].token
          /\ sock'[x].st = IF x \in CutSockets(a) THEN "destroyed" ELSE sock[x].st
    BY <1>w, <1>t DEF ChannelTypeOK, SocketState
  <2> SUFFICES ASSUME NEW x \in Sockets, <<sock'[x].owner, sock'[x].token>> \in retired',
                      Writable(x)'
               PROVE  FALSE
    BY DEF RetiredTokenIsCut
  <2>2. Writable(x) /\ x \notin CutSockets(a)
    BY <2>1 DEF Writable
  <2>3. <<sock[x].owner, sock[x].token>> \notin retired
    BY <2>2 DEF RelayInv, RetiredTokenIsCut
  <2>4. sock[x].owner = a
    BY <1>w, <2>1, <2>3
  <2>5. a \in Connected /\ sessions[a].sock = x
    BY <1>a, <2>2, <2>4, ChannelAssumption
       DEF RelayInv, ChannelInv, OwnerIsCurrent, ChannelAssumption
  <2> QED BY <2>2, <2>5 DEF CutSockets
<1> QED BY <1>1, <1>4, <1>7, <1>8, <1>9 DEF RelayInv, RequestInv

\* The tombstone touches neither requests nor channels.
LEMMA OffboardEndsStep ==
  ASSUME RelayInv, NEW c \in Clients, NEW exported \in BOOLEAN, OffboardEnds(c, exported)
  PROVE  RelayInv'
<1>w. /\ UNCHANGED <<channelVars, req, tickets, toAgent, serving, ranOn, retired>>
      /\ offCalls[c] > 0 /\ offCalls' = [offCalls EXCEPT ![c] = @ - 1]
      /\ tombs' = IF exported THEN tombs \cup {c} ELSE tombs
  BY DEF OffboardEnds
<1>c. ChannelGrows /\ (ChannelTypeOK /\ ChannelInv /\ RetiredAreGone /\ RetiredTokenIsCut)'
  BY <1>w, ChannelStays
<1>1. RequestInv'
  BY <1>w, <1>c, RequestsMove DEF RequestInv, Moves, RelayInv, RelayTypeOK
<1>2. offCalls' \in [Clients -> 0..MaxOffboards]
  BY <1>w, RelayAssumption DEF RelayInv, RelayTypeOK, RelayAssumption
<1>3. RelayTypeOK'
  BY <1>w, <1>c, <1>2 DEF RelayInv, RelayTypeOK
<1> QED BY <1>c, <1>1, <1>3 DEF RelayInv, RequestInv

---------------------------------------------------------------------------
(* The inductive invariant *)

\* The edge starts with no session, no request and nothing offboarded.
LEMMA RelayInit == Init => RelayInv
<1> SUFFICES ASSUME Init PROVE RelayInv
  OBVIOUS
<1>1. ChannelInv
  BY InvInit DEF Init
<1>2. \A r \in Requests : req[r] = Idle /\ ranOn[r] = {}
  BY DEF Init
<1>3. RelayTypeOK
  <2>1. ChannelTypeOK
    BY <1>1 DEF ChannelInv
  <2>2. req \in [Requests -> Request]
    BY RequestUpdates DEF Init
  <2>3. offCalls \in [Clients -> 0..MaxOffboards]
    BY RelayAssumption DEF Init, RelayAssumption
  <2>4. tickets \in [Tickets -> Ticket \cup {None}] /\ ranOn \in [Requests -> SUBSET Agents]
    BY DEF Init
  <2> QED BY <2>1, <2>2, <2>3, <2>4 DEF Init, RelayTypeOK
<1>4. RequestsRouted /\ FramesInOrder /\ AnsweredByOwner /\ OneCallPerTicket
  BY <1>2
     DEF Init, Idle, RequestsRouted, FramesInOrder, AnsweredByOwner, OneCallPerTicket, Past
<1>5. RetiredAreGone /\ RetiredTokenIsCut
  BY DEF Init, RetiredAreGone, RetiredTokenIsCut
<1> QED BY <1>1, <1>3, <1>4, <1>5 DEF RelayInv

\* Every step of the edge keeps the invariant.
LEMMA RelayStep == RelayInv /\ [Next]_vars => RelayInv'
<1> SUFFICES ASSUME RelayInv, [Next]_vars PROVE RelayInv'
  OBVIOUS
<1>1. CASE ChannelQuiet /\ UNCHANGED requestVars
  BY <1>1, QuietStep
<1>2. CASE \E a \in Agents, rec \in Record \cup {None} : CredentialEdited(a, rec)
  BY <1>2, CredentialEditedStep
<1>3. CASE \E s \in Sockets : AgentGone(s) \/ ChannelCloses(s)
  BY <1>3, AgentGoneStep, ChannelClosesStep
<1>4. ASSUME NEW r \in Requests, Northbound(r) \/ TokenLive(r) \/ TokenDead(r) \/ Timeout(r)
      PROVE  RelayInv'
  <2>1. CASE Northbound(r)
    BY <2>1, RefuseStep, ReboundStep, StartStep DEF Northbound
  <2> QED BY <1>4, <2>1, TokenLiveStep, RefuseStep, TimeoutStep
<1>5. ASSUME NEW s \in Sockets, NEW r \in Requests,
             Serve(s, r) \/ \E outcome \in {"ok", "failed"} : McpResponse(s, r, outcome)
      PROVE  RelayInv'
  BY <1>5, ServeStep, McpResponseStep
<1>6. CASE \/ \E c \in Clients : OffboardDestroys(c)
           \/ \E c \in Clients, exported \in BOOLEAN : OffboardEnds(c, exported)
  BY <1>6, OffboardDestroysStep, OffboardEndsStep
<1>7. CASE UNCHANGED vars
  <2>1. UNCHANGED <<channelVars, req, tickets, toAgent, serving, ranOn, tombs, offCalls, retired>>
    BY <1>7 DEF vars, requestVars
  <2>2. ChannelGrows /\ (ChannelTypeOK /\ ChannelInv /\ RetiredAreGone /\ RetiredTokenIsCut)'
    BY <2>1, ChannelStays
  <2>3. RequestInv'
    BY <2>1, <2>2, RequestsMove DEF RequestInv, Moves, RelayInv, RelayTypeOK
  <2>4. RelayTypeOK'
    BY <2>1, <2>2 DEF RelayInv, RelayTypeOK
  <2> QED BY <2>2, <2>3, <2>4 DEF RelayInv, RequestInv
<1> QED BY <1>1, <1>2, <1>3, <1>4, <1>5, <1>6, <1>7 DEF Next

\* The invariant holds through any order of hellos, edits, closes, token
\* checks, frames, answers, timeouts and offboardings.
THEOREM RelayInvariant == Spec => []RelayInv
<1>1. Init => RelayInv
  BY RelayInit
<1>2. RelayInv /\ [Next]_vars => RelayInv'
  BY RelayStep
<1> QED BY <1>1, <1>2, PTL DEF Spec

---------------------------------------------------------------------------
(* What follows for the code *)

\* The agent channel keeps its invariants under the fan-down, the dropped
\* tunnels and the offboardings of the whole edge.
THEOREM EdgeKeepsChannel ==
  Spec => [](SitesPartitioned /\ OwnerIsCurrent /\ AttestedOnThisChannel)
<1>1. RelayInv => SitesPartitioned /\ OwnerIsCurrent /\ AttestedOnThisChannel
  BY DEF RelayInv, ChannelInv
<1> QED BY <1>1, RelayInvariant, PTL

\* A call executes on the tenant it was routed to, and on a granted one.
THEOREM RunsWhereGranted == Spec => []RunsOnGrantedTenant
<1>1. RelayInv => RunsOnGrantedTenant
  <2> SUFFICES ASSUME RelayInv, NEW r \in Requests
               PROVE  /\ ranOn[r] \subseteq {req[r].agent}
                      /\ ByGrant => ranOn[r] \subseteq
                           (IF req[r].client = None THEN {} ELSE TenantGrants[req[r].client])
    BY DEF RunsOnGrantedTenant
  <2>1. ranOn[r] \subseteq {req[r].agent}
    BY DEF RelayInv, FramesInOrder
  <2>2. ranOn[r] # {} => Routed(req[r])
    BY DEF RelayInv, FramesInOrder, RequestsRouted, Past
  <2>3. ranOn[r] # {} => req[r].client # None
    BY <2>2, RelayAssumption DEF Routed, RelayAssumption
  <2> QED BY <2>1, <2>2, <2>3 DEF Routed
<1> QED BY <1>1, RelayInvariant, PTL

\* A call that was refused, or is still being checked, has no frame anywhere
\* and never executed.
THEOREM RefusedCallsNeverRun == Spec => []RefusedNeverRuns
<1>1. RelayInv => RefusedNeverRuns
  BY DEF RelayInv, FramesInOrder, RefusedNeverRuns
<1> QED BY <1>1, RelayInvariant, PTL

\* broker.settle's owner check is enough: a call answered ok or failed was
\* executed by its tenant.
THEOREM AnswersAreTheOwners == Spec => []AnsweredByOwner
<1>1. RelayInv => AnsweredByOwner
  BY DEF RelayInv
<1> QED BY <1>1, RelayInvariant, PTL

\* consume is one-use across the suspensions of fanDown.
THEOREM TicketsAreSpentOnce == Spec => []OneCallPerTicket
<1>1. RelayInv => OneCallPerTicket
  BY DEF RelayInv
<1> QED BY <1>1, RelayInvariant, PTL

\* The attestation read before the token check still holds at the write.
THEOREM GovernedCallsStayAttested == Spec => []GovernedCallsAttested
<1>1. RelayInv => GovernedCallsAttested
  BY DEF RelayInv, RequestsRouted, Past, Routed, GovernedCallsAttested
<1> QED BY <1>1, RelayInvariant, PTL

\* offboardTenant cuts every tunnel of the credential it destroys.
THEOREM RetiredTokensAreCut == Spec => []RetiredTokenIsCut
<1>1. RelayInv => RetiredTokenIsCut
  BY DEF RelayInv
<1> QED BY <1>1, RelayInvariant, PTL

---------------------------------------------------------------------------
(* Nobody waits for a tenant that has gone *)

\* The trace of a hello whose bundles could not be written.
AbandonedHello ==
  /\ Digests # {}
  /\ \E s \in Sockets : sock[s].greeted /\ sock[s].owner = None

\* Sessions change hands, and waits end, but no tenant somebody waits for goes.
StaysServed ==
  /\ \A r \in Requests : req'[r].st = "sent" =>
       \/ req[r].st = "sent" /\ req'[r].agent = req[r].agent
       \/ req'[r].agent \in Connected
  /\ \A a \in Connected : sessions'[a] # None

\* Once greeted, a socket keeps the owner the hello gave it, or has none.
LEMMA GreetedForGood ==
  ASSUME ChannelInv, [ChannelNext]_channelVars, NEW s \in Sockets, sock[s].greeted
  PROVE  sock'[s].greeted /\ sock'[s].owner = sock[s].owner
<1>t. ChannelTypeOK /\ \A x \in Sockets : sock[x] \in SocketState
  BY DEF ChannelInv, ChannelTypeOK
<1>1. ASSUME NEW y \in Sockets, HelloAccepted(y) \/ HelloOfferFails(y)
      PROVE  sock'[s].greeted /\ sock'[s].owner = sock[s].owner
  <2>1. s # y
    BY <1>1 DEF HelloAccepted, HelloOfferFails, HelloPending
  <2>2. sock'[s] \in {sock[s], [sock[s] EXCEPT !.st = "destroyed"]}
    BY <1>1, <2>1 DEF HelloAccepted, HelloOfferFails
  <2> QED BY <1>t, <2>2 DEF SocketState
<1>2. ASSUME NEW y \in Sockets,
             \/ \E token \in Tokens : Dial(y, token)
             \/ HelloDenied(y) \/ ProtocolViolation(y) \/ AgentLost(y) \/ SocketCloses(y)
      PROVE  sock'[s].greeted /\ sock'[s].owner = sock[s].owner
  BY <1>2, <1>t
     DEF Dial, HelloDenied, HelloPending, ProtocolViolation, AgentLost, SocketCloses,
         ChannelTypeOK, SocketState
<1>3. ASSUME sock' = sock PROVE sock'[s].greeted /\ sock'[s].owner = sock[s].owner
  BY <1>3
<1> QED
  BY <1>1, <1>2, <1>3
     DEF ChannelNext, ChannelQuiet, FileFlips, EditCredential, Activate, BundleAck,
         channelVars

\* A hello or a frame that takes a session out of the table is a hello that
\* ends without one.
LEMMA QuietSessionLeaves ==
  ASSUME ChannelInv, ChannelQuiet, NEW a \in Connected, sessions'[a] = None
  PROVE  AbandonedHello'
<1>t. /\ ChannelTypeOK
      /\ a \in Agents /\ sessions[a] # None
  BY DEF ChannelInv, Connected
<1>1. ASSUME NEW s \in Sockets, HelloAccepted(s) PROVE FALSE
  <2> DEFINE b == Lookup(sock[s].token)
  <2>1. NewSession(b, s) # None
    BY <1>1, <1>t, NewSessionType, ChannelAssumption
       DEF HelloAccepted, ChannelAssumption
  <2>2. sessions' = [sessions EXCEPT ![b] = NewSession(b, s)]
    BY <1>1 DEF HelloAccepted
  <2> HIDE DEF b
  <2> QED BY <1>t, <2>1, <2>2 DEF ChannelTypeOK
<1>2. ASSUME NEW s \in Sockets, HelloOfferFails(s) PROVE AbandonedHello'
  <2>1. sock[s] \in SocketState /\ sock[s].owner = None
    BY <1>2, <1>t, PendingIsFresh DEF ChannelInv, ChannelTypeOK, HelloOfferFails
  <2>2. sock'[s] = [sock[s] EXCEPT !.greeted = TRUE, !.st = "destroyed"] /\ Digests # {}
    BY <1>2 DEF HelloOfferFails
  <2>3. sock'[s].greeted /\ sock'[s].owner = None
    BY <2>1, <2>2 DEF SocketState
  <2> QED BY <2>2, <2>3 DEF AbandonedHello
<1>3. ASSUME NEW s \in Sockets, NEW d \in Digests, BundleAck(s, d) PROVE FALSE
  <2> DEFINE b == sock[s].owner
  <2>1. b \in Agents /\ sessions[b] \in Session
    BY <1>3, <1>t DEF BundleAck, Connected, ChannelTypeOK
  <2>2. sessions' = [sessions EXCEPT ![b].attested = @ \cup {d}]
    BY <1>3 DEF BundleAck
  <2> HIDE DEF b
  <2>3. sessions'[b] \in Session
    BY <2>1, <2>2, <1>t DEF ChannelTypeOK, Session
  <2> QED BY <1>t, <2>2, <2>3, ChannelAssumption DEF ChannelTypeOK, ChannelAssumption
<1>5. ASSUME sessions' = sessions PROVE FALSE
  BY <1>5, <1>t
<1> QED
  BY <1>1, <1>2, <1>3, <1>5
     DEF ChannelQuiet, FileFlips, Dial, HelloDenied, ProtocolViolation, Activate

\* A dispatch writes a frame only to the socket of a session, so what waits
\* after it waits for a connected tenant.
LEMMA DispatchServed ==
  ASSUME RelayInv, NEW r \in Requests, NEW q \in Request, Routed(q), Dispatch(r, q),
         req[r].st \in {"idle", "checking"}, UNCHANGED channelVars
  PROVE  StaysServed
<1>1. \A x \in Requests \ {r} : req'[x] = req[x]
  BY DEF Dispatch, Challenge, RefuseTicket, WriteFrame, Finish, RelayInv, RelayTypeOK
<1>2. CASE Challenge(r, q) \/ RefuseTicket(r, q) \/ (WriteFrame(r, q) /\ ~Writable(q.sock))
  <2>1. req'[r] = Refused(q.client, q.tool)
    BY <1>2 DEF Challenge, RefuseTicket, WriteFrame, Finish, RelayInv, RelayTypeOK
  <2>2. req'[r].st = "refused"
    BY <2>1 DEF Refused, Idle
  <2> QED BY <1>1, <2>2 DEF StaysServed, channelVars, Connected
<1>3. CASE WriteFrame(r, q) /\ Writable(q.sock)
  <2>1. req'[r] = [q EXCEPT !.st = "sent"]
    BY <1>3 DEF WriteFrame, Finish, RelayInv, RelayTypeOK
  <2>2. req'[r].agent = q.agent
    BY <2>1 DEF Request
  <2>3. q.agent # None /\ q.sock \in Sockets /\ sock[q.sock].owner = q.agent
    BY ChannelAssumption DEF Routed, ChannelAssumption
  <2>4. q.agent \in Connected
    BY <1>3, <2>3 DEF RelayInv, ChannelInv, OwnerIsCurrent
  <2> QED BY <1>1, <2>2, <2>4 DEF StaysServed, channelVars, Connected
<1> QED BY <1>2, <1>3 DEF Dispatch

\* A request that passes the checks is refused, suspended or dispatched.
LEMMA StartServed ==
  ASSUME RelayInv, NEW r \in Requests, NEW c \in Clients, NEW tool \in Tools,
         NEW hint, NEW target, NEW ticket \in Issued \cup {None},
         Start(r, c, tool, hint, target, ticket)
  PROVE  StaysServed
<1> DEFINE a == Route(c, hint, target)
           q == [Idle EXCEPT !.st = "checking", !.client = c, !.tool = tool,
                   !.agent = a, !.sock = sessions[a].sock, !.ticket = ticket]
<1>w. /\ req[r].st = "idle" /\ Entitled(c, tool, hint, target)
      /\ IF tool \in WriteTools THEN Finish(r, q) /\ UNCHANGED <<tickets, toAgent>>
         ELSE Dispatch(r, q)
      /\ UNCHANGED channelVars
  BY DEF Start
<1>1. /\ q.st = "checking"
      /\ q.client = c /\ q.tool = tool /\ q.agent = a /\ q.sock = sessions[a].sock
  BY DEF Idle
<1>2. Routed(q)
  BY <1>w, <1>1, EntitledIsRouted
<1>3. q \in Request
  <2>1. a \in Agents /\ sessions[a].sock \in Sockets
    BY <1>1, <1>2 DEF Routed
  <2>2. ticket \in Tickets \cup {None}
    BY DEF Issued
  <2> HIDE DEF a
  <2> QED BY <2>1, <2>2, SelectionType
<1> HIDE DEF q
<1>4. CASE tool \in WriteTools
  <2>1. req' = [req EXCEPT ![r] = q] /\ req \in [Requests -> Request]
    BY <1>w, <1>4 DEF Finish, RelayInv, RelayTypeOK
  <2>2. \A x \in Requests : req'[x] = IF x = r THEN q ELSE req[x]
    BY <2>1
  <2> QED BY <1>w, <1>1, <2>2 DEF StaysServed, channelVars, Connected
<1>5. CASE tool \notin WriteTools
  BY <1>w, <1>2, <1>3, <1>5, DispatchServed
<1> QED BY <1>4, <1>5

\* Where no served tenant goes and no socket forgets its hello, the waits that
\* were served are served still.
LEMMA ServedStaysServed ==
  ASSUME WaitsHaveASession, StaysServed, AbandonedHello => AbandonedHello'
  PROVE  WaitsHaveASession'
<1> SUFFICES ASSUME NEW r \in Requests, req'[r].st = "sent",
                    req'[r].agent \notin Connected'
             PROVE  AbandonedHello'
  BY DEF WaitsHaveASession, AbandonedHello
<1>1. req'[r].agent \notin Connected
  BY DEF StaysServed, Connected
<1>2. req[r].st = "sent" /\ req'[r].agent = req[r].agent
  BY <1>1 DEF StaysServed
<1> QED BY <1>1, <1>2 DEF WaitsHaveASession, AbandonedHello

\* rejectByOwner ends the waits of the tenant whose session goes, by whichever
\* of its sockets their frames left.
LEMMA TenantGoes ==
  ASSUME RelayInv, WaitsHaveASession, NEW a \in Agents,
         sessions' = [sessions EXCEPT ![a] = None],
         GiveUp(PendingOf(a)),
         AbandonedHello => AbandonedHello'
  PROVE  WaitsHaveASession'
<1>t. sessions \in [Agents -> Session \cup {None}]
  BY DEF RelayInv, RelayTypeOK, ChannelTypeOK
<1>1. \A r \in Requests :
        req'[r] = IF r \in PendingOf(a)
                  THEN [req[r] EXCEPT !.st = "done", !.outcome = "unknown"] ELSE req[r]
  BY DEF GiveUp
<1>2. ASSUME NEW r \in Requests, req'[r].st = "sent"
      PROVE  req'[r] = req[r] /\ req[r].agent # a
  <2>1. req[r] \in Request
    BY DEF RelayInv, RelayTypeOK
  <2>2. r \notin PendingOf(a)
    BY <1>1, <1>2, <2>1 DEF Request
  <2>3. req'[r] = req[r]
    BY <1>1, <2>2
  <2> QED BY <1>2, <2>2, <2>3 DEF PendingOf
<1>3. \A b \in Connected \ {a} : b \in Connected'
  BY <1>t DEF Connected
<1> QED BY <1>2, <1>3 DEF WaitsHaveASession, AbandonedHello

\* Every step of the edge leaves only waits that have a session.
LEMMA WaitsStep ==
  ASSUME RelayInv, WaitsHaveASession, [Next]_vars
  PROVE  WaitsHaveASession'
<1>t. /\ req \in [Requests -> Request]
      /\ ChannelInv /\ ChannelTypeOK
  BY DEF RelayInv, RelayTypeOK
<1>c. ASSUME [ChannelNext]_channelVars PROVE AbandonedHello => AbandonedHello'
  BY <1>c, <1>t, GreetedForGood DEF AbandonedHello
<1>q. ASSUME UNCHANGED <<sock, sessions>>, StaysServed PROVE WaitsHaveASession'
  BY <1>q, ServedStaysServed DEF AbandonedHello
<1>d. ASSUME UNCHANGED <<sock, sessions>>, NEW R, GiveUp(R) PROVE WaitsHaveASession'
  <2>1. \A x \in Requests : req'[x].st = "sent" => req'[x] = req[x]
    BY <1>d, <1>t DEF GiveUp, Request
  <2> QED BY <1>d, <1>q, <2>1 DEF StaysServed, Connected
<1>f. ASSUME UNCHANGED <<sock, sessions>>, NEW r \in Requests, NEW c, NEW tool,
             Finish(r, Refused(c, tool))
      PROVE  WaitsHaveASession'
  <2>1. \A x \in Requests \ {r} : req'[x] = req[x]
    BY <1>f, <1>t DEF Finish
  <2>2. req'[r].st = "refused"
    BY <1>f, <1>t DEF Finish, Refused, Idle
  <2> QED BY <1>f, <1>q, <2>1, <2>2 DEF StaysServed, Connected
<1>1. CASE ChannelQuiet /\ UNCHANGED requestVars
  <2>1. [ChannelNext]_channelVars /\ req' = req
    BY <1>1 DEF ChannelNext, requestVars
  <2>2. AbandonedHello => AbandonedHello'
    BY <1>c, <2>1
  <2>3. CASE AbandonedHello'
    BY <2>3 DEF WaitsHaveASession, AbandonedHello
  <2>4. CASE ~AbandonedHello'
    <3>1. StaysServed
      BY <1>1, <1>t, <2>1, <2>4, QuietSessionLeaves DEF StaysServed
    <3> QED BY <2>2, <3>1, ServedStaysServed
  <2> QED BY <2>3, <2>4
<1>2. ASSUME NEW a \in Agents, NEW rec \in Record \cup {None}, CredentialEdited(a, rec)
      PROVE  WaitsHaveASession'
  <2>1. UNCHANGED <<sock, sessions, req>>
    BY <1>2 DEF CredentialEdited, EditCredential
  <2> QED BY <1>q, <2>1 DEF StaysServed, Connected
<1>3. ASSUME NEW s \in Sockets, AgentGone(s) PROVE WaitsHaveASession'
  <2>1. [ChannelNext]_channelVars /\ UNCHANGED <<sessions, req>>
    BY <1>3 DEF AgentGone, AgentLost, ChannelNext
  <2> QED BY <1>c, <2>1, ServedStaysServed DEF StaysServed, Connected
<1>4. ASSUME NEW s \in Sockets, ChannelCloses(s) PROVE WaitsHaveASession'
  <2>1. /\ [ChannelNext]_channelVars
        /\ sessions' = IF EndsSession(s) THEN [sessions EXCEPT ![sock[s].owner] = None]
                       ELSE sessions
        /\ IF EndsSession(s) THEN GiveUp(PendingOf(sock[s].owner)) ELSE req' = req
    BY <1>4 DEF ChannelCloses, SocketCloses, ChannelNext
  <2>2. CASE EndsSession(s)
    BY <1>c, <2>1, <2>2, TenantGoes DEF EndsSession, Connected
  <2>3. CASE ~EndsSession(s)
    BY <1>c, <2>1, <2>3, ServedStaysServed DEF StaysServed, Connected
  <2> QED BY <2>2, <2>3
<1>5. ASSUME NEW r \in Requests, Northbound(r) PROVE WaitsHaveASession'
  <2> PICK c \in Clients, tool \in Tools, hint \in Agents \cup {None},
           target \in Catalog \cup {None} :
        \/ \E quotaOk \in BOOLEAN : Refuse(r, c, tool, hint, target, quotaOk)
        \/ Rebound(r, c, tool, hint, target)
        \/ \E ticket \in Issued \cup {None} : Start(r, c, tool, hint, target, ticket)
    BY <1>5 DEF Northbound
  <2>1. CASE \E quotaOk \in BOOLEAN : Refuse(r, c, tool, hint, target, quotaOk)
    BY <1>f, <2>1 DEF Refuse, channelVars
  <2>2. CASE Rebound(r, c, tool, hint, target)
    <3>1. AbandonedHello => AbandonedHello'
      BY <2>2, <1>t DEF Rebound, AbandonedHello, ChannelTypeOK, SocketState
    <3>2. req' = [req EXCEPT ![r] = Refused(c, tool)] /\ sessions' = sessions
      BY <2>2 DEF Rebound, Finish
    <3>3. \A x \in Requests : req'[x].st = "sent" => req'[x] = req[x]
      BY <1>t, <3>2 DEF Refused, Idle
    <3> QED BY <3>1, <3>2, <3>3, ServedStaysServed DEF StaysServed, Connected
  <2>3. ASSUME NEW ticket \in Issued \cup {None}, Start(r, c, tool, hint, target, ticket)
        PROVE  WaitsHaveASession'
    <3>1. UNCHANGED <<sock, sessions>>
      BY <2>3 DEF Start, channelVars
    <3>2. StaysServed
      BY <2>3, StartServed
    <3> QED BY <1>q, <3>1, <3>2
  <2> QED BY <2>1, <2>2, <2>3
<1>6. ASSUME NEW r \in Requests, TokenLive(r) PROVE WaitsHaveASession'
  <2>1. req[r].st = "checking" /\ Dispatch(r, req[r]) /\ UNCHANGED channelVars
    BY <1>6 DEF TokenLive
  <2>2. req[r] \in Request /\ Routed(req[r])
    BY <1>t, <2>1 DEF RelayInv, RequestsRouted, Past
  <2>3. StaysServed
    BY <2>1, <2>2, DispatchServed
  <2> QED BY <1>q, <2>1, <2>3 DEF channelVars
<1>7. ASSUME NEW r \in Requests, TokenDead(r) \/ Timeout(r) PROVE WaitsHaveASession'
  <2>1. UNCHANGED <<sock, sessions>>
    BY <1>7 DEF TokenDead, Timeout, channelVars
  <2> QED BY <1>7, <1>d, <1>f, <2>1 DEF TokenDead, Timeout
<1>8. ASSUME NEW s \in Sockets, NEW r \in Requests,
             Serve(s, r) \/ \E outcome \in {"ok", "failed"} : McpResponse(s, r, outcome)
      PROVE  WaitsHaveASession'
  <2>1. UNCHANGED <<sock, sessions>>
    BY <1>8 DEF Serve, McpResponse, channelVars
  <2>2. \A x \in Requests : req'[x].st = "sent" => req'[x] = req[x]
    BY <1>8, <1>t DEF Serve, McpResponse, Request
  <2> QED BY <1>q, <2>1, <2>2 DEF StaysServed, Connected
<1>9. ASSUME NEW c \in Clients, OffboardDestroys(c) PROVE WaitsHaveASession'
  <2> DEFINE a == TenantOf(c)
  <2>1. /\ sessions' = [sessions EXCEPT ![a] = None]
        /\ sock' = [s \in Sockets |->
             IF s \in CutSockets(a) THEN [sock[s] EXCEPT !.st = "destroyed"] ELSE sock[s]]
        /\ IF a \in Connected THEN GiveUp(PendingOf(a)) ELSE UNCHANGED req
    BY <1>9 DEF OffboardDestroys
  <2> HIDE DEF a
  <2>2. AbandonedHello => AbandonedHello'
    BY <1>t, <2>1 DEF AbandonedHello, ChannelTypeOK, SocketState
  <2>3. CASE a \in Connected
    BY <2>1, <2>2, <2>3, TenantGoes DEF Connected
  <2>4. CASE a \notin Connected
    <3>1. \A b \in Connected : sessions'[b] # None
      BY <1>t, <2>1, <2>4 DEF Connected, ChannelTypeOK
    <3> QED BY <2>1, <2>2, <2>4, <3>1, ServedStaysServed DEF StaysServed
  <2> QED BY <2>3, <2>4
<1>10. ASSUME NEW c \in Clients, NEW exported \in BOOLEAN, OffboardEnds(c, exported)
       PROVE  WaitsHaveASession'
  <2>1. UNCHANGED <<sock, sessions, req>>
    BY <1>10 DEF OffboardEnds, channelVars
  <2> QED BY <1>q, <2>1 DEF StaysServed, Connected
<1>11. CASE UNCHANGED vars
  <2>1. UNCHANGED <<sock, sessions, req>>
    BY <1>11 DEF vars, channelVars, requestVars
  <2> QED BY <1>q, <2>1 DEF StaysServed, Connected
<1> QED
  BY <1>1, <1>2, <1>3, <1>4, <1>5, <1>6, <1>7, <1>8, <1>9, <1>10, <1>11 DEF Next

\* A call waits for a connected tenant, whatever became of the socket it was
\* sent over, but for the hello that ends without a session.
THEOREM WaitsAreServed == Spec => []WaitsHaveASession
<1>1. Init => WaitsHaveASession
  BY DEF Init, Idle, WaitsHaveASession
<1>2. RelayInv /\ WaitsHaveASession /\ [Next]_vars => WaitsHaveASession'
  BY WaitsStep
<1> QED BY <1>1, <1>2, RelayInvariant, PTL DEF Spec

---------------------------------------------------------------------------
(* The refinement of RelayContract *)

\* What the contract sees of a request depends only on its record.
Seen(q) == <<PhaseOf(q), TenantSeen(q)>>

\* A step that changes no phase, tenant or execution is none of the contract.
LEMMA ContractStutters ==
  ASSUME \A r \in Requests : Seen(req[r])' = Seen(req[r]), ranOn' = ranOn
  PROVE  UNCHANGED Contract!contractVars
BY DEF Seen, Contract!contractVars

\* A request refused by its own step is a refusal of the contract.
LEMMA ContractRefusal ==
  ASSUME RelayInv, NEW r \in Requests, NEW c, NEW tool,
         req[r].st \in {"idle", "checking"}, Finish(r, Refused(c, tool)), ranOn' = ranOn
  PROVE  Contract!Refuse(r)
<1>1. req'[r] = Refused(c, tool) /\ \A x \in Requests \ {r} : req'[x] = req[x]
  BY DEF Finish, RelayInv, RelayTypeOK
<1>2. PhaseOf(req[r]) = "received" /\ TenantSeen(req[r]) = None
  BY DEF PhaseOf, TenantSeen
<1>3. PhaseOf(req[r])' = "refused" /\ TenantSeen(req[r])' = None
  BY <1>1 DEF PhaseOf, TenantSeen, Refused, Idle
<1>4. \A x \in Requests \ {r} :
        PhaseOf(req[x])' = PhaseOf(req[x]) /\ TenantSeen(req[x])' = TenantSeen(req[x])
  BY <1>1 DEF PhaseOf, TenantSeen
<1> QED BY <1>2, <1>3, <1>4 DEF Contract!Refuse

\* The dispatch refuses, or sends the request to the tenant it is routed to.
LEMMA ContractDispatch ==
  ASSUME RelayInv, NEW r \in Requests, NEW q \in Request,
         req[r].st \in {"idle", "checking"}, Routed(q), Dispatch(r, q), ranOn' = ranOn
  PROVE  Contract!Refuse(r) \/ \E a \in Agents : Contract!Send(r, a)
<1>1. CASE Challenge(r, q) \/ RefuseTicket(r, q) \/ (WriteFrame(r, q) /\ ~Writable(q.sock))
  BY <1>1, ContractRefusal DEF Challenge, RefuseTicket, WriteFrame
<1>2. CASE WriteFrame(r, q) /\ Writable(q.sock)
  <2>1. req' = [req EXCEPT ![r] = [q EXCEPT !.st = "sent"]]
    BY <1>2 DEF WriteFrame, Finish
  <2>2. /\ req'[r].st = "sent" /\ req'[r].agent = q.agent /\ q.agent \in Agents
        /\ \A x \in Requests \ {r} : req'[x] = req[x]
    BY <2>1 DEF Routed, RelayInv, RelayTypeOK, Request
  <2>3. PhaseOf(req[r]) = "received"
    BY DEF PhaseOf
  <2>4. PhaseOf(req[r])' = "sent" /\ TenantSeen(req[r])' = q.agent
    BY <2>2 DEF PhaseOf, TenantSeen
  <2>5. \A x \in Requests \ {r} :
          PhaseOf(req[x])' = PhaseOf(req[x]) /\ TenantSeen(req[x])' = TenantSeen(req[x])
    BY <2>2 DEF PhaseOf, TenantSeen
  <2>6. Contract!Send(r, q.agent)
    BY <2>3, <2>4, <2>5 DEF Contract!Send
  <2> QED BY <2>2, <2>6
<1> QED BY <1>1, <1>2 DEF Dispatch

\* Pending calls given up are given up in the contract.
LEMMA ContractGivesUp ==
  ASSUME RelayInv, NEW R, \A r \in R : r \in Requests /\ req[r].st = "sent", GiveUp(R),
         ranOn' = ranOn
  PROVE  \E S \in SUBSET Requests : Contract!GiveUp(S)
<1>1. \A r \in R :
        /\ PhaseOf(req[r]) = "sent"
        /\ PhaseOf(req[r])' = "unknown" /\ TenantSeen(req[r])' = TenantSeen(req[r])
  <2> SUFFICES ASSUME NEW r \in R
               PROVE  /\ PhaseOf(req[r]) = "sent"
                      /\ PhaseOf(req[r])' = "unknown"
                      /\ TenantSeen(req[r])' = TenantSeen(req[r])
    OBVIOUS
  <2>1. req'[r] = [req[r] EXCEPT !.st = "done", !.outcome = "unknown"] /\ req[r] \in Request
    BY DEF GiveUp, RelayInv, RelayTypeOK
  <2>2. req'[r].st = "done" /\ req'[r].outcome = "unknown" /\ req'[r].agent = req[r].agent
    BY <2>1 DEF Request
  <2> QED BY <2>2 DEF PhaseOf, TenantSeen
<1>2. \A r \in Requests \ R :
        PhaseOf(req[r])' = PhaseOf(req[r]) /\ TenantSeen(req[r])' = TenantSeen(req[r])
  BY DEF GiveUp, PhaseOf, TenantSeen
<1>3. Contract!GiveUp(R)
  BY <1>1, <1>2 DEF Contract!GiveUp
<1> QED BY <1>3

\* The step of a request that passes the checks.
LEMMA ContractStart ==
  ASSUME RelayInv, NEW r \in Requests, NEW c \in Clients, NEW tool \in Tools,
         NEW hint, NEW target, NEW ticket \in Issued \cup {None},
         Start(r, c, tool, hint, target, ticket)
  PROVE  [Contract!ContractNext]_Contract!contractVars
<1> DEFINE a == Route(c, hint, target)
           q == [Idle EXCEPT !.st = "checking", !.client = c, !.tool = tool,
                   !.agent = a, !.sock = sessions[a].sock, !.ticket = ticket]
<1>w. /\ req[r].st = "idle" /\ Entitled(c, tool, hint, target) /\ ranOn' = ranOn
      /\ IF tool \in WriteTools THEN Finish(r, q) ELSE Dispatch(r, q)
  BY DEF Start
<1>1. /\ q.st = "checking"
      /\ q.client = c /\ q.tool = tool /\ q.agent = a /\ q.sock = sessions[a].sock
  BY DEF Idle
<1>2. Routed(q)
  BY <1>w, <1>1, EntitledIsRouted
<1>3. q \in Request
  <2>1. a \in Agents /\ sessions[a].sock \in Sockets
    BY <1>1, <1>2 DEF Routed
  <2>2. ticket \in Tickets \cup {None}
    BY DEF Issued
  <2> HIDE DEF a
  <2> QED BY <2>1, <2>2, SelectionType
<1> HIDE DEF q
<1>4. CASE tool \in WriteTools
  <2>1. \A x \in Requests : req'[x] = IF x = r THEN q ELSE req[x]
    BY <1>w, <1>4 DEF Finish, RelayInv, RelayTypeOK
  <2>2. \A x \in Requests : Seen(req[x])' = Seen(req[x])
    BY <1>w, <1>1, <2>1 DEF Seen, PhaseOf, TenantSeen
  <2> QED BY <1>w, <2>2, ContractStutters
<1>5. CASE tool \notin WriteTools
  BY <1>w, <1>2, <1>3, <1>5, ContractDispatch DEF Contract!ContractNext
<1> QED BY <1>4, <1>5

\* A frame served is an execution, the first one of its call, which has no
\* answer yet.
LEMMA ContractExecutes ==
  ASSUME RelayInv, NEW s \in Sockets, NEW r \in Requests, Serve(s, r)
  PROVE  Contract!Execute(r)
<1>1. req[r].st \in {"sent", "done"} /\ req[r].sock = s /\ ranOn[r] = {}
  BY DEF Serve, RelayInv, FramesInOrder
<1>2. req[r] \in Request /\ (req[r].st = "done" <=> req[r].outcome # "none")
  BY DEF RelayInv, RelayTypeOK, RequestsRouted
<1>3. req[r].outcome \notin {"ok", "failed"}
  BY <1>1 DEF RelayInv, AnsweredByOwner
<1>4. PhaseOf(req[r]) \in {"sent", "unknown"}
  BY <1>1, <1>2, <1>3 DEF PhaseOf, Request
<1>5. ranOn'[r] # {} /\ \A x \in Requests \ {r} : ranOn'[x] = ranOn[x]
  BY DEF Serve, RelayInv, RelayTypeOK
<1>6. req' = req
  BY DEF Serve
<1> QED BY <1>1, <1>4, <1>5, <1>6 DEF Contract!Execute, PhaseOf, TenantSeen

\* A response is an answer of the contract, or nothing.
LEMMA ContractAnswers ==
  ASSUME RelayInv, NEW s \in Sockets, NEW r \in Requests,
         NEW outcome \in {"ok", "failed"}, McpResponse(s, r, outcome)
  PROVE  [Contract!ContractNext]_Contract!contractVars
<1>w. /\ <<s, r>> \in serving \/ req[r].agent # sock[s].owner
      /\ req' = IF Settles(s, r)
                THEN [req EXCEPT ![r].st = "done", ![r].outcome = outcome] ELSE req
      /\ ranOn' = ranOn
  BY DEF McpResponse
<1>1. CASE ~Settles(s, r)
  BY <1>w, <1>1, ContractStutters DEF Seen, PhaseOf, TenantSeen
<1>2. CASE Settles(s, r)
  <2>1. req[r].st = "sent" /\ ranOn[r] # {}
    BY <1>w, <1>2 DEF Settles, RelayInv, FramesInOrder
  <2>2. /\ req'[r].st = "done" /\ req'[r].outcome = outcome /\ req'[r].agent = req[r].agent
        /\ \A x \in Requests \ {r} : req'[x] = req[x]
    BY <1>w, <1>2 DEF RelayInv, RelayTypeOK, Request
  <2>3. PhaseOf(req[r]) = "sent"
    BY <2>1 DEF PhaseOf
  <2>4. PhaseOf(req[r])' = "answered" /\ TenantSeen(req[r])' = TenantSeen(req[r])
    BY <2>1, <2>2 DEF PhaseOf, TenantSeen
  <2>5. \A x \in Requests \ {r} :
          PhaseOf(req[x])' = PhaseOf(req[x]) /\ TenantSeen(req[x])' = TenantSeen(req[x])
    BY <2>2 DEF PhaseOf, TenantSeen
  <2>6. Contract!Answer(r)
    BY <1>w, <2>1, <2>3, <2>4, <2>5 DEF Contract!Answer
  <2> QED BY <2>6 DEF Contract!ContractNext
<1> QED BY <1>1, <1>2

\* Every step of the edge is a step of the contract, or none.
LEMMA ContractStep ==
  RelayInv /\ [Next]_vars => [Contract!ContractNext]_Contract!contractVars
<1> SUFFICES ASSUME RelayInv, [Next]_vars
             PROVE  [Contract!ContractNext]_Contract!contractVars
  OBVIOUS
<1>s. ASSUME req' = req, ranOn' = ranOn
      PROVE  [Contract!ContractNext]_Contract!contractVars
  BY <1>s, ContractStutters DEF Seen, PhaseOf, TenantSeen
<1>g. ASSUME NEW R, \A r \in R : r \in Requests /\ req[r].st = "sent", GiveUp(R), ranOn' = ranOn
      PROVE  [Contract!ContractNext]_Contract!contractVars
  BY <1>g, ContractGivesUp DEF Contract!ContractNext
<1>1. CASE ChannelQuiet /\ UNCHANGED requestVars
  BY <1>1, <1>s DEF requestVars
<1>2. CASE \E a \in Agents, rec \in Record \cup {None} : CredentialEdited(a, rec)
  BY <1>2, <1>s DEF CredentialEdited
<1>3. ASSUME NEW s \in Sockets, AgentGone(s) \/ ChannelCloses(s)
      PROVE  [Contract!ContractNext]_Contract!contractVars
  BY <1>3, <1>s, <1>g DEF AgentGone, ChannelCloses, PendingOf
<1>4. ASSUME NEW r \in Requests, Northbound(r) \/ TokenLive(r) \/ TokenDead(r) \/ Timeout(r)
      PROVE  [Contract!ContractNext]_Contract!contractVars
  <2>1. CASE Northbound(r)
    <3>1. ASSUME NEW c \in Clients, NEW tool \in Tools, NEW hint, NEW target,
                 \/ \E quotaOk \in BOOLEAN : Refuse(r, c, tool, hint, target, quotaOk)
                 \/ Rebound(r, c, tool, hint, target)
          PROVE  Contract!Refuse(r)
      BY <3>1, ContractRefusal DEF Refuse, Rebound
    <3> QED BY <2>1, <3>1, ContractStart DEF Northbound, Contract!ContractNext
  <2>2. CASE TokenLive(r)
    <3>1. req[r] \in Request /\ Routed(req[r])
      BY <2>2 DEF TokenLive, RelayInv, RelayTypeOK, RequestsRouted, Past
    <3> QED BY <2>2, <3>1, ContractDispatch DEF TokenLive, Contract!ContractNext
  <2>3. CASE TokenDead(r)
    BY <2>3, ContractRefusal DEF TokenDead, Contract!ContractNext
  <2>4. CASE Timeout(r)
    BY <2>4, <1>g DEF Timeout
  <2> QED BY <1>4, <2>1, <2>2, <2>3, <2>4
<1>5. ASSUME NEW s \in Sockets, NEW r \in Requests,
             Serve(s, r) \/ \E outcome \in {"ok", "failed"} : McpResponse(s, r, outcome)
      PROVE  [Contract!ContractNext]_Contract!contractVars
  BY <1>5, ContractExecutes, ContractAnswers DEF Contract!ContractNext
<1>6. ASSUME NEW c \in Clients, OffboardDestroys(c)
      PROVE  [Contract!ContractNext]_Contract!contractVars
  <2>1. IF TenantOf(c) \in Connected THEN GiveUp(PendingOf(TenantOf(c))) ELSE UNCHANGED req
    BY <1>6 DEF OffboardDestroys
  <2>2. ranOn' = ranOn
    BY <1>6 DEF OffboardDestroys
  <2> QED BY <1>s, <1>g, <2>1, <2>2 DEF PendingOf
<1>7. ASSUME NEW c \in Clients, NEW exported \in BOOLEAN, OffboardEnds(c, exported)
      PROVE  [Contract!ContractNext]_Contract!contractVars
  BY <1>7, <1>s DEF OffboardEnds
<1>8. CASE UNCHANGED vars
  BY <1>8, <1>s DEF vars, requestVars
<1> QED BY <1>1, <1>2, <1>3, <1>4, <1>5, <1>6, <1>7, <1>8 DEF Next

\* The edge implements the contract: whatever happens to channels, credentials
\* and approvals, a call is refused and never executes, or is sent to one
\* tenant, executes there once at most and is answered once.
THEOREM EdgeImplementsContract == Spec => ContractSpec
<1>1. Init => Contract!ContractInit
  <2>1. ASSUME Init, NEW r \in Requests
        PROVE  PhaseOf(req[r]) = "received" /\ TenantSeen(req[r]) = None /\ ranOn[r] = {}
    BY <2>1 DEF Init, Idle, PhaseOf, TenantSeen
  <2> QED BY <2>1 DEF Contract!ContractInit
<1>2. RelayInv /\ [Next]_vars => [Contract!ContractNext]_Contract!contractVars
  BY ContractStep
<1> QED
  BY <1>1, <1>2, RelayInvariant, PTL DEF Spec, ContractSpec, Contract!ContractSpec

============================================================================
