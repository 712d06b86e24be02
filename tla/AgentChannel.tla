--------------------------- MODULE AgentChannel ---------------------------
(***************************************************************************)
(* The agent channel of the relay edge (src/lib/relay/edge.js): the file   *)
(* of channel credentials, the sockets tenant agents dial, the hello that  *)
(* admits one of them as its agent's session, the policy bundles offered   *)
(* on that session, and the socket's close.  RelayEdge adds the northbound *)
(* requests that are fanned down these sessions.                           *)
(*                                                                         *)
(* Every handler runs to its end on Node's event loop, so each action is a *)
(* whole handler.  A socket that edge or agent destroyed emits "close"     *)
(* only later, and frames and closes of different sockets come in any      *)
(* order.                                                                  *)
(*                                                                         *)
(* An operator whose name ends in M1, M2, ... is a faulty variant of the   *)
(* definition that follows it, kept to show which property rejects it.     *)
(***************************************************************************)
EXTENDS Naturals, FiniteSets

CONSTANTS
  Agents,    \* agent (tenant) ids
  Tokens,    \* channel credentials an operator can issue
  Sites,     \* site names a credential record may bind
  Catalog,   \* the sites of the edge's own catalog
  Binds,     \* the site lists an operator writes into a record
  Files,     \* the credential files the edge may start with
  Sockets,   \* connections that can ever be dialled: bounds the model
  Digests,   \* policy documents with an eligible promotion
  MaxEdits,  \* edits of the credential file: bounds the model
  None

Record == [token : Tokens, revoked : BOOLEAN, sites : Binds]

Session ==
  [sock : Sockets, token : Tokens, sites : SUBSET Catalog,
   offered : SUBSET Digests, attested : SUBSET Digests]

\* Tokens are issued at random: no two records hold the same one.
OneHolder(file) ==
  \A a, b \in Agents :
    a # b /\ file[a] # None /\ file[b] # None => file[a].token # file[b].token

ASSUME ChannelAssumption ==
  /\ Catalog \subseteq Sites /\ Catalog # {}
  /\ Binds \subseteq SUBSET Sites
  /\ Files \subseteq [Agents -> Record \cup {None}]
  /\ \A f \in Files : OneHolder(f)
  /\ MaxEdits \in Nat
  /\ None \notin Agents \cup Sockets \cup Tokens
  /\ None \notin Record /\ None \notin Session

VARIABLES
  creds,     \* the credential file: agent -> record, or None
  readable,  \* FALSE while the file is missing or does not parse
  edits,     \* edits of the file so far
  sock,      \* state of each socket
  sessions,  \* edge: agent -> its session, or None
  enforced   \* agent: documents activated for the bundles of each socket

channelVars == <<creds, readable, edits, sock, sessions, enforced>>

\* "open": both ends up.  "lost": the agent is gone and the edge has not
\* noticed, so its writes still succeed.  "destroyed": not writable, the
\* "close" event is still to come.  "closed": that event was handled.
SocketState ==
  [st : {"free", "open", "lost", "destroyed", "closed"},
   token : Tokens \cup {None},    \* the credential its agent presents
   greeted : BOOLEAN,             \* its hello was handled
   owner : Agents \cup {None}]    \* the handler's agentId

Connected == {a \in Agents : sessions[a] # None}

Writable(s) == sock[s].st \in {"open", "lost"}

---------------------------------------------------------------------------
(* The credential store *)

Holders(token) ==
  {a \in Agents : creds[a] # None /\ creds[a].token = token}

\* lookup(token): the agent whose record holds the token, None when no record
\* does or the file denies all.
Lookup(token) ==
  IF readable /\ Holders(token) # {}
  THEN CHOOSE a \in Holders(token) : TRUE
  ELSE None

\* An operator adds, removes, revokes, rebinds or rotates one record.
EditCredential(a, rec) ==
  /\ edits < MaxEdits
  /\ rec # creds[a]
  /\ creds' = [creds EXCEPT ![a] = rec]
  /\ OneHolder(creds')
  /\ edits' = edits + 1
  /\ UNCHANGED <<readable, sock, sessions, enforced>>

\* The file disappears, stops parsing, or is whole again.
FileFlips ==
  /\ edits < MaxEdits
  /\ readable' = ~readable
  /\ edits' = edits + 1
  /\ UNCHANGED <<creds, sock, sessions, enforced>>

---------------------------------------------------------------------------
(* Dialling and the hello *)

BoundSitesM1(a) == creds[a].sites

\* acceptAgentHello: the catalog sites of a record, {} for an unscoped one.
BoundSites(a) == creds[a].sites \cap Catalog

UnboundTenant(a) == creds[a].sites # {} /\ BoundSites(a) = {}

Others(a, s) == {b \in Connected \ {a} : sessions[b].sock # s}

Overlapping(a, s) ==
  \E b \in Others(a, s) : BoundSites(a) \cap sessions[b].sites # {}

HelloOkM1(a, s) ==
  /\ ~creds[a].revoked
  /\ ~UnboundTenant(a)
  /\ Others(a, s) # {} =>
       /\ BoundSites(a) # {}
       /\ \A b \in Others(a, s) : sessions[b].sites # {}

HelloOk(a, s) ==
  /\ ~creds[a].revoked
  /\ ~UnboundTenant(a)
  /\ Others(a, s) # {} =>
       /\ BoundSites(a) # {}
       /\ \A b \in Others(a, s) : sessions[b].sites # {}
       /\ ~Overlapping(a, s)

Dial(s, token) ==
  /\ sock[s].st = "free"
  /\ sock' = [sock EXCEPT ![s].st = "open", ![s].token = token]
  /\ UNCHANGED <<creds, readable, edits, sessions, enforced>>

HelloPending(s) == Writable(s) /\ ~sock[s].greeted

Admitted(s) ==
  LET a == Lookup(sock[s].token) IN a # None /\ HelloOk(a, s)

\* No record, a revoked record or a binding conflict: denied, and end().
HelloDenied(s) ==
  /\ HelloPending(s)
  /\ ~Admitted(s)
  /\ sock' = [sock EXCEPT ![s].st = "destroyed", ![s].greeted = TRUE]
  /\ UNCHANGED <<creds, readable, edits, sessions, enforced>>

DisplacedM1(a, s) == {}

\* An agent reconnecting takes its session over: the socket it replaces is
\* destroyed, and the new session has attested nothing yet.
Displaced(a, s) == IF a \in Connected THEN {sessions[a].sock} \ {s} ELSE {}

NewSessionM1(a, s) ==
  [sock |-> s, token |-> sock[s].token, sites |-> BoundSites(a),
   offered |-> Digests,
   attested |-> IF a \in Connected THEN sessions[a].attested ELSE {}]

NewSession(a, s) ==
  [sock |-> s, token |-> sock[s].token, sites |-> BoundSites(a),
   offered |-> Digests, attested |-> {}]

HelloAccepted(s) ==
  /\ HelloPending(s) /\ Admitted(s)
  /\ LET a == Lookup(sock[s].token) IN
       /\ sessions' = [sessions EXCEPT ![a] = NewSession(a, s)]
       /\ sock' = [x \in Sockets |->
            IF x = s THEN [sock[s] EXCEPT !.greeted = TRUE, !.owner = a]
            ELSE IF x \in Displaced(a, s) THEN [sock[x] EXCEPT !.st = "destroyed"]
            ELSE sock[x]]
  /\ UNCHANGED <<creds, readable, edits, enforced>>

\* A bundle of the offer cannot be written (a document over the frame bound):
\* the session just stored is deleted again and the socket destroyed.
HelloOfferFails(s) ==
  /\ Digests # {}
  /\ HelloPending(s) /\ Admitted(s)
  /\ LET a == Lookup(sock[s].token) IN
       /\ sessions' = [sessions EXCEPT ![a] = None]
       /\ sock' = [x \in Sockets |->
            IF x = s THEN [sock[s] EXCEPT !.greeted = TRUE, !.st = "destroyed"]
            ELSE IF x \in Displaced(a, s) THEN [sock[x] EXCEPT !.st = "destroyed"]
            ELSE sock[x]]
  /\ UNCHANGED <<creds, readable, edits, enforced>>

---------------------------------------------------------------------------
(* Policy bundles *)

\* presentBundle: the agent activates a document offered on its channel.
Activate(s, d) ==
  /\ sock[s].st = "open" /\ sock[s].owner # None
  /\ d \in Digests \ enforced[s]
  /\ enforced' = [enforced EXCEPT ![s] = @ \cup {d}]
  /\ UNCHANGED <<creds, readable, edits, sock, sessions>>

\* policy-bundle-ack: recorded on the session of the socket's agent.  The
\* handler does not compare sockets.
BundleAck(s, d) ==
  /\ sock[s].st = "open" /\ d \in enforced[s]
  /\ LET a == sock[s].owner IN
       /\ a \in Connected /\ d \in sessions[a].offered
       /\ sessions' = [sessions EXCEPT ![a].attested = @ \cup {d}]
  /\ UNCHANGED <<creds, readable, edits, sock, enforced>>

---------------------------------------------------------------------------
(* The end of a channel *)

\* The agent drops, crashes or is cut off; the edge has not noticed yet.
AgentLost(s) ==
  /\ sock[s].st = "open"
  /\ sock' = [sock EXCEPT ![s].st = "lost"]
  /\ UNCHANGED <<creds, readable, edits, sessions, enforced>>

\* A frame that is oversize, malformed, of a type no agent may send, or sent
\* before the hello: the framer or the handler destroys the socket.
ProtocolViolation(s) ==
  /\ sock[s].st = "open"
  /\ sock' = [sock EXCEPT ![s].st = "destroyed"]
  /\ UNCHANGED <<creds, readable, edits, sessions, enforced>>

\* Does the close of s end its agent's session?  Not if a newer socket has
\* taken the session over.
EndsSessionM1(s) == sock[s].owner \in Connected

EndsSession(s) ==
  /\ sock[s].owner \in Connected
  /\ sessions[sock[s].owner].sock = s

SocketCloses(s) ==
  /\ sock[s].st \in {"lost", "destroyed"}
  /\ sock' = [sock EXCEPT ![s].st = "closed"]
  /\ sessions' = IF EndsSession(s)
                 THEN [sessions EXCEPT ![sock[s].owner] = None]
                 ELSE sessions
  /\ UNCHANGED <<creds, readable, edits, enforced>>

---------------------------------------------------------------------------
(* Specification *)

ChannelInit ==
  /\ creds \in Files
  /\ readable = TRUE
  /\ edits = 0
  /\ sock = [s \in Sockets |->
               [st |-> "free", token |-> None, greeted |-> FALSE, owner |-> None]]
  /\ sessions = [a \in Agents |-> None]
  /\ enforced = [s \in Sockets |-> {}]

\* The steps RelayEdge takes over as they are.
ChannelQuiet ==
  \/ FileFlips
  \/ \E s \in Sockets, token \in Tokens : Dial(s, token)
  \/ \E s \in Sockets :
       \/ HelloDenied(s)
       \/ HelloAccepted(s)
       \/ HelloOfferFails(s)
       \/ ProtocolViolation(s)
       \/ \E d \in Digests : Activate(s, d) \/ BundleAck(s, d)

ChannelNext ==
  \/ ChannelQuiet
  \/ \E a \in Agents, rec \in Record \cup {None} : EditCredential(a, rec)
  \/ \E s \in Sockets : AgentLost(s) \/ SocketCloses(s)

ChannelSpec == ChannelInit /\ [][ChannelNext]_channelVars

---------------------------------------------------------------------------
(* Properties *)

\* Every variable of the channel keeps its type.  In particular a session only
\* serves sites of the edge's own catalog, whatever an operator wrote in the
\* credential's record.
ChannelTypeOK ==
  /\ creds \in [Agents -> Record \cup {None}]
  /\ readable \in BOOLEAN
  /\ edits \in 0..MaxEdits
  /\ sock \in [Sockets -> SocketState]
  /\ sessions \in [Agents -> Session \cup {None}]
  /\ enforced \in [Sockets -> SUBSET Digests]

\* Connected agents never share a site, and an unscoped agent is connected
\* alone, whatever the order of reconnects and credential edits: a site has
\* one tenant, so a site-derived route cannot be ambiguous.
SitesPartitioned ==
  \A a, b \in Connected : a # b =>
    /\ sessions[a].sites # {}
    /\ sessions[a].sites \cap sessions[b].sites = {}

\* The frame handlers act on sessions[agentId] without comparing sockets.
\* They may: a socket that can still deliver frames for an agent is the one
\* its session holds, and a session's socket belongs to that agent.
OwnerIsCurrent ==
  /\ \A s \in Sockets : Writable(s) /\ sock[s].owner # None =>
       /\ sock[s].owner \in Connected
       /\ sessions[sock[s].owner].sock = s
  /\ \A a \in Connected : sock[sessions[a].sock].owner = a

\* A session attests a document only if the agent activated it on that very
\* connection: an attestation never outlives a reconnect.
AttestedOnThisChannel ==
  \A a \in Connected :
    sessions[a].attested \subseteq enforced[sessions[a].sock]

\* A session leaves the table only when its own socket is gone: the late
\* close of a replaced socket never ends the session that replaced it.
SessionEndsWithItsSocket ==
  [][\A a \in Agents :
       a \in Connected /\ sessions'[a] = None
         => sock'[sessions[a].sock].st \in {"destroyed", "closed"}]_channelVars

============================================================================
