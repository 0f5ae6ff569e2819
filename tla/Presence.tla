------------------------------ MODULE Presence ------------------------------
(* The realtime gateway, src/api/src/messaging/messaging.gateway.ts: the     *)
(* rooms of the connected sockets, the two maps behind presence, and what    *)
(* the clients show (realtime-provider.tsx).                                 *)
(*                                                                           *)
(* A handshake is asynchronous: it awaits the token's checks, then the       *)
(* conversations of the resident, then fills the maps in one go. Sockets     *)
(* disconnect and conversations are created at any of these points. Frames   *)
(* reach the sockets of a room in the order they are emitted.                *)
EXTENDS FiniteSets

CONSTANTS
  Resident,
  Socket,        \* connections; each is opened once
  Owner,         \* the resident who opens a socket
  Conversation,
  Member,        \* the participants of a conversation
  NoEntry        \* a key that a Map does not hold

ASSUME PresenceConstants ==
  /\ Owner \in [Socket -> Resident]
  /\ Member \in [Conversation -> SUBSET Resident]
  /\ \A S \in SUBSET Resident : NoEntry # S

VARIABLES
  stage,          \* how far handleConnection got with a socket
  linked,         \* sockets whose connection is up
  found,          \* the conversations a handshake read
  rooms,          \* the conversation rooms of a socket
  shown,          \* the residents a client shows as online
  socketsByUser,  \* empty where the Map holds no entry
  peersByUser,    \* conversationPeersByUser
  conversations,  \* the conversations in Mongo
  unannounced,    \* those whose creation was not followed yet by the call of
                  \* joinParticipantsToConversation
  left,           \* history: rooms a connected client asked to leave
  ghosts,         \* history: sockets set up after they had disconnected
  overtaken       \* history: residents whose handshake set up while one of
                  \* their conversations was unread or unannounced

history == <<left, ghosts, overtaken>>
presenceVars == <<stage, linked, found, rooms, shown, socketsByUser,
                  peersByUser, conversations, unannounced, history>>

mapVars == <<socketsByUser, peersByUser>>
talkVars == <<conversations, unannounced>>

Stage == {"new", "checking", "joined", "found", "ready", "closed"}

\* The sockets in the room user:u.
UserRoom(u) ==
  {s \in linked : Owner[s] = u /\ stage[s] \in {"joined", "found", "ready"}}

Online(u) == socketsByUser[u] # {}

ConversationsOf(u) == {c \in conversations : u \in Member[c]}

\* collectConversationPeers
PeersIn(u, convs) == (UNION {Member[c] : c \in convs}) \ {u}

\* What a client shows after a frame about u.
Update(s, u, online) == IF online THEN shown[s] \cup {u} ELSE shown[s] \ {u}

PresenceTypeOK ==
  /\ stage \in [Socket -> Stage]
  /\ linked \subseteq Socket
  /\ found \in [Socket -> SUBSET Conversation]
  /\ rooms \in [Socket -> SUBSET Conversation]
  /\ shown \in [Socket -> SUBSET Resident]
  /\ socketsByUser \in [Resident -> SUBSET Socket]
  /\ peersByUser \in [Resident -> {NoEntry} \cup SUBSET Resident]
  /\ conversations \subseteq Conversation
  /\ unannounced \subseteq conversations
  /\ left \in [Socket -> SUBSET Conversation]
  /\ ghosts \subseteq Socket
  /\ overtaken \subseteq Resident

PresenceInit ==
  /\ stage = [s \in Socket |-> "new"]
  /\ linked = {}
  /\ found = [s \in Socket |-> {}]
  /\ rooms = [s \in Socket |-> {}]
  /\ shown = [s \in Socket |-> {}]
  /\ socketsByUser = [u \in Resident |-> {}]
  /\ peersByUser = [u \in Resident |-> NoEntry]
  /\ conversations = {}
  /\ unannounced = {}
  /\ left = [s \in Socket |-> {}]
  /\ ghosts = {}
  /\ overtaken = {}

-----------------------------------------------------------------------------
\* handleConnection: a socket arrives with a token.
Connect(s) ==
  /\ stage[s] = "new"
  /\ stage' = [stage EXCEPT ![s] = "checking"]
  /\ linked' = linked \cup {s}
  /\ UNCHANGED <<found, rooms, shown, mapVars, talkVars, history>>

\* The token is good: the socket joins user:<id> before the conversations are
\* read. A socket that is gone joins nothing; the handshake goes on.
JoinUserRoom(s) ==
  /\ stage[s] = "checking"
  /\ stage' = [stage EXCEPT ![s] = "joined"]
  /\ UNCHANGED <<linked, found, rooms, shown, mapVars, talkVars, history>>

\* Mutant of ReadConversations: the handshake reads before it joins the room
\* of the resident.
ReadBeforeJoining(s) ==
  /\ stage[s] \in {"checking", "joined"}
  /\ IF stage[s] = "checking"
     THEN /\ found' = [found EXCEPT ![s] = ConversationsOf(Owner[s])]
          /\ UNCHANGED stage
     ELSE /\ stage' = [stage EXCEPT ![s] = "found"]
          /\ UNCHANGED found
  /\ UNCHANGED <<linked, rooms, shown, mapVars, talkVars, history>>

\* findConversations
ReadConversations(s) ==
  /\ stage[s] = "joined"
  /\ stage' = [stage EXCEPT ![s] = "found"]
  /\ found' = [found EXCEPT ![s] = ConversationsOf(Owner[s])]
  /\ UNCHANGED <<linked, rooms, shown, mapVars, talkVars, history>>

\* The token is refused or a read fails: the server disconnects the socket and
\* the handshake is over, be the socket there or not.
RefuseSocket(s) ==
  /\ stage[s] \in {"checking", "joined"}
  /\ stage' = [stage EXCEPT ![s] = "closed"]
  /\ linked' = linked \ {s}
  /\ rooms' = [rooms EXCEPT ![s] = {}]
  /\ shown' = [shown EXCEPT ![s] = {}]
  /\ left' = [left EXCEPT ![s] = {}]
  /\ UNCHANGED <<found, mapVars, talkVars, ghosts, overtaken>>

\* The rest of authenticateAndSetup, which awaits nothing more.
SetUp(s) ==
  LET u     == Owner[s]
      peers == PeersIn(u, found[s])
      after == [socketsByUser EXCEPT ![u] = @ \cup {s}]
      told  == IF Online(u) THEN {} ELSE UNION {UserRoom(p) : p \in peers}
      snapshot == {p \in peers : after[p] # {}}
  IN  /\ stage[s] = "found"
      /\ stage' = [stage EXCEPT ![s] = "ready"]
      /\ found' = [found EXCEPT ![s] = {}]
      /\ rooms' = [rooms EXCEPT ![s] =
                     IF s \in linked THEN @ \cup found[s] ELSE @]
      /\ peersByUser' = [peersByUser EXCEPT ![u] = peers]
      /\ socketsByUser' = after
      /\ shown' = [t \in Socket |->
                     IF t = s /\ s \in linked THEN snapshot
                     ELSE IF t \in told THEN Update(t, u, TRUE)
                     ELSE shown[t]]
      /\ ghosts' = IF s \in linked THEN ghosts ELSE ghosts \cup {s}
      /\ overtaken' =
           IF found[s] = ConversationsOf(u) /\ found[s] \cap unannounced = {}
           THEN overtaken ELSE overtaken \cup {u}
      /\ UNCHANGED <<linked, talkVars, left>>

\* Mutant of PeersToTell: the entry is deleted before its peers are told.
NobodyToTell(u) == {}

\* The peers that emitPresenceUpdate tells of u, none without an entry.
PeersToTell(u) == IF peersByUser[u] = NoEntry THEN {} ELSE peersByUser[u]

\* handleDisconnect. A socket that the map does not hold, because it has not
\* been set up yet, is ignored.
Disconnect(s) ==
  LET u    == Owner[s]
      rest == socketsByUser[u] \ {s}
      gone == s \in socketsByUser[u] /\ rest = {}
      told == IF gone THEN UNION {UserRoom(p) : p \in PeersToTell(u)} ELSE {}
  IN  /\ s \in linked
      /\ linked' = linked \ {s}
      /\ stage' = [stage EXCEPT ![s] = IF @ = "ready" THEN "closed" ELSE @]
      /\ rooms' = [rooms EXCEPT ![s] = {}]
      /\ socketsByUser' = [socketsByUser EXCEPT ![u] = rest]
      /\ peersByUser' = [peersByUser EXCEPT ![u] = IF gone THEN NoEntry ELSE @]
      /\ shown' = [t \in Socket |->
                     IF t = s THEN {}
                     ELSE IF t \in told THEN Update(t, u, FALSE)
                     ELSE shown[t]]
      /\ left' = [left EXCEPT ![s] = {}]
      /\ UNCHANGED <<found, talkVars, ghosts, overtaken>>

\* createConversation, findOrCreateDirect: the conversation is in Mongo.
CreateConversation(c) ==
  /\ c \notin conversations
  /\ conversations' = conversations \cup {c}
  /\ unannounced' = unannounced \cup {c}
  /\ UNCHANGED <<stage, linked, found, rooms, shown, mapVars, history>>

\* joinParticipantsToConversation with registerConversationPeers, after the
\* await of the creation; POST conversations/with repeats it at any time.
AnnounceConversation(c) ==
  LET joining == UNION {UserRoom(u) : u \in Member[c]}
      New(u)  == IF u \in Member[c] /\ peersByUser[u] # NoEntry
                 THEN Member[c] \ ({u} \cup peersByUser[u]) ELSE {}
  IN  /\ c \in conversations
      /\ unannounced' = unannounced \ {c}
      /\ rooms' = [s \in Socket |->
                     IF s \in joining THEN rooms[s] \cup {c} ELSE rooms[s]]
      /\ peersByUser' = [u \in Resident |->
                           IF peersByUser[u] = NoEntry THEN NoEntry
                           ELSE peersByUser[u] \cup New(u)]
      /\ shown' = [s \in Socket |->
                     IF s \in joining
                     THEN shown[s] \cup {p \in New(Owner[s]) : Online(p)}
                     ELSE shown[s]]
      /\ UNCHANGED <<stage, linked, found, socketsByUser, conversations, history>>

\* handleJoinConversation: the socket is authenticated and its resident is a
\* participant.
JoinConversation(s, c) ==
  /\ stage[s] = "ready" /\ s \in linked
  /\ c \in ConversationsOf(Owner[s])
  /\ rooms' = [rooms EXCEPT ![s] = @ \cup {c}]
  /\ UNCHANGED <<stage, linked, found, shown, mapVars, talkVars, history>>

\* handleLeaveConversation
LeaveConversation(s, c) ==
  /\ s \in linked /\ c \in rooms[s]
  /\ rooms' = [rooms EXCEPT ![s] = @ \ {c}]
  /\ left' = [left EXCEPT ![s] = @ \cup {c}]
  /\ UNCHANGED <<stage, linked, found, shown, mapVars, talkVars, ghosts,
                 overtaken>>

\* The API restarts: the maps are empty, every socket and every handshake is
\* gone, and with them what had not been announced.
RestartGateway ==
  /\ stage' = [s \in Socket |-> IF stage[s] = "new" THEN "new" ELSE "closed"]
  /\ linked' = {}
  /\ rooms' = [s \in Socket |-> {}]
  /\ shown' = [s \in Socket |-> {}]
  /\ socketsByUser' = [u \in Resident |-> {}]
  /\ peersByUser' = [u \in Resident |-> NoEntry]
  /\ found' = [s \in Socket |-> {}]
  /\ unannounced' = {}
  /\ left' = [s \in Socket |-> {}]
  /\ ghosts' = {}
  /\ overtaken' = {}
  /\ UNCHANGED conversations

PresenceNext ==
  \/ \E s \in Socket :
       \/ Connect(s)
       \/ JoinUserRoom(s)
       \/ ReadConversations(s)
       \/ RefuseSocket(s)
       \/ SetUp(s)
       \/ Disconnect(s)
       \/ \E c \in Conversation : JoinConversation(s, c)
       \/ \E c \in Conversation : LeaveConversation(s, c)
  \/ \E c \in Conversation : CreateConversation(c) \/ AnnounceConversation(c)
  \/ RestartGateway

PresenceSpec == PresenceInit /\ [][PresenceNext]_presenceVars

-----------------------------------------------------------------------------
Connected(s) == s \in linked /\ stage[s] = "ready"

\* A live socket misses no conversation: whether it was created before, during
\* or after the handshake, a message broadcast to its room reaches every
\* participant who did not leave it. messaging.gateway.ts:89-95, 247-265.
RoomsAreComplete ==
  \A s \in Socket :
    Connected(s) =>
      ConversationsOf(Owner[s]) \ unannounced \subseteq rooms[s] \cup left[s]

\* The maps tell who is connected, save for a socket lost in its handshake,
\* which stays in them for good, and every client shows a peer as online
\* exactly while the gateway holds a socket of theirs, unless the handshake of
\* one of the two was overtaken by a conversation.
\* messaging.gateway.ts:97-107, 141-153, 267-287.
PresenceIsAccurate ==
  /\ \A u \in Resident :
       socketsByUser[u] = {s \in Socket :
                             Owner[s] = u /\ (Connected(s) \/ s \in ghosts)}
  /\ \A s \in Socket, p \in Resident :
       ( /\ Connected(s)
         /\ p \in PeersIn(Owner[s], ConversationsOf(Owner[s]) \ unannounced)
         /\ {p, Owner[s]} \cap overtaken = {} )
       => (p \in shown[s] <=> Online(p))
=============================================================================
