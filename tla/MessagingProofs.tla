--------------------------- MODULE MessagingProofs ---------------------------
(* Theorems about messaging, for every value of the constants: the rooms and *)
(* the presence that the gateway keeps (Presence), and the thread and the    *)
(* badge of a conversation that a browser follows (Messaging).               *)
EXTENDS Presence, Messaging, FiniteSetTheorems, WellFoundedInduction, TLAPS

-----------------------------------------------------------------------------
(* Presence: rooms                                                           *)

\* What a socket misses at a stage of its handshake: nothing once it is ready,
\* what the handshake has read once it has.
RoomInv ==
  /\ DOMAIN stage = Socket /\ DOMAIN found = Socket
  /\ DOMAIN rooms = Socket /\ DOMAIN left = Socket
  /\ \A s \in Socket, c \in Conversation :
       /\ s \in linked
       /\ c \in conversations \ unannounced
       /\ Owner[s] \in Member[c]
       => /\ stage[s] = "found" => c \in found[s] \cup rooms[s] \cup left[s]
          /\ stage[s] = "ready" => c \in rooms[s] \cup left[s]
  /\ conversations \subseteq Conversation

LEMMA RoomInvStep == RoomInv /\ [PresenceNext]_presenceVars => RoomInv'
  <1> SUFFICES ASSUME RoomInv, [PresenceNext]_presenceVars PROVE RoomInv'
    OBVIOUS
  <1> USE PresenceConstants DEF RoomInv, history, mapVars, talkVars
  <1>1. ASSUME NEW s \in Socket, Connect(s) PROVE RoomInv'
    BY <1>1 DEF Connect
  <1>2. ASSUME NEW s \in Socket, JoinUserRoom(s) PROVE RoomInv'
    BY <1>2 DEF JoinUserRoom
  <1>3. ASSUME NEW s \in Socket, ReadConversations(s) PROVE RoomInv'
    BY <1>3 DEF ReadConversations, ConversationsOf
  <1>4. ASSUME NEW s \in Socket, RefuseSocket(s) PROVE RoomInv'
    BY <1>4 DEF RefuseSocket
  <1>5. ASSUME NEW s \in Socket, SetUp(s) PROVE RoomInv'
    <2>1. /\ stage' = [stage EXCEPT ![s] = "ready"]
          /\ found' = [found EXCEPT ![s] = {}]
          /\ rooms' = [rooms EXCEPT ![s] = IF s \in linked THEN @ \cup found[s]
                                           ELSE @]
          /\ stage[s] = "found"
          /\ UNCHANGED <<linked, conversations, unannounced, left>>
      BY <1>5 DEF SetUp
    <2> QED BY <2>1
  <1>6. ASSUME NEW s \in Socket, Disconnect(s) PROVE RoomInv'
    <2>1. /\ stage' = [stage EXCEPT ![s] = IF @ = "ready" THEN "closed" ELSE @]
          /\ linked' = linked \ {s}
          /\ rooms' = [rooms EXCEPT ![s] = {}]
          /\ left' = [left EXCEPT ![s] = {}]
          /\ UNCHANGED <<found, conversations, unannounced>>
      BY <1>6 DEF Disconnect
    <2> QED BY <2>1
  <1>7. ASSUME NEW s \in Socket, NEW c \in Conversation, JoinConversation(s, c)
        PROVE RoomInv'
    BY <1>7 DEF JoinConversation
  <1>8. ASSUME NEW s \in Socket, NEW c \in Conversation, LeaveConversation(s, c)
        PROVE RoomInv'
    BY <1>8 DEF LeaveConversation
  <1>9. ASSUME NEW c \in Conversation, CreateConversation(c) PROVE RoomInv'
    BY <1>9 DEF CreateConversation
  <1>10. ASSUME NEW c \in Conversation, AnnounceConversation(c) PROVE RoomInv'
    <2> DEFINE joining == UNION {UserRoom(u) : u \in Member[c]}
    <2>1. /\ unannounced' = unannounced \ {c}
          /\ rooms' = [s \in Socket |-> IF s \in joining THEN rooms[s] \cup {c}
                                        ELSE rooms[s]]
          /\ UNCHANGED <<stage, linked, found, left, conversations>>
      BY <1>10 DEF AnnounceConversation
    <2>2. \A s \in Socket : s \in linked /\ Owner[s] \in Member[c]
                              /\ stage[s] \in {"found", "ready"} => s \in joining
      BY DEF UserRoom
    <2> HIDE DEF joining
    <2> QED BY <2>1, <2>2
  <1>11. CASE RestartGateway
    BY <1>11 DEF RestartGateway
  <1>12. CASE UNCHANGED presenceVars
    BY <1>12 DEF presenceVars
  <1> QED
    BY <1>1, <1>2, <1>3, <1>4, <1>5, <1>6, <1>7, <1>8, <1>9, <1>10, <1>11,
       <1>12 DEF PresenceNext

\* No live socket misses a conversation that was announced, whenever it was
\* created, for any residents, sockets and conversations.
THEOREM RoomsComplete == PresenceSpec => []RoomsAreComplete
  <1>1. PresenceInit => RoomInv
    BY DEF PresenceInit, RoomInv
  <1>2. RoomInv => RoomsAreComplete
    BY DEF RoomInv, RoomsAreComplete, Connected, ConversationsOf
  <1> QED
    BY <1>1, <1>2, RoomInvStep, PTL DEF PresenceSpec

-----------------------------------------------------------------------------
(* Presence: the maps of the gateway and what the clients show               *)

\* Those with whom u shares a conversation that was announced.
Peers(u) == PeersIn(u, ConversationsOf(u) \ unannounced)

PresenceShape ==
  /\ stage \in [Socket -> Stage] /\ linked \subseteq Socket
  /\ found \in [Socket -> SUBSET Conversation] /\ conversations \subseteq Conversation
  /\ shown \in [Socket -> SUBSET Resident]
  /\ socketsByUser \in [Resident -> SUBSET Socket]
  /\ peersByUser \in [Resident -> {NoEntry} \cup SUBSET Resident]

\* A ghost is set up for good.
MapInv ==
  /\ \A u \in Resident :
       socketsByUser[u] = {s \in Socket : Owner[s] = u /\ (Connected(s) \/ s \in ghosts)}
  /\ \A s \in ghosts : s \in Socket \ linked /\ stage[s] = "ready"

\* The two maps have the same entries, and whoever was not overtaken has the
\* peers of the announced conversations, no more and no fewer.
EntryInv ==
  \A u \in Resident :
    /\ peersByUser[u] # NoEntry <=> Online(u)
    /\ Online(u) /\ u \notin overtaken => peersByUser[u] = Peers(u)

ShownInv ==
  \A s \in Socket, p \in Resident :
    Connected(s) /\ p \notin overtaken /\ Owner[s] \notin overtaken =>
      (p \in shown[s] <=> p \in Peers(Owner[s]) /\ Online(p))

AccurateInv == PresenceShape /\ MapInv /\ EntryInv /\ ShownInv

LEMMA PeersMeet ==
  ASSUME NEW u, NEW p
  PROVE  p \in Peers(u) <=>
           p # u /\ \E c \in conversations \ unannounced : u \in Member[c] /\ p \in Member[c]
  BY DEF Peers, PeersIn, ConversationsOf

LEMMA PeersAreResidents ==
  ASSUME NEW u, NEW convs \in SUBSET Conversation
  PROVE  PeersIn(u, convs) \in SUBSET Resident /\ PeersIn(u, convs) # NoEntry
  <1>1. \A c \in convs : Member[c] \in SUBSET Resident
    BY PresenceConstants
  <1>2. PeersIn(u, convs) \in SUBSET Resident
    BY <1>1 DEF PeersIn
  <1> QED
    BY <1>2, PresenceConstants

\* A step that none of the maps, the screens and the conversations takes part
\* in, and that sets no socket up or disconnects one that was.
LEMMA PresenceRests ==
  ASSUME AccurateInv, NEW s \in Socket,
         UNCHANGED <<socketsByUser, peersByUser, conversations, unannounced, ghosts,
                     overtaken>>,
         stage' = [stage EXCEPT ![s] = stage'[s]], stage'[s] \in Stage \ {"ready"},
         stage[s] # "ready", linked' \in SUBSET Socket,
         \A t \in Socket \ {s} : t \in linked' <=> t \in linked,
         shown' \in [Socket -> SUBSET Resident],
         \A t \in Socket \ {s} : shown'[t] = shown[t],
         found' \in [Socket -> SUBSET Conversation]
  PROVE  AccurateInv'
  <1>1. \A t \in Socket \ {s} : stage'[t] = stage[t]
    BY DEF AccurateInv, PresenceShape
  <1>2. /\ ~Connected(s) /\ ~Connected(s)'
        /\ \A t \in Socket \ {s} : Connected(t)' <=> Connected(t)
    BY <1>1 DEF Connected
  <1>3. \A t \in Socket : Connected(t)' <=> Connected(t)
    BY <1>2
  <1>4. PresenceShape'
    BY DEF AccurateInv, PresenceShape
  <1>5. MapInv'
    <2>1. s \notin ghosts
      BY DEF AccurateInv, MapInv
    <2>2. \A t \in ghosts : t \in Socket \ linked' /\ stage'[t] = "ready"
      BY <1>1, <2>1 DEF AccurateInv, MapInv
    <2>3. \A u \in Resident :
            socketsByUser[u] =
              {t \in Socket : Owner[t] = u /\ (Connected(t)' \/ t \in ghosts)}
      BY <1>3 DEF AccurateInv, MapInv
    <2> QED
      BY <2>2, <2>3 DEF MapInv
  <1>6. \A u : Peers(u)' = Peers(u) /\ (Online(u)' <=> Online(u))
    BY DEF Peers, ConversationsOf, Online
  <1>7. EntryInv'
    BY <1>6 DEF AccurateInv, EntryInv
  <1>8. ShownInv'
    BY <1>2, <1>6 DEF AccurateInv, ShownInv
  <1> QED
    BY <1>4, <1>5, <1>7, <1>8 DEF AccurateInv

\* A step on the rooms and the conversations' announcements alone.
LEMMA HandshakeKeeps ==
  ASSUME AccurateInv, NEW s \in Socket,
         Connect(s) \/ JoinUserRoom(s) \/ ReadConversations(s) \/ RefuseSocket(s)
  PROVE  AccurateInv'
  <1>t. /\ stage \in [Socket -> Stage] /\ linked \subseteq Socket
        /\ found \in [Socket -> SUBSET Conversation] /\ conversations \subseteq Conversation
        /\ shown \in [Socket -> SUBSET Resident]
    BY DEF AccurateInv, PresenceShape
  <1>1. CASE Connect(s)
    BY <1>1, <1>t, PresenceRests DEF Connect, Stage, mapVars, talkVars, history
  <1>2. CASE JoinUserRoom(s)
    BY <1>2, <1>t, PresenceRests DEF JoinUserRoom, Stage, mapVars, talkVars, history
  <1>3. CASE ReadConversations(s)
    BY <1>3, <1>t, PresenceRests
       DEF ReadConversations, ConversationsOf, Stage, mapVars, talkVars, history
  <1>4. CASE RefuseSocket(s)
    BY <1>4, <1>t, PresenceRests DEF RefuseSocket, Stage, mapVars, talkVars
  <1> QED
    BY <1>1, <1>2, <1>3, <1>4

\* The handshake ends: whoever was offline is shown to exactly those with whom
\* they share an announced conversation.
LEMMA SetUpKeeps ==
  ASSUME AccurateInv, NEW s \in Socket, SetUp(s) PROVE AccurateInv'
  <1> DEFINE u     == Owner[s]
             peers == PeersIn(u, found[s])
             told  == IF Online(u) THEN {} ELSE UNION {UserRoom(p) : p \in peers}
             after == [socketsByUser EXCEPT ![u] = @ \cup {s}]
  <1>1. /\ stage[s] = "found" /\ stage' = [stage EXCEPT ![s] = "ready"]
        /\ found' = [found EXCEPT ![s] = {}]
        /\ peersByUser' = [peersByUser EXCEPT ![u] = peers]
        /\ socketsByUser' = after
        /\ shown' = [t \in Socket |->
                       IF t = s /\ s \in linked THEN {p \in peers : after[p] # {}}
                       ELSE IF t \in told THEN Update(t, u, TRUE)
                       ELSE shown[t]]
        /\ ghosts' = IF s \in linked THEN ghosts ELSE ghosts \cup {s}
        /\ overtaken' =
             IF found[s] = ConversationsOf(u) /\ found[s] \cap unannounced = {}
             THEN overtaken ELSE overtaken \cup {u}
        /\ UNCHANGED <<linked, conversations, unannounced>>
    BY DEF SetUp, talkVars
  <1>t. /\ stage \in [Socket -> Stage] /\ linked \subseteq Socket
        /\ found \in [Socket -> SUBSET Conversation] /\ conversations \subseteq Conversation
        /\ shown \in [Socket -> SUBSET Resident]
        /\ socketsByUser \in [Resident -> SUBSET Socket]
        /\ peersByUser \in [Resident -> {NoEntry} \cup SUBSET Resident]
        /\ u \in Resident /\ found[s] \in SUBSET Conversation
    BY PresenceConstants DEF AccurateInv, PresenceShape
  <1>2. peers \in SUBSET Resident /\ peers # NoEntry
    BY <1>t, PeersAreResidents
  <1>3. u \notin overtaken' => peers = Peers(u) /\ u \notin overtaken
    BY <1>1 DEF Peers, ConversationsOf
  <1>4. overtaken \subseteq overtaken' /\ \A v : Peers(v)' = Peers(v)
    BY <1>1 DEF Peers, ConversationsOf
  <1>5. \A t \in Socket : \A v : t \in UserRoom(v) =>
          t \in linked /\ Owner[t] = v
    BY DEF UserRoom
  <1>6. \A t \in Socket : Connected(t) => t \in UserRoom(Owner[t])
    BY DEF UserRoom, Connected
  <1>7. \A v : Online(v) <=> socketsByUser[v] # {}
    BY DEF Online
  <1>8. \A v : Online(v)' <=> after[v] # {}
    BY <1>1 DEF Online
  <1>9. \A t \in told : ~Online(u) /\ Owner[t] \in peers
    BY <1>5 DEF UserRoom
  <1>10. \A t \in Socket : ~Online(u) /\ Connected(t) /\ Owner[t] \in peers => t \in told
    BY <1>6
  <1>11. u \notin peers
    BY DEF PeersIn
  <1> HIDE DEF u, peers, told, after
  <1>12. after \in [Resident -> SUBSET Socket] /\ after[u] = socketsByUser[u] \cup {s}
         /\ \A v \in Resident \ {u} : after[v] = socketsByUser[v]
    BY <1>t DEF after
  <1>13. \A t \in Socket \ {s} : Connected(t)' <=> Connected(t)
    BY <1>1, <1>t DEF Connected
  <1>14. ~Connected(s) /\ (Connected(s)' <=> s \in linked)
    BY <1>1, <1>t DEF Connected
  <1>15. PresenceShape'
    <2>1. \A t \in Socket : shown'[t] \in SUBSET Resident
      BY <1>1, <1>t, <1>2 DEF Update
    <2>2. shown' \in [Socket -> SUBSET Resident]
      BY <1>1, <2>1
    <2> QED
      BY <1>1, <1>t, <1>2, <1>12, <2>2 DEF PresenceShape, Stage
  <1>16. MapInv'
    <2>1. \A t \in ghosts' : t \in Socket \ linked' /\ stage'[t] = "ready"
      BY <1>1, <1>t DEF AccurateInv, MapInv
    <2>2. ASSUME NEW v \in Resident
          PROVE  socketsByUser'[v] =
                   {t \in Socket : Owner[t] = v /\ (Connected(t)' \/ t \in ghosts')}
      <3>1. socketsByUser[v] =
              {t \in Socket : Owner[t] = v /\ (Connected(t) \/ t \in ghosts)}
        BY DEF AccurateInv, MapInv
      <3>2. socketsByUser'[v] = IF v = u THEN socketsByUser[v] \cup {s} ELSE socketsByUser[v]
        BY <1>1, <1>12
      <3>3. \A t \in Socket : Connected(t)' \/ t \in ghosts' <=>
                                t = s \/ Connected(t) \/ t \in ghosts
        BY <1>1, <1>13, <1>14
      <3> QED
        BY <3>1, <3>2, <3>3 DEF u
    <2> QED
      BY <2>1, <2>2 DEF MapInv
  <1>17. EntryInv'
    <2> SUFFICES ASSUME NEW v \in Resident
                 PROVE  /\ peersByUser'[v] # NoEntry <=> Online(v)'
                        /\ Online(v)' /\ v \notin overtaken' => peersByUser'[v] = Peers(v)
      BY <1>4 DEF EntryInv
    <2>1. CASE v = u
      BY <1>1, <1>2, <1>3, <1>8, <1>12, <1>t, <2>1
    <2>2. CASE v # u
      <3>1. peersByUser'[v] = peersByUser[v] /\ (Online(v)' <=> Online(v))
        BY <1>1, <1>7, <1>8, <1>12, <1>t, <2>2
      <3> QED
        BY <1>4, <3>1 DEF AccurateInv, EntryInv
    <2> QED
      BY <2>1, <2>2
  <1>18. ShownInv'
    <2> SUFFICES ASSUME NEW t \in Socket, NEW p \in Resident, Connected(t)',
                        p \notin overtaken', Owner[t] \notin overtaken'
                 PROVE  p \in shown'[t] <=> p \in Peers(Owner[t]) /\ Online(p)'
      BY <1>4 DEF ShownInv
    <2>1. CASE t = s
      <3>1. s \in linked /\ shown'[t] = {q \in peers : after[q] # {}}
        BY <1>1, <1>14, <2>1
      <3>2. peers = Peers(u)
        BY <1>3, <2>1 DEF u
      <3> QED
        BY <1>8, <2>1, <3>1, <3>2 DEF u
    <2>2. CASE t # s
      <3>1. /\ Connected(t) /\ p \notin overtaken /\ Owner[t] \notin overtaken
            /\ p \in shown[t] <=> p \in Peers(Owner[t]) /\ Online(p)
        BY <1>4, <1>13, <2>2 DEF AccurateInv, ShownInv
      <3>2. p \in shown'[t] <=> p \in shown[t] \/ (t \in told /\ p = u)
        BY <1>1, <2>2 DEF Update
      <3>3. CASE p # u
        BY <1>7, <1>8, <1>12, <3>1, <3>2, <3>3
      <3>4. CASE p = u
        <4>1. Online(p)' /\ peers = Peers(u)
          BY <1>3, <1>8, <1>12, <1>t, <3>4
        <4>2. Owner[t] \in Peers(u) <=> u \in Peers(Owner[t])
          BY PeersMeet
        <4>3. ~Online(u) => (t \in told <=> Owner[t] \in peers)
          BY <1>9, <1>10, <3>1
        <4> QED
          BY <1>9, <3>1, <3>2, <3>4, <4>1, <4>2, <4>3
      <3> QED
        BY <3>3, <3>4
    <2> QED
      BY <2>1, <2>2
  <1> QED
    BY <1>15, <1>16, <1>17, <1>18 DEF AccurateInv

\* The last socket of a resident goes: the peers that the map holds are those
\* whose clients show them.
LEMMA DisconnectKeeps ==
  ASSUME AccurateInv, NEW s \in Socket, Disconnect(s) PROVE AccurateInv'
  <1> DEFINE u    == Owner[s]
             rest == socketsByUser[u] \ {s}
             gone == s \in socketsByUser[u] /\ rest = {}
             told == IF gone THEN UNION {UserRoom(p) : p \in PeersToTell(u)} ELSE {}
  <1>1. /\ s \in linked /\ linked' = linked \ {s}
        /\ stage' = [stage EXCEPT ![s] = IF @ = "ready" THEN "closed" ELSE @]
        /\ socketsByUser' = [socketsByUser EXCEPT ![u] = rest]
        /\ peersByUser' = [peersByUser EXCEPT ![u] = IF gone THEN NoEntry ELSE @]
        /\ shown' = [t \in Socket |->
                       IF t = s THEN {}
                       ELSE IF t \in told THEN Update(t, u, FALSE)
                       ELSE shown[t]]
        /\ UNCHANGED <<found, conversations, unannounced, ghosts, overtaken>>
    BY DEF Disconnect, talkVars
  <1>t. /\ stage \in [Socket -> Stage] /\ linked \subseteq Socket
        /\ found \in [Socket -> SUBSET Conversation] /\ conversations \subseteq Conversation
        /\ shown \in [Socket -> SUBSET Resident]
        /\ socketsByUser \in [Resident -> SUBSET Socket]
        /\ peersByUser \in [Resident -> {NoEntry} \cup SUBSET Resident]
        /\ u \in Resident
    BY PresenceConstants DEF AccurateInv, PresenceShape
  <1>2. \A v : Peers(v)' = Peers(v)
    BY <1>1 DEF Peers, ConversationsOf
  <1>3. \A v : Online(v) <=> socketsByUser[v] # {}
    BY DEF Online
  <1>4. \A v : Online(v)' <=> socketsByUser'[v] # {}
    BY DEF Online
  <1>5. \A t \in Socket : Connected(t) /\ gone /\ Owner[t] \in PeersToTell(u) => t \in told
    BY DEF UserRoom, Connected
  <1> HIDE DEF told
  <1>6. \A t \in Socket \ {s} : Connected(t)' <=> Connected(t)
    BY <1>1, <1>t DEF Connected
  <1>7. ~Connected(s)'
    BY <1>1 DEF Connected
  <1>8. s \notin ghosts
    BY <1>1 DEF AccurateInv, MapInv
  <1>9. \A v \in Resident : socketsByUser'[v] = IF v = u THEN rest ELSE socketsByUser[v]
    BY <1>1, <1>t
  <1>10. \A v \in Resident :
           peersByUser'[v] = IF v = u /\ gone THEN NoEntry ELSE peersByUser[v]
    BY <1>1, <1>t
  <1>11. PresenceShape'
    <2>1. \A t \in Socket : shown'[t] \in SUBSET Resident
      BY <1>1, <1>t DEF Update
    <2>2. shown' \in [Socket -> SUBSET Resident]
      BY <1>1, <2>1
    <2>3. stage' \in [Socket -> Stage]
      BY <1>1, <1>t DEF Stage
    <2> QED
      BY <1>1, <1>t, <2>2, <2>3 DEF PresenceShape
  <1>12. MapInv'
    <2>1. \A t \in ghosts' : t \in Socket \ linked' /\ stage'[t] = "ready"
      BY <1>1, <1>t, <1>8 DEF AccurateInv, MapInv
    <2>2. ASSUME NEW v \in Resident
          PROVE  socketsByUser'[v] =
                   {t \in Socket : Owner[t] = v /\ (Connected(t)' \/ t \in ghosts')}
      <3>1. socketsByUser[v] =
              {t \in Socket : Owner[t] = v /\ (Connected(t) \/ t \in ghosts)}
        BY DEF AccurateInv, MapInv
      <3>2. socketsByUser'[v] = socketsByUser[v] \ {s}
        BY <1>9, <3>1
      <3>3. \A t \in Socket : Connected(t)' \/ t \in ghosts' <=>
                                t # s /\ (Connected(t) \/ t \in ghosts)
        BY <1>1, <1>6, <1>7, <1>8
      <3> QED
        BY <3>1, <3>2, <3>3
    <2> QED
      BY <2>1, <2>2 DEF MapInv
  <1>13. EntryInv'
    <2> SUFFICES ASSUME NEW v \in Resident
                 PROVE  /\ peersByUser'[v] # NoEntry <=> Online(v)'
                        /\ Online(v)' /\ v \notin overtaken => peersByUser'[v] = Peers(v)
      BY <1>1, <1>2 DEF EntryInv
    <2>1. /\ peersByUser[v] # NoEntry <=> Online(v)
          /\ Online(v) /\ v \notin overtaken => peersByUser[v] = Peers(v)
      BY DEF AccurateInv, EntryInv
    <2>2. v = u /\ gone => ~Online(v)'
      BY <1>4, <1>9
    <2>3. ~(v = u /\ gone) => (Online(v)' <=> Online(v))
      BY <1>3, <1>4, <1>9, <1>t
    <2> QED
      BY <1>10, <2>1, <2>2, <2>3
  <1>14. ShownInv'
    <2> SUFFICES ASSUME NEW t \in Socket, NEW p \in Resident, Connected(t)',
                        p \notin overtaken, Owner[t] \notin overtaken
                 PROVE  p \in shown'[t] <=> p \in Peers(Owner[t]) /\ Online(p)'
      BY <1>1, <1>2 DEF ShownInv
    <2>1. t # s /\ Connected(t)
      BY <1>6, <1>7
    <2>2. p \in shown[t] <=> p \in Peers(Owner[t]) /\ Online(p)
      BY <2>1 DEF AccurateInv, ShownInv
    <2>3. p \in shown'[t] <=> p \in shown[t] /\ ~(t \in told /\ p = u)
      BY <1>1, <2>1 DEF Update
    <2>4. t \in told => gone
      BY DEF told
    <2>5. CASE p # u \/ ~gone
      <3>1. Online(p)' <=> Online(p)
        BY <1>3, <1>4, <1>9, <1>t, <2>5
      <3> QED
        BY <2>2, <2>3, <2>4, <2>5, <3>1
    <2>6. CASE p = u /\ gone
      <3>1. ~Online(p)' /\ Online(u)
        BY <1>3, <1>4, <1>9, <2>6
      <3>2. PeersToTell(u) = Peers(u)
        BY <1>t, <2>6, <3>1 DEF PeersToTell, AccurateInv, EntryInv
      <3>3. u \in Peers(Owner[t]) <=> Owner[t] \in Peers(u)
        BY PeersMeet
      <3> QED
        BY <1>5, <2>1, <2>2, <2>3, <2>6, <3>1, <3>2, <3>3
    <2> QED
      BY <2>5, <2>6
  <1> QED
    BY <1>11, <1>12, <1>13, <1>14 DEF AccurateInv

\* The participants of a conversation become peers, and those who are online
\* are shown to the others.
LEMMA AnnounceKeeps ==
  ASSUME AccurateInv, NEW c \in Conversation, AnnounceConversation(c)
  PROVE  AccurateInv'
  <1> DEFINE joining == UNION {UserRoom(u) : u \in Member[c]}
             Fresh(u) == IF u \in Member[c] /\ peersByUser[u] # NoEntry
                         THEN Member[c] \ ({u} \cup peersByUser[u]) ELSE {}
  <1>1. /\ c \in conversations /\ unannounced' = unannounced \ {c}
        /\ peersByUser' = [u \in Resident |->
                             IF peersByUser[u] = NoEntry THEN NoEntry
                             ELSE peersByUser[u] \cup Fresh(u)]
        /\ shown' = [s \in Socket |->
                       IF s \in joining
                       THEN shown[s] \cup {p \in Fresh(Owner[s]) : Online(p)}
                       ELSE shown[s]]
        /\ UNCHANGED <<stage, linked, found, socketsByUser, conversations, ghosts, overtaken>>
    BY DEF AnnounceConversation, history
  <1>t. /\ shown \in [Socket -> SUBSET Resident]
        /\ peersByUser \in [Resident -> {NoEntry} \cup SUBSET Resident]
        /\ Member[c] \in SUBSET Resident
        /\ \A s \in Socket : Owner[s] \in Resident
    BY PresenceConstants DEF AccurateInv, PresenceShape
  <1>2. \A s \in Socket : Connected(s) => (s \in joining <=> Owner[s] \in Member[c])
    BY DEF UserRoom, Connected
  <1> HIDE DEF joining
  <1>3. \A u : Fresh(u) \subseteq Resident
    BY <1>t
  <1>4. \A u : Peers(u)' = IF u \in Member[c] THEN Peers(u) \cup (Member[c] \ {u})
                           ELSE Peers(u)
    <2> SUFFICES ASSUME NEW u, NEW p
                 PROVE  p \in Peers(u)' <=>
                          p \in Peers(u) \/ (u \in Member[c] /\ p \in Member[c] /\ p # u)
      OBVIOUS
    <2>1. p \in Peers(u)' <=>
            p # u /\ \E d \in conversations' \ unannounced' :
                       u \in Member[d] /\ p \in Member[d]
      BY DEF Peers, PeersIn, ConversationsOf
    <2>2. conversations' \ unannounced' = (conversations \ unannounced) \cup {c}
      BY <1>1
    <2> QED
      BY <2>1, <2>2, PeersMeet
  <1>5. \A u : Online(u)' <=> Online(u)
    BY <1>1 DEF Online
  <1>6. \A s : Connected(s)' <=> Connected(s)
    BY <1>1 DEF Connected
  <1>7. \A u \in Resident :
          peersByUser[u] # NoEntry => /\ peersByUser[u] \in SUBSET Resident
                                      /\ peersByUser'[u] = peersByUser[u] \cup Fresh(u)
    BY <1>1, <1>t
  <1>8. \A u \in Resident : peersByUser'[u] # NoEntry <=> peersByUser[u] # NoEntry
    <2> SUFFICES ASSUME NEW u \in Resident, peersByUser[u] # NoEntry
                 PROVE  peersByUser'[u] # NoEntry
      BY <1>1
    <2>1. peersByUser[u] \cup Fresh(u) \in SUBSET Resident
      BY <1>3, <1>7
    <2> QED
      BY <1>7, <2>1, PresenceConstants
  <1>9. PresenceShape'
    <2>1. shown' \in [Socket -> SUBSET Resident]
      <3>1. \A s \in Socket : shown'[s] \in SUBSET Resident
        BY <1>1, <1>t, <1>3
      <3> QED
        BY <1>1, <3>1
    <2>2. peersByUser' \in [Resident -> {NoEntry} \cup SUBSET Resident]
      <3>1. \A u \in Resident : peersByUser'[u] \in {NoEntry} \cup SUBSET Resident
        BY <1>1, <1>3, <1>7
      <3> QED
        BY <1>1, <3>1
    <2> QED
      BY <1>1, <2>1, <2>2 DEF AccurateInv, PresenceShape
  <1>10. MapInv'
    BY <1>1 DEF AccurateInv, MapInv, Connected
  <1>11. EntryInv'
    <2> SUFFICES ASSUME NEW u \in Resident
                 PROVE  /\ peersByUser'[u] # NoEntry <=> Online(u)
                        /\ Online(u) /\ u \notin overtaken => peersByUser'[u] = Peers(u)'
      BY <1>1, <1>5 DEF EntryInv
    <2>1. /\ peersByUser[u] # NoEntry <=> Online(u)
          /\ Online(u) /\ u \notin overtaken => peersByUser[u] = Peers(u)
      BY DEF AccurateInv, EntryInv
    <2>2. ASSUME Online(u), u \notin overtaken PROVE peersByUser'[u] = Peers(u)'
      <3>1. peersByUser'[u] = peersByUser[u] \cup Fresh(u) /\ peersByUser[u] = Peers(u)
        BY <1>7, <2>1, <2>2
      <3>2. Peers(u) \cup Fresh(u) = Peers(u)'
        BY <1>4, <2>1, <2>2, <3>1
      <3> QED
        BY <3>1, <3>2
    <2> QED
      BY <1>8, <2>1, <2>2
  <1>12. ShownInv'
    <2> SUFFICES ASSUME NEW s \in Socket, NEW p \in Resident, Connected(s),
                        p \notin overtaken, Owner[s] \notin overtaken
                 PROVE  p \in shown'[s] <=> p \in Peers(Owner[s])' /\ Online(p)
      BY <1>1, <1>5, <1>6 DEF ShownInv
    <2>1. p \in shown[s] <=> p \in Peers(Owner[s]) /\ Online(p)
      BY DEF AccurateInv, ShownInv
    <2>2. Online(Owner[s])
      <3>1. s \in socketsByUser[Owner[s]]
        BY <1>t DEF AccurateInv, MapInv
      <3> QED
        BY <3>1 DEF Online
    <2>3. peersByUser[Owner[s]] # NoEntry /\ peersByUser[Owner[s]] = Peers(Owner[s])
      BY <1>t, <2>2 DEF AccurateInv, EntryInv
    <2>4. s \in joining <=> Owner[s] \in Member[c]
      BY <1>2
    <2>5. Owner[s] \in Member[c] =>
            (p \in Fresh(Owner[s]) <=> p \in Member[c] /\ p # Owner[s] /\ p \notin Peers(Owner[s]))
      BY <2>3
    <2> HIDE DEF Fresh
    <2>6. p \in shown'[s] <=> p \in shown[s] \/ (s \in joining /\ p \in Fresh(Owner[s]) /\ Online(p))
      BY <1>1
    <2> QED
      BY <1>4, <2>1, <2>4, <2>5, <2>6
  <1> QED
    BY <1>9, <1>10, <1>11, <1>12 DEF AccurateInv

LEMMA AccurateStep == ASSUME AccurateInv, [PresenceNext]_presenceVars PROVE AccurateInv'
  <1>1. ASSUME NEW s \in Socket,
               Connect(s) \/ JoinUserRoom(s) \/ ReadConversations(s) \/ RefuseSocket(s)
        PROVE  AccurateInv'
    BY <1>1, HandshakeKeeps
  <1>2. ASSUME NEW s \in Socket, SetUp(s) \/ Disconnect(s) PROVE AccurateInv'
    BY <1>2, SetUpKeeps, DisconnectKeeps
  <1>3. ASSUME NEW s \in Socket, NEW c \in Conversation,
               JoinConversation(s, c) \/ LeaveConversation(s, c)
        PROVE  AccurateInv'
    <2>1. UNCHANGED <<stage, linked, found, shown, socketsByUser, peersByUser, conversations,
                      unannounced, ghosts, overtaken>>
      BY <1>3 DEF JoinConversation, LeaveConversation, mapVars, talkVars, history
    <2> QED
      BY <2>1 DEF AccurateInv, PresenceShape, MapInv, EntryInv, ShownInv, Connected, Online,
        Peers, ConversationsOf
  <1>4. ASSUME NEW c \in Conversation, CreateConversation(c) PROVE AccurateInv'
    <2>1. /\ conversations' \ unannounced' = conversations \ unannounced
          /\ conversations' \subseteq Conversation \/ ~(conversations \subseteq Conversation)
          /\ UNCHANGED <<stage, linked, found, shown, socketsByUser, peersByUser, ghosts, overtaken>>
      BY <1>4 DEF CreateConversation, mapVars, history
    <2>2. \A u : Peers(u)' = Peers(u)
      BY <2>1 DEF Peers, PeersIn, ConversationsOf
    <2> QED
      BY <2>1, <2>2 DEF AccurateInv, PresenceShape, MapInv, EntryInv, ShownInv, Connected, Online
  <1>5. ASSUME NEW c \in Conversation, AnnounceConversation(c) PROVE AccurateInv'
    BY <1>5, AnnounceKeeps
  <1>6. CASE RestartGateway
    <2>1. /\ \A s \in Socket : ~Connected(s)'
          /\ \A u \in Resident : ~Online(u)' /\ peersByUser'[u] = NoEntry /\ socketsByUser'[u] = {}
          /\ ghosts' = {}
      BY <1>6 DEF RestartGateway, Connected, Online
    <2>2. PresenceShape'
      BY <1>6 DEF RestartGateway, AccurateInv, PresenceShape, Stage
    <2>3. MapInv'
      BY <2>1 DEF MapInv
    <2>4. EntryInv' /\ ShownInv'
      BY <2>1 DEF EntryInv, ShownInv
    <2> QED
      BY <2>2, <2>3, <2>4 DEF AccurateInv
  <1>7. CASE UNCHANGED presenceVars
    BY <1>7 DEF presenceVars, history, AccurateInv, PresenceShape, MapInv, EntryInv, ShownInv,
      Connected, Online, Peers, ConversationsOf
  <1> QED
    BY <1>1, <1>2, <1>3, <1>4, <1>5, <1>6, <1>7 DEF PresenceNext

\* The gateway holds the sockets that are up, and those lost in their handshake,
\* and every client shows exactly the peers who are online, through handshakes,
\* disconnections, new conversations and restarts in any order, for any
\* residents and sockets (messaging.gateway.ts:97-107, 141-153, 267-287).
THEOREM PresenceFollows == PresenceSpec => []PresenceIsAccurate
  <1>1. PresenceInit => AccurateInv
    <2> SUFFICES ASSUME PresenceInit PROVE AccurateInv
      OBVIOUS
    <2>1. /\ \A s \in Socket : ~Connected(s)
          /\ \A u \in Resident : ~Online(u)
      BY DEF PresenceInit, Connected, Online
    <2> QED
      BY <2>1 DEF PresenceInit, AccurateInv, PresenceShape, Stage, MapInv, EntryInv, ShownInv
  <1>2. AccurateInv => PresenceIsAccurate
    BY DEF AccurateInv, MapInv, ShownInv, Peers, PresenceIsAccurate
  <1> QED
    BY <1>1, <1>2, AccurateStep, PTL DEF PresenceSpec

-----------------------------------------------------------------------------
(* A conversation that a browser follows                                     *)

\* The event of the message is still on its way to the browser.
OnWire(m) == \E i \in DOMAIN wire : wire[i].type = "new_message" /\ wire[i].message = m

\* Messages that the socket has brought.
Delivered == {m \in messages : send[m] = "sent" /\ ~OnWire(m)}

\* A marker of this date or a later one is stored or will be.
Reached(d) ==
  \/ readTo >= d
  \/ \E k \in Mark : mark[k].pc = "asked" \/ (mark[k].pc = "write" /\ mark[k].readAt >= d)

MessageInv ==
  /\ IsFiniteSet(messages)
  /\ \A m \in Message : m \in messages <=> send[m] \in {"announce", "sent"}
  /\ \A m \in Message : createdAt[m] <= date

\* A message is broadcast once, and acknowledged after that.
WireInv ==
  /\ \A i \in DOMAIN wire : send[wire[i].message] = "sent"
  /\ \A i, j \in DOMAIN wire :
       i < j /\ wire[i].message = wire[j].message =>
         wire[i].type = "new_message" /\ wire[j].type = "ack"

\* Pages only grow, and the thread holds nothing that was not delivered.
PageInv ==
  /\ ~open => local = <<>>
  /\ \A i \in DOMAIN local : local[i] \in Delivered
  /\ Cached(page) \subseteq messages
  /\ pageFetch.pc = "read" =>
       Cached(page) \subseteq pageFetch.rows /\ pageFetch.rows \subseteq messages

CompleteInv == Delivered \ missed \subseteq Shown(page, local)

NewestInv == newest <= date /\ (open => Reached(newest))

\* A message that an open thread got and no marker reaches is on its way again
\* with a page that holds every message delivered so far: LastOf will be at
\* least its date.
ReadInv ==
  open =>
    \A m \in Delivered \ Own :
      \/ Reached(createdAt[m])
      \/ /\ page # NoPage
         /\ \/ pageFetch.pc = "asked"
            \/ pageFetch.pc = "read" /\ Delivered \subseteq pageFetch.rows

\* Something is on its way that will have the list fetched again.
Outdated ==
  \/ \E m \in Message : send[m] = "announce"
  \/ \E m \in Message : OnWire(m)
  \/ \E k \in Mark : mark[k].pc # "idle"

BadgeInv ==
  ~Outdated =>
    /\ listFetch.pc = "idle" => badge = Unread(lastReadAt)
    /\ listFetch.pc = "marker" => listFetch.readAt = lastReadAt
    /\ listFetch.pc = "counted" => listFetch.count = Unread(lastReadAt)

MessagingInv ==
  /\ MessagingTypeOK /\ MessageInv /\ WireInv /\ PageInv /\ CompleteInv
  /\ NewestInv /\ ReadInv /\ BadgeInv

-----------------------------------------------------------------------------
\* A nonempty set of bounded numbers has a greatest element.
LEMMA GreatestNumber ==
  ASSUME NEW M \in Nat, NEW T, T \subseteq 0..M, T # {}
  PROVE  Max(T) \in T /\ \A n \in T : n <= Max(T)
<1> DEFINE U == {k \in Nat : \A n \in T : n <= k}
<1>1. M \in U
  OBVIOUS
<1>2. \E x \in U : \A y \in U : <<y, x>> \notin OpToRel(<, Nat)
  <2>1. U \subseteq Nat /\ U # {}
    BY <1>1
  <2> HIDE DEF U
  <2>2. QED
    BY <2>1, NatLessThanWellFounded, WFMin
<1>3. PICK x \in U : \A y \in U : <<y, x>> \notin OpToRel(<, Nat)
  BY <1>2
<1>4. \A y \in U : ~ (y < x)
  <2>1. SUFFICES ASSUME NEW y \in U, y < x PROVE FALSE
    OBVIOUS
  <2>2. <<y, x>> \in Nat \X Nat /\ <<y, x>>[1] < <<y, x>>[2]
    BY <2>1
  <2> QED
    BY <1>3, <2>2 DEF OpToRel
<1>5. x \in T
  <2>1. SUFFICES ASSUME x \notin T PROVE FALSE
    OBVIOUS
  <2>2. PICK t \in T : TRUE
    OBVIOUS
  <2>3. x - 1 \in U
    BY <2>1, <2>2
  <2> QED
    BY <2>3, <1>4
<1> QED
  BY <1>5 DEF Max

\* What the effect of the thread depends on: LastOf is the date of a message
\* that is shown, of the last one that only the socket brought, if any.
LEMMA LastOfThread ==
  ASSUME MessagingTypeOK, MessageInv, NEW cache \in {NoPage} \cup SUBSET Message,
         NEW got \in Seq(Message)
  PROVE  /\ LastOf(cache, got) \in Date /\ LastOf(cache, got) <= date
         /\ (\A i \in DOMAIN got : got[i] \in Cached(cache)) =>
              \A m \in Cached(cache) : createdAt[m] <= LastOf(cache, got)
         /\ \A m \in Message :
              /\ Len(got) > 0 /\ got[Len(got)] = m /\ m \notin Cached(cache)
              => LastOf(cache, got) = createdAt[m]
<1> DEFINE extra == {i \in DOMAIN got : got[i] \notin Cached(cache)}
           dates == {createdAt[m] : m \in Cached(cache)}
<1> USE MessagingConstants
<1>1. /\ createdAt \in [Message -> Date] /\ \A m \in Message : createdAt[m] <= date
      /\ date \in Nat /\ MaxDate \in Nat /\ Cached(cache) \subseteq Message
  BY DEF MessagingTypeOK, MessageInv, Cached, Date
<1>2. Len(got) \in Nat /\ DOMAIN got = 1 .. Len(got) /\ \A i \in DOMAIN got : got[i] \in Message
  OBVIOUS
<1>3. extra # {} => Max(extra) \in extra /\ \A i \in extra : i <= Max(extra)
  <2>1. extra \subseteq 0 .. Len(got)
    BY <1>2
  <2> HIDE DEF extra
  <2>2. QED
    BY <2>1, <1>2, GreatestNumber
<1>4. dates # {} => Max(dates) \in dates /\ \A d \in dates : d <= Max(dates)
  <2>1. dates \subseteq 0 .. MaxDate
    BY <1>1 DEF Date
  <2> HIDE DEF dates
  <2>2. QED
    BY <2>1, <1>1, GreatestNumber
<1>5. LastOf(cache, got) = IF extra # {} THEN createdAt[got[Max(extra)]]
                           ELSE IF dates # {} THEN Max(dates) ELSE 0
  BY DEF LastOf
<1>6. CASE extra # {}
  <2>1. Max(extra) \in extra /\ \A i \in extra : i <= Max(extra)
    BY <1>3, <1>6
  <2>2. got[Max(extra)] \in Message /\ LastOf(cache, got) = createdAt[got[Max(extra)]]
    BY <2>1, <1>2, <1>5, <1>6
  <2>3. LastOf(cache, got) \in Date /\ LastOf(cache, got) <= date
    BY <2>2, <1>1
  <2>4. ASSUME NEW m \in Message, Len(got) > 0, got[Len(got)] = m, m \notin Cached(cache)
        PROVE  LastOf(cache, got) = createdAt[m]
    <3>1. Len(got) \in extra /\ Max(extra) \in 1 .. Len(got)
      BY <2>1, <2>4, <1>2
    <3>2. Len(got) <= Max(extra)
      BY <3>1, <2>1
    <3>3. Max(extra) = Len(got)
      BY <3>1, <3>2, <1>2
    <3> QED
      BY <3>3, <2>2, <2>4
  <2>5. ~ \A i \in DOMAIN got : got[i] \in Cached(cache)
    BY <1>6
  <2> QED
    BY <2>3, <2>4, <2>5
<1>7. CASE extra = {}
  <2>1. ASSUME NEW m \in Message, Len(got) > 0, got[Len(got)] = m PROVE m \in Cached(cache)
    BY <2>1, <1>2, <1>7
  <2>2. CASE dates # {}
    <3>1. Max(dates) \in dates /\ (\A d \in dates : d <= Max(dates))
          /\ LastOf(cache, got) = Max(dates)
      BY <2>2, <1>4, <1>5, <1>7
    <3>2. LastOf(cache, got) \in Date /\ LastOf(cache, got) <= date
      BY <3>1, <1>1
    <3>3. \A m \in Cached(cache) : createdAt[m] <= LastOf(cache, got)
      BY <3>1
    <3> QED
      BY <2>1, <3>2, <3>3
  <2>3. CASE dates = {}
    <3>1. LastOf(cache, got) = 0 /\ Cached(cache) = {}
      BY <2>3, <1>5, <1>7
    <3> QED
      BY <2>1, <3>1, <1>1 DEF Date
  <2> QED
    BY <2>2, <2>3
<1> QED
  BY <1>6, <1>7

\* The effect posts a marker, or nothing changes.
LEMMA EffectMarks ==
  ASSUME MessagingTypeOK, MessageInv, NEW cache \in {NoPage} \cup SUBSET Message,
         NEW got \in Seq(Message), NEW mounts \in BOOLEAN, Effect(mounts, cache, got)
  PROVE  /\ newest' = LastOf(cache, got)
         /\ newest' \in Date /\ newest' <= date /\ badge' \in Nat
         /\ mark' \in [Mark -> [pc : {"idle", "asked", "write", "answered"}, readAt : Date]]
         /\ \/ \E k \in Mark : mark'[k].pc = "asked"
            \/ ~mounts /\ newest' = newest /\ mark' = mark /\ badge' = badge
<1>1. newest' = LastOf(cache, got) /\ newest' \in Date /\ newest' <= date
  BY LastOfThread DEF Effect
<1>2. CASE mounts \/ newest' # newest
  <2>1. PICK k \in Mark : mark' = [mark EXCEPT ![k].pc = "asked"]
    BY <1>2 DEF Effect
  <2>2. badge' = 0
    BY <1>2 DEF Effect
  <2> QED
    BY <1>1, <2>1, <2>2 DEF MessagingTypeOK
<1>3. CASE ~ (mounts \/ newest' # newest)
  BY <1>1, <1>3 DEF Effect, MessagingTypeOK
<1> QED
  BY <1>2, <1>3

-----------------------------------------------------------------------------
LEMMA MessagingInitially == MessagingInit => MessagingInv
<1> SUFFICES ASSUME MessagingInit PROVE MessagingInv
  OBVIOUS
<1> USE MessagingConstants DEF MessagingInit
<1>1. MaxDate \in Nat /\ 1 \in 1 .. MaxDate
  OBVIOUS
<1>2. MessagingTypeOK
  <2>1. wire \in Seq(SocketEvent) /\ local \in Seq(Message)
    OBVIOUS
  <2>2. 0 \in Date /\ (1 \in Nat) /\ date \in Nat
    BY DEF Date
  <2> QED
    BY <1>1, <2>1, <2>2 DEF MessagingTypeOK, NoMark, NoFill, NoList
<1>3. MessageInv
  BY FS_EmptySet DEF MessageInv
<1>4. Delivered = {} /\ DOMAIN wire = {} /\ DOMAIN local = {}
  BY DEF Delivered
<1>5. WireInv /\ PageInv /\ CompleteInv /\ NewestInv /\ ReadInv
  BY <1>4 DEF WireInv, PageInv, CompleteInv, NewestInv, ReadInv, Cached, NoFill
<1>6. Unread(lastReadAt) = 0
  <2>1. {m \in messages \ Own : createdAt[m] > lastReadAt} = {}
    OBVIOUS
  <2> QED
    BY <2>1, FS_EmptySet DEF Unread
<1>7. BadgeInv
  BY <1>6 DEF BadgeInv, NoList
<1> QED
  BY <1>2, <1>3, <1>5, <1>7 DEF MessagingInv

\* Steps before a message is stored, and those that touch no message.
LEMMA MessagesRest ==
  ASSUME MessagingInv, MessagingTypeOK',
         UNCHANGED <<messages, lastReadAt, readTo, mark, wire, open, page,
                     pageFetch, local, newest, missed, listVars>>,
         date <= date', \A m \in messages : createdAt'[m] = createdAt[m],
         \A m \in Message : /\ createdAt'[m] <= date'
                            /\ send'[m] = "sent" <=> send[m] = "sent"
                            /\ send'[m] = "announce" <=> send[m] = "announce"
  PROVE  MessagingInv'
<1>1. /\ MessagingTypeOK /\ messages \subseteq Message /\ newest \in Nat
      /\ date \in Nat /\ date' \in Nat /\ wire \in Seq(SocketEvent)
      /\ local \in Seq(Message)
  BY MessagingConstants DEF MessagingInv, MessagingTypeOK, Date
<1>2. \A i \in DOMAIN wire : wire[i] \in SocketEvent /\ wire[i].message \in Message
  <2>1. \A i \in DOMAIN wire : wire[i] \in SocketEvent
    BY <1>1
  <2> QED
    BY <2>1 DEF SocketEvent
<1>3. Delivered' = Delivered /\ \A m \in Message : OnWire(m)' <=> OnWire(m)
  BY <1>1 DEF Delivered, OnWire
<1>4. MessageInv'
  BY <1>1 DEF MessagingInv, MessageInv
<1>5. WireInv'
  BY <1>2 DEF MessagingInv, WireInv
<1>6. PageInv' /\ CompleteInv'
  BY <1>3 DEF MessagingInv, PageInv, CompleteInv, Cached, Shown
<1>7. NewestInv'
  BY <1>1 DEF MessagingInv, NewestInv, Reached
<1>8. ReadInv'
  BY <1>1, <1>3 DEF MessagingInv, ReadInv, Reached, Delivered
<1>9. Unread(lastReadAt)' = Unread(lastReadAt)
  <2>1. {m \in messages \ Own : createdAt'[m] > lastReadAt}
        = {m \in messages \ Own : createdAt[m] > lastReadAt}
    BY <1>1
  <2> QED
    BY <2>1 DEF Unread
<1>10. BadgeInv'
  BY <1>3, <1>9 DEF MessagingInv, BadgeInv, Outdated, listVars
<1> QED
  BY <1>4, <1>5, <1>6, <1>7, <1>8, <1>10 DEF MessagingInv

LEMMA MessagesPrepared ==
  ASSUME MessagingInv, NEW m \in Message, Write(m) \/ Stamp(m) \/ Timeout(m)
  PROVE  MessagingInv'
<1>1. MessagingTypeOK /\ date \in Nat /\ date <= MaxDate /\ date \in Date
  BY MessagingConstants DEF MessagingInv, MessagingTypeOK, Date
<1>2. \A n \in Message : createdAt[n] <= date
  BY DEF MessagingInv, MessageInv
<1>3. CASE Write(m)
  <2>1. MessagingTypeOK'
    BY <1>1, <1>3 DEF MessagingTypeOK, Write, threadVars, listVars
  <2> QED
    BY <1>1, <1>2, <1>3, <2>1, MessagesRest DEF MessagingTypeOK, Write, threadVars, listVars
<1>4. CASE Stamp(m)
  <2>1. MessagingTypeOK'
    BY <1>1, <1>4 DEF MessagingTypeOK, Stamp, threadVars, listVars
  <2>2. m \notin messages
    BY <1>4 DEF MessagingInv, MessageInv, Stamp
  <2> QED
    BY <1>1, <1>2, <1>4, <2>1, <2>2, MessagesRest DEF MessagingTypeOK, Stamp, threadVars, listVars
<1>5. CASE Timeout(m)
  <2>1. MessagingTypeOK'
    BY <1>1, <1>5 DEF MessagingTypeOK, Timeout, apiVars, threadVars, listVars
  <2> QED
    BY <1>1, <1>2, <1>5, <2>1, MessagesRest DEF MessagingTypeOK, Timeout, apiVars, threadVars, listVars
<1> QED
  BY <1>3, <1>4, <1>5

LEMMA TimePasses ==
  ASSUME MessagingInv, Tick \/ GrowsStale \/ UNCHANGED messagingVars
  PROVE  MessagingInv'
<1> USE DEF apiVars, threadVars, listVars, messagingVars
<1>1. MessagingTypeOK /\ date \in Nat /\ date <= MaxDate /\ MaxDate \in Nat
  BY MessagingConstants DEF MessagingInv, MessagingTypeOK
<1>2. \A n \in Message : createdAt[n] <= date /\ createdAt[n] \in Nat
  BY MessagingConstants DEF MessagingInv, MessageInv, MessagingTypeOK, Date
<1>3. MessagingTypeOK'
  <2>1. CASE Tick
    BY <1>1, <2>1 DEF MessagingTypeOK, Tick
  <2>2. CASE GrowsStale
    BY <1>1, <2>2 DEF MessagingTypeOK, GrowsStale
  <2>3. CASE UNCHANGED messagingVars
    BY <1>1, <2>3 DEF MessagingTypeOK
  <2> QED
    BY <2>1, <2>2, <2>3
<1>4. /\ UNCHANGED <<messages, createdAt, send, lastReadAt, readTo, mark, wire, open, page,
                     pageFetch, local, newest, missed, listVars>>
      /\ date <= date' /\ date' \in Nat
  BY <1>1 DEF Tick, GrowsStale
<1>5. \A n \in Message : createdAt'[n] <= date'
  BY <1>1, <1>2, <1>4
<1> QED
  BY <1>3, <1>4, <1>5, MessagesRest

\* A message that is stored is not announced yet.
LEMMA MessageStored ==
  ASSUME MessagingInv, NEW m \in Message, Store(m)
  PROVE  MessagingInv'
<1> USE DEF threadVars, listVars
<1>1. MessagingTypeOK /\ wire \in Seq(SocketEvent) /\ messages \in SUBSET Message
  BY DEF MessagingInv, MessagingTypeOK
<1>2. m \notin messages /\ messages' = messages \cup {m}
      /\ send[m] = "insert" /\ send' = [send EXCEPT ![m] = "announce"]
      /\ UNCHANGED <<date, createdAt, lastReadAt, readTo, mark, wire, open, page, stale,
                     pageFetch, local, newest, missed, badge, listFetch, warned>>
  BY DEF MessagingInv, MessageInv, Store
<1>3. MessagingTypeOK'
  BY <1>1, <1>2 DEF MessagingTypeOK
<1>4. MessageInv'
  BY <1>1, <1>2, FS_AddElement DEF MessagingInv, MessagingTypeOK, MessageInv
<1>5. \A i \in DOMAIN wire : wire[i].message # m
  BY <1>2 DEF MessagingInv, WireInv
<1>6. WireInv'
  <2>1. \A i \in DOMAIN wire : wire[i] \in SocketEvent
    BY <1>1
  <2>2. \A i \in DOMAIN wire : wire[i].message \in Message
    BY <2>1 DEF SocketEvent
  <2> QED
    BY <1>1, <1>2, <1>5, <2>2 DEF MessagingInv, WireInv, MessagingTypeOK
<1>7. Delivered' = Delivered
  BY <1>1, <1>2 DEF Delivered, OnWire, MessagingTypeOK
<1>8. PageInv' /\ CompleteInv' /\ NewestInv' /\ ReadInv'
  BY <1>2, <1>7 DEF MessagingInv, PageInv, CompleteInv, NewestInv, ReadInv, Reached,
                    Cached, Shown
<1>9. BadgeInv'
  BY <1>1, <1>2 DEF BadgeInv, Outdated, MessagingTypeOK
<1> QED
  BY <1>3, <1>4, <1>6, <1>8, <1>9 DEF MessagingInv

\* Concatenation, element by element.
LEMMA JoinedSequences ==
  ASSUME NEW S, NEW s \in Seq(S), NEW t \in Seq(S), NEW u, u = s \o t
  PROVE  /\ u \in Seq(S) /\ Len(u) = Len(s) + Len(t)
         /\ \A i \in 1 .. Len(s) : u[i] = s[i]
         /\ \A i \in 1 .. Len(t) : u[Len(s) + i] = t[i]
  OBVIOUS

\* Events are appended behind those of other messages.
LEMMA MessageAnnounced ==
  ASSUME MessagingInv, NEW m \in Message, Announce(m)
  PROVE  MessagingInv'
<1> USE DEF threadVars, listVars
<1> DEFINE event == [type |-> "new_message", message |-> m]
           answer == [type |-> "ack", message |-> m]
           events == <<event>> \o IF m \in Own THEN <<answer>> ELSE <<>>
<1>1. MessagingTypeOK /\ wire \in Seq(SocketEvent) /\ messages \in SUBSET Message
      /\ send \in [Message -> {"unsent", "new", "insert", "announce", "sent"}]
  BY DEF MessagingInv, MessagingTypeOK
<1>2. /\ wire' = wire \o events
      /\ send[m] = "announce" /\ send' = [send EXCEPT ![m] = "sent"]
      /\ UNCHANGED <<date, messages, createdAt, lastReadAt, readTo, mark, open, page, stale,
                     pageFetch, local, newest, missed, badge, listFetch, warned>>
  BY DEF Announce
<1>3. event \in SocketEvent /\ answer \in SocketEvent
  BY DEF SocketEvent
<1>4. events \in Seq(SocketEvent) /\ events[1] = event /\ Len(events) \in {1, 2}
      /\ (Len(events) = 2 => events[2] = answer)
  <2> DEFINE first == <<event>>
             rest == IF m \in Own THEN <<answer>> ELSE <<>>
  <2>1. rest \in Seq(SocketEvent) /\ Len(rest) \in {0, 1} /\ (Len(rest) = 1 => rest[1] = answer)
    BY <1>3
  <2>2. first \in Seq(SocketEvent) /\ Len(first) = 1 /\ first[1] = event
    BY <1>3
  <2>3. events = first \o rest
    OBVIOUS
  <2>4. /\ events \in Seq(SocketEvent) /\ Len(events) = Len(first) + Len(rest)
        /\ \A i \in 1 .. Len(first) : events[i] = first[i]
        /\ \A i \in 1 .. Len(rest) : events[Len(first) + i] = rest[i]
    <3> HIDE DEF first, rest, events
    <3> QED
      BY <2>1, <2>2, <2>3, JoinedSequences
  <2>5. Len(rest) = 1 => events[2] = rest[1]
    <3> HIDE DEF first, rest, events
    <3> QED
      BY <2>2, <2>4
  <2>6. events[1] = event
    <3> HIDE DEF first, rest, events
    <3> QED
      BY <2>2, <2>4
  <2> HIDE DEF first, rest, events
  <2> QED
    BY <2>1, <2>2, <2>4, <2>5, <2>6
<1> HIDE DEF events
<1>6. /\ wire' \in Seq(SocketEvent) /\ Len(wire) \in Nat
      /\ Len(wire') = Len(wire) + Len(events)
      /\ \A i \in DOMAIN wire : i \in DOMAIN wire' /\ wire'[i] = wire[i]
      /\ Len(wire) + 1 \in DOMAIN wire' /\ wire'[Len(wire) + 1] = event
  BY <1>1, <1>2, <1>4
<1>7. \A i \in DOMAIN wire' :
        \/ i \in DOMAIN wire /\ wire'[i] = wire[i]
        \/ i = Len(wire) + 1 /\ wire'[i] = event
        \/ i = Len(wire) + 2 /\ wire'[i] = answer
  <2>1. SUFFICES ASSUME NEW i \in DOMAIN wire', i \notin DOMAIN wire
                 PROVE  \/ i = Len(wire) + 1 /\ wire'[i] = event
                        \/ i = Len(wire) + 2 /\ wire'[i] = answer
    BY <1>6
  <2>2. i \in Len(wire) + 1 .. Len(wire) + Len(events)
    BY <1>1, <1>4, <1>6, <2>1
  <2>3. wire'[i] = events[i - Len(wire)]
    BY <1>1, <1>2, <1>4, <1>6, <2>2
  <2> QED
    BY <1>4, <1>6, <2>2, <2>3
<1>8. MessagingTypeOK'
  BY <1>1, <1>2, <1>6 DEF MessagingTypeOK
<1>9. MessageInv'
  BY <1>1, <1>2 DEF MessagingInv, MessageInv
<1>10. \A i \in DOMAIN wire : /\ wire[i].message # m /\ wire[i].message \in Message
                              /\ send[wire[i].message] = "sent"
  <2>1. \A i \in DOMAIN wire : wire[i] \in SocketEvent
    BY <1>1
  <2> QED
    BY <2>1, <1>2 DEF MessagingInv, WireInv, SocketEvent
<1>11. WireInv'
  <2>1. ASSUME NEW i \in DOMAIN wire' PROVE send'[wire'[i].message] = "sent"
    BY <1>1, <1>2, <1>7, <1>10
  <2>2. ASSUME NEW i \in DOMAIN wire', NEW j \in DOMAIN wire', i < j,
               wire'[i].message = wire'[j].message
        PROVE  wire'[i].type = "new_message" /\ wire'[j].type = "ack"
    <3>1. DOMAIN wire = 1 .. Len(wire) /\ i \in Int /\ j \in Int
      BY <1>1, <1>6
    <3>2. CASE j \in DOMAIN wire
      <4>1. i \in DOMAIN wire
        BY <3>1, <3>2, <2>2, <1>6
      <4> QED
        BY <4>1, <3>2, <2>2, <1>6 DEF MessagingInv, WireInv
    <3>3. CASE j \notin DOMAIN wire
      <4>1. wire'[j].message = m
        BY <3>3, <1>7
      <4>2. i \notin DOMAIN wire
        BY <4>1, <2>2, <1>6, <1>10
      <4>3. i = Len(wire) + 1 /\ wire'[i] = event /\ j = Len(wire) + 2 /\ wire'[j] = answer
        BY <4>2, <3>3, <3>1, <2>2, <1>6, <1>7
      <4> QED
        BY <4>3
    <3> QED
      BY <3>2, <3>3
  <2> QED
    BY <2>1, <2>2 DEF WireInv
<1>12. OnWire(m)'
  BY <1>6 DEF OnWire
<1>13. \A n \in Message \ {m} : OnWire(n)' <=> OnWire(n)
  BY <1>6, <1>7 DEF OnWire
<1>14. Delivered' = Delivered
  BY <1>1, <1>2, <1>12, <1>13 DEF Delivered
<1>15. PageInv' /\ CompleteInv' /\ NewestInv' /\ ReadInv'
  BY <1>2, <1>14 DEF MessagingInv, PageInv, CompleteInv, NewestInv, ReadInv, Reached,
                    Cached, Shown
<1>16. BadgeInv'
  BY <1>12 DEF BadgeInv, Outdated
<1> QED
  BY <1>8, <1>9, <1>11, <1>15, <1>16 DEF MessagingInv

\* The next event that the socket brings.
LEMMA WireHead ==
  ASSUME MessagingInv, wire # <<>>, wire' = Tail(wire), UNCHANGED <<messages, send>>,
         NEW m, m = Head(wire).message
  PROVE  /\ m \in messages /\ m \in Message
         /\ wire' \in Seq(SocketEvent) /\ WireInv'
         /\ Head(wire).type = "new_message" => /\ m \notin Delivered
                                               /\ Delivered' = Delivered \cup {m}
         /\ Head(wire).type = "ack" => /\ m \in Delivered /\ Delivered' = Delivered
                                       /\ \A n \in Message : OnWire(n)' <=> OnWire(n)
<1>1. wire \in Seq(SocketEvent) /\ messages \subseteq Message
  BY DEF MessagingInv, MessagingTypeOK
<1>2. /\ wire' \in Seq(SocketEvent) /\ Len(wire) \in Nat /\ Len(wire) > 0
      /\ DOMAIN wire = 1 .. Len(wire) /\ DOMAIN wire' = 1 .. Len(wire) - 1
      /\ \A i \in DOMAIN wire' : wire'[i] = wire[i + 1]
      /\ Head(wire) = wire[1]
  BY <1>1
<1>3. \A i \in DOMAIN wire : wire[i] \in SocketEvent
  BY <1>1
<1>4. m \in Message /\ m = wire[1].message /\ 1 \in DOMAIN wire /\ send[m] = "sent"
      /\ wire[1].type \in {"new_message", "ack"}
  BY <1>2, <1>3 DEF SocketEvent, MessagingInv, WireInv
<1>5. m \in messages
  BY <1>4 DEF MessagingInv, MessageInv
<1>6. WireInv'
  BY <1>2 DEF MessagingInv, WireInv
<1>7. \A j \in DOMAIN wire : j > 1 /\ wire[j].message = m =>
        wire[1].type = "new_message" /\ wire[j].type = "ack"
  BY <1>2, <1>4 DEF MessagingInv, WireInv
<1>8. \A i \in DOMAIN wire : i = 1 \/ (i - 1 \in DOMAIN wire' /\ wire'[i - 1] = wire[i])
  BY <1>2
<1>9. \A i \in DOMAIN wire' : i + 1 \in DOMAIN wire /\ i + 1 > 1 /\ wire'[i] = wire[i + 1]
  BY <1>2
<1>10. ASSUME NEW n \in Message
       PROVE  OnWire(n)' => OnWire(n)
  BY <1>9 DEF OnWire
<1>11. ~ OnWire(m)'
  BY <1>7, <1>9 DEF OnWire
<1>12. ASSUME NEW n \in Message, OnWire(n), wire[1].type = "ack" \/ n # m
       PROVE  OnWire(n)'
  BY <1>4, <1>8, <1>12 DEF OnWire
<1>13. CASE wire[1].type = "new_message"
  <2>1. OnWire(m)
    BY <1>4, <1>13 DEF OnWire
  <2>2. Delivered' = Delivered \cup {m}
    BY <1>1, <1>4, <1>5, <1>10, <1>11, <1>12 DEF Delivered
  <2> QED
    BY <1>2, <1>4, <1>5, <1>6, <1>13, <2>1, <2>2 DEF Delivered
<1>14. CASE wire[1].type = "ack"
  <2>1. ~ OnWire(m)
    BY <1>11, <1>12, <1>14, <1>4
  <2>2. Delivered' = Delivered
    BY <1>1, <1>10, <1>12, <1>14 DEF Delivered
  <2> QED
    BY <1>2, <1>4, <1>5, <1>6, <1>10, <1>12, <1>14, <2>1, <2>2 DEF Delivered
<1> QED
  BY <1>4, <1>13, <1>14

\* handleNewMessage keeps what the thread has, and adds the message.
LEMMA GotMessage ==
  ASSUME local \in Seq(Message), NEW m \in Message, NEW got, got = Got(m)
  PROVE  /\ got \in Seq(Message)
         /\ \A i \in DOMAIN got : got[i] = m \/ \E j \in DOMAIN local : got[i] = local[j]
         /\ \E i \in DOMAIN got : got[i] = m
         /\ \A j \in DOMAIN local : \E i \in DOMAIN got : got[i] = local[j]
         /\ (\A j \in DOMAIN local : local[j] # m) => Len(got) > 0 /\ got[Len(got)] = m
<1>1. CASE \E i \in DOMAIN local : local[i] = m
  BY <1>1 DEF Got
<1>2. CASE ~ \E i \in DOMAIN local : local[i] = m
  <2>1. got = Append(local, m)
    BY <1>2 DEF Got
  <2>2. /\ got \in Seq(Message) /\ Len(local) \in Nat /\ Len(got) = Len(local) + 1
        /\ got[Len(local) + 1] = m /\ \A i \in 1 .. Len(local) : got[i] = local[i]
        /\ DOMAIN local = 1 .. Len(local) /\ DOMAIN got = 1 .. Len(local) + 1
    BY <2>1
  <2>3. \A i \in DOMAIN got : i = Len(local) + 1 \/ i \in DOMAIN local
    BY <2>2
  <2>4. Len(local) + 1 \in DOMAIN got /\ \A i \in DOMAIN local : i \in DOMAIN got
    BY <2>2
  <2> QED
    BY <2>2, <2>3, <2>4
<1> QED
  BY <1>1, <1>2

\* An open thread gets the message as its newest, which a marker reaches unless a
\* page is fetched again.
LEMMA EventShown ==
  ASSUME MessagingInv, NewMessage
  PROVE  MessagingInv'
<1> USE DEF apiVars
<1>1. /\ MessagingTypeOK /\ MessageInv /\ PageInv /\ CompleteInv /\ NewestInv /\ ReadInv
      /\ local \in Seq(Message) /\ open \in BOOLEAN /\ messages \subseteq Message
      /\ page \in {NoPage} \cup SUBSET Message /\ date \in Nat /\ newest \in Nat
      /\ createdAt \in [Message -> Date]
  BY MessagingConstants DEF MessagingInv, MessagingTypeOK, Date
<1>2. PICK m : m = Head(wire).message
  OBVIOUS
<1>3. /\ wire # <<>> /\ wire' = Tail(wire) /\ Head(wire).type = "new_message"
      /\ UNCHANGED <<date, messages, createdAt, lastReadAt, send, readTo, open, page, warned>>
      /\ listFetch' = [NoList EXCEPT !.pc = "asked"]
  BY DEF NewMessage, InvalidateList
<1>4. /\ m \in messages /\ m \in Message /\ wire' \in Seq(SocketEvent) /\ WireInv'
      /\ m \notin Delivered /\ Delivered' = Delivered \cup {m}
  BY <1>2, <1>3, WireHead
<1>5. MessageInv'
  BY <1>1, <1>3 DEF MessageInv
<1>6. listFetch' \in [pc : {"idle", "asked", "marker", "counted"}, readAt : Date, count : Nat]
      /\ listFetch'.pc = "asked"
  BY <1>3, MessagingConstants DEF NoList, Date
<1>7. BadgeInv'
  BY <1>6 DEF BadgeInv
<1>8. CASE open
  <2>1. PICK got : got = local'
    OBVIOUS
  <2>2. got = Got(m) /\ Effect(FALSE, page, got) /\ InvalidatePage /\ missed' = missed
    BY <1>2, <1>8, <2>1 DEF NewMessage
  <2>3. /\ got \in Seq(Message)
        /\ \A i \in DOMAIN got : got[i] = m \/ \E j \in DOMAIN local : got[i] = local[j]
        /\ \E i \in DOMAIN got : got[i] = m
        /\ \A j \in DOMAIN local : \E i \in DOMAIN got : got[i] = local[j]
        /\ (\A j \in DOMAIN local : local[j] # m) => Len(got) > 0 /\ got[Len(got)] = m
    <3>1. local \in Seq(Message) /\ m \in Message /\ got = Got(m)
      BY <1>1, <1>4, <2>2
    <3>2. got \in Seq(Message)
      BY <3>1, GotMessage
    <3>3. /\ \A i \in DOMAIN got : got[i] = m \/ \E j \in DOMAIN local : got[i] = local[j]
          /\ \E i \in DOMAIN got : got[i] = m
          /\ \A j \in DOMAIN local : \E i \in DOMAIN got : got[i] = local[j]
      BY <3>1, GotMessage
    <3>4. (\A j \in DOMAIN local : local[j] # m) => Len(got) > 0 /\ got[Len(got)] = m
      BY <3>1, GotMessage
    <3> QED
      BY <3>2, <3>3, <3>4
  <2>4. Len(got) > 0 /\ got[Len(got)] = m
    BY <1>1, <1>4, <2>3 DEF PageInv
  <2>5. /\ newest' = LastOf(page, got)
        /\ newest' \in Date /\ newest' <= date /\ badge' \in Nat
        /\ mark' \in [Mark -> [pc : {"idle", "asked", "write", "answered"}, readAt : Date]]
        /\ \/ \E k \in Mark : mark'[k].pc = "asked"
           \/ newest' = newest /\ mark' = mark
    BY <1>1, <2>2, <2>3, EffectMarks
  <2>6. m \notin Cached(page) => LastOf(page, got) = createdAt[m]
    BY <1>1, <1>4, <2>3, <2>4, LastOfThread
  <2>7. /\ pageFetch' \in [pc : {"idle", "asked", "read"}, rows : SUBSET Message]
        /\ stale' \in BOOLEAN
        /\ pageFetch' = pageFetch \/ pageFetch'.pc = "asked"
        /\ page # NoPage => pageFetch'.pc = "asked"
    BY <1>1, <2>2 DEF InvalidatePage, NoFill, MessagingTypeOK
  <2>8. MessagingTypeOK'
    BY <1>1, <1>3, <1>4, <1>6, <2>1, <2>2, <2>3, <2>5, <2>7 DEF MessagingTypeOK
  <2>9. PageInv'
    <3>1. \A i \in DOMAIN local' : local'[i] \in Delivered'
      BY <1>1, <1>4, <2>1, <2>3 DEF PageInv
    <3> QED
      BY <1>1, <1>3, <1>8, <2>7, <3>1 DEF PageInv
  <2>10. CompleteInv'
    BY <1>1, <1>3, <1>4, <2>1, <2>2, <2>3 DEF CompleteInv, Shown
  <2>11. CASE \E k \in Mark : mark'[k].pc = "asked"
    <3>1. NewestInv' /\ ReadInv'
      BY <1>3, <2>5, <2>11 DEF NewestInv, ReadInv, Reached
    <3> QED
      BY <1>4, <1>5, <1>7, <2>8, <2>9, <2>10, <3>1 DEF MessagingInv
  <2>12. CASE newest' = newest /\ mark' = mark
    <3>1. \A d \in Nat : Reached(d)' <=> Reached(d)
      BY <1>3, <2>12 DEF Reached
    <3>2. NewestInv'
      BY <1>1, <1>3, <2>12, <3>1 DEF NewestInv
    <3>3. \A n \in Message : createdAt[n] \in Nat
      BY <1>1, MessagingConstants DEF Date
    <3>4. page = NoPage => createdAt[m] = newest
      BY <2>5, <2>6, <2>12 DEF Cached
    <3>5. ASSUME NEW n \in Delivered' \ Own
          PROVE  Reached(createdAt[n]) \/ (page # NoPage /\ pageFetch'.pc = "asked")
      <4>1. n \in Message
        BY <1>1, <1>3, <3>5 DEF Delivered
      <4>2. CASE page # NoPage
        BY <4>2, <2>7
      <4>3. CASE page = NoPage /\ n \in Delivered
        BY <1>1, <1>8, <3>5, <4>3 DEF ReadInv
      <4>4. CASE page = NoPage /\ n = m
        BY <1>1, <1>8, <3>4, <4>4 DEF NewestInv
      <4> QED
        BY <1>4, <3>5, <4>2, <4>3, <4>4
    <3>6. ReadInv'
      BY <1>3, <2>12, <3>5 DEF ReadInv, Reached
    <3> QED
      BY <1>4, <1>5, <1>7, <2>8, <2>9, <2>10, <3>2, <3>6 DEF MessagingInv
  <2> QED
    BY <2>5, <2>11, <2>12
<1>9. CASE ~open
  <2>1. /\ missed' = missed \cup {m}
        /\ UNCHANGED <<local, pageFetch, stale, newest, mark, badge>>
    BY <1>2, <1>9 DEF NewMessage
  <2>2. MessagingTypeOK'
    BY <1>1, <1>3, <1>4, <1>6, <2>1 DEF MessagingTypeOK
  <2>3. PageInv' /\ CompleteInv' /\ NewestInv' /\ ReadInv'
    BY <1>1, <1>3, <1>4, <1>9, <2>1 DEF PageInv, CompleteInv, NewestInv, ReadInv, Shown, Cached
  <2> QED
    BY <1>4, <1>5, <1>7, <2>2, <2>3 DEF MessagingInv
<1> QED
  BY <1>8, <1>9

LEMMA AcknowledgementShown ==
  ASSUME MessagingInv, Acknowledged
  PROVE  MessagingInv'
<1> USE DEF apiVars
<1>1. /\ MessagingTypeOK /\ MessageInv /\ PageInv /\ CompleteInv /\ NewestInv /\ ReadInv
      /\ BadgeInv
      /\ local \in Seq(Message) /\ open \in BOOLEAN /\ messages \subseteq Message
      /\ page \in {NoPage} \cup SUBSET Message /\ date \in Nat /\ newest \in Nat
      /\ createdAt \in [Message -> Date]
  BY MessagingConstants DEF MessagingInv, MessagingTypeOK, Date
<1>2. PICK m : m = Head(wire).message
  OBVIOUS
<1>3. /\ wire # <<>> /\ wire' = Tail(wire) /\ Head(wire).type = "ack"
      /\ UNCHANGED <<date, messages, createdAt, lastReadAt, send, readTo, open, page, stale,
                     pageFetch, listFetch, warned, missed>>
  BY DEF Acknowledged
<1>4. /\ m \in messages /\ m \in Message /\ wire' \in Seq(SocketEvent) /\ WireInv'
      /\ m \in Delivered /\ Delivered' = Delivered
      /\ \A n \in Message : OnWire(n)' <=> OnWire(n)
  BY <1>2, <1>3, WireHead
<1>5. MessageInv'
  BY <1>1, <1>3 DEF MessageInv
<1>6. \A n \in Message : createdAt[n] \in Nat
  BY <1>1, MessagingConstants DEF Date
<1>7. CASE open /\ m \notin warned
  <2>1. PICK got : got = local'
    OBVIOUS
  <2>2. got = Got(m) /\ Effect(FALSE, page, got)
    BY <1>2, <1>7, <2>1 DEF Acknowledged
  <2>3. /\ got \in Seq(Message)
        /\ \A i \in DOMAIN got : got[i] = m \/ \E j \in DOMAIN local : got[i] = local[j]
        /\ \A j \in DOMAIN local : \E i \in DOMAIN got : got[i] = local[j]
    BY <1>1, <1>4, <2>2, GotMessage
  <2>4. /\ newest' \in Date /\ newest' <= date /\ badge' \in Nat
        /\ mark' \in [Mark -> [pc : {"idle", "asked", "write", "answered"}, readAt : Date]]
        /\ \/ \E k \in Mark : mark'[k].pc = "asked"
           \/ newest' = newest /\ mark' = mark /\ badge' = badge
    BY <1>1, <2>2, <2>3, EffectMarks
  <2>5. MessagingTypeOK'
    BY <1>1, <1>3, <1>4, <2>1, <2>3, <2>4 DEF MessagingTypeOK
  <2>6. PageInv'
    <3>1. \A i \in DOMAIN local' : local'[i] \in Delivered'
      BY <1>1, <1>4, <2>1, <2>3 DEF PageInv
    <3> QED
      BY <1>1, <1>3, <1>7, <3>1 DEF PageInv
  <2>7. CompleteInv'
    BY <1>1, <1>3, <1>4, <2>1, <2>3 DEF CompleteInv, Shown
  <2>8. CASE \E k \in Mark : mark'[k].pc = "asked"
    <3>1. NewestInv' /\ ReadInv' /\ BadgeInv'
      BY <1>3, <2>4, <2>8 DEF NewestInv, ReadInv, Reached, BadgeInv, Outdated
    <3> QED
      BY <1>4, <1>5, <2>5, <2>6, <2>7, <3>1 DEF MessagingInv
  <2>9. CASE newest' = newest /\ mark' = mark /\ badge' = badge
    <3>1. NewestInv' /\ ReadInv' /\ BadgeInv'
      BY <1>1, <1>3, <1>4, <2>9
      DEF NewestInv, ReadInv, Reached, BadgeInv, Outdated, Unread
    <3> QED
      BY <1>4, <1>5, <2>5, <2>6, <2>7, <3>1 DEF MessagingInv
  <2> QED
    BY <2>4, <2>8, <2>9
<1>8. CASE ~ (open /\ m \notin warned)
  <2>1. UNCHANGED <<local, newest, mark, badge>>
    BY <1>2, <1>8 DEF Acknowledged
  <2>2. MessagingTypeOK'
    BY <1>1, <1>3, <1>4, <2>1 DEF MessagingTypeOK
  <2>3. PageInv' /\ CompleteInv'
    BY <1>1, <1>3, <1>4, <2>1 DEF PageInv, CompleteInv, Shown, Cached
  <2>4. NewestInv' /\ ReadInv' /\ BadgeInv'
    BY <1>1, <1>3, <1>4, <2>1
    DEF NewestInv, ReadInv, Reached, BadgeInv, Outdated, Unread
  <2> QED
    BY <1>4, <1>5, <2>2, <2>3, <2>4 DEF MessagingInv
<1> QED
  BY <1>7, <1>8

LEMMA ThreadOpens ==
  ASSUME MessagingInv, Open
  PROVE  MessagingInv'
<1> USE DEF apiVars
<1>1. /\ MessagingTypeOK /\ MessageInv /\ PageInv /\ CompleteInv
      /\ local \in Seq(Message) /\ page \in {NoPage} \cup SUBSET Message
  BY DEF MessagingInv, MessagingTypeOK
<1>2. /\ ~open /\ open' = TRUE /\ Effect(TRUE, page, local)
      /\ UNCHANGED <<date, messages, createdAt, lastReadAt, send, readTo, wire, page, stale,
                     local, listFetch, warned, missed>>
      /\ pageFetch' = pageFetch \/ pageFetch' = [NoFill EXCEPT !.pc = "asked"]
  BY DEF Open
<1>3. /\ newest' \in Date /\ newest' <= date /\ badge' \in Nat
      /\ mark' \in [Mark -> [pc : {"idle", "asked", "write", "answered"}, readAt : Date]]
      /\ \E k \in Mark : mark'[k].pc = "asked"
  BY <1>1, <1>2, EffectMarks
<1>4. pageFetch' \in [pc : {"idle", "asked", "read"}, rows : SUBSET Message]
      /\ (pageFetch' = pageFetch \/ pageFetch'.pc = "asked")
  BY <1>1, <1>2 DEF NoFill, MessagingTypeOK
<1>5. MessagingTypeOK'
  BY <1>1, <1>2, <1>3, <1>4 DEF MessagingTypeOK
<1>6. Delivered' = Delivered
  BY <1>2 DEF Delivered, OnWire
<1>7. MessageInv' /\ WireInv'
  BY <1>2 DEF MessagingInv, MessageInv, WireInv
<1>8. PageInv' /\ CompleteInv'
  BY <1>1, <1>2, <1>4, <1>6 DEF PageInv, CompleteInv, Shown, Cached
<1>9. NewestInv' /\ ReadInv' /\ BadgeInv'
  BY <1>2, <1>3 DEF NewestInv, ReadInv, Reached, BadgeInv, Outdated
<1> QED
  BY <1>5, <1>7, <1>8, <1>9 DEF MessagingInv

LEMMA ThreadCloses ==
  ASSUME MessagingInv, Close
  PROVE  MessagingInv'
<1> USE DEF apiVars, listVars
<1>1. /\ MessagingTypeOK /\ PageInv /\ CompleteInv /\ local \in Seq(Message)
      /\ page \in {NoPage} \cup SUBSET Message /\ date \in Nat /\ MaxDate \in Nat
  BY MessagingConstants DEF MessagingInv, MessagingTypeOK
<1>2. /\ open' = FALSE /\ local' = <<>> /\ newest' = 0
      /\ missed' = missed \cup (Shown(page, local) \ Cached(page))
      /\ UNCHANGED <<date, messages, createdAt, lastReadAt, send, readTo, mark, wire, page,
                     stale, pageFetch, badge, listFetch, warned>>
  BY DEF Close
<1>3. Shown(page, local) \subseteq Message
  <2>1. \A i \in DOMAIN local : local[i] \in Message
    BY <1>1
  <2> QED
    BY <1>1, <2>1 DEF Shown, Cached
<1>4. MessagingTypeOK'
  <2>1. <<>> \in Seq(Message) /\ 0 \in Date
    BY <1>1 DEF Date
  <2> QED
    BY <1>1, <1>2, <1>3, <2>1 DEF MessagingTypeOK
<1>5. Delivered' = Delivered /\ DOMAIN local' = {}
  BY <1>2 DEF Delivered, OnWire
<1>6. MessageInv' /\ WireInv'
  BY <1>2 DEF MessagingInv, MessageInv, WireInv
<1>7. PageInv' /\ CompleteInv'
  BY <1>1, <1>2, <1>5 DEF PageInv, CompleteInv, Shown, Cached
<1>8. NewestInv' /\ ReadInv'
  BY <1>1, <1>2 DEF NewestInv, ReadInv
<1>9. BadgeInv'
  BY <1>2 DEF MessagingInv, BadgeInv, Outdated, OnWire, Unread
<1> QED
  BY <1>4, <1>6, <1>7, <1>8, <1>9 DEF MessagingInv

LEMMA PageIsRead ==
  ASSUME MessagingInv, PageRead
  PROVE  MessagingInv'
<1> USE DEF apiVars, listVars
<1>1. MessagingTypeOK /\ PageInv /\ CompleteInv /\ NewestInv /\ ReadInv
      /\ messages \in SUBSET Message
  BY DEF MessagingInv, MessagingTypeOK
<1>2. /\ pageFetch.pc = "asked" /\ pageFetch' = [pc |-> "read", rows |-> messages]
      /\ UNCHANGED <<date, messages, createdAt, lastReadAt, send, readTo, mark, wire, open,
                     page, stale, local, newest, badge, listFetch, warned, missed>>
  BY DEF PageRead
<1>3. MessagingTypeOK'
  BY <1>1, <1>2 DEF MessagingTypeOK
<1>4. Delivered' = Delivered /\ Delivered \subseteq messages
  BY <1>2 DEF Delivered, OnWire
<1>5. MessageInv' /\ WireInv'
  BY <1>2 DEF MessagingInv, MessageInv, WireInv
<1>6. PageInv' /\ CompleteInv' /\ NewestInv' /\ ReadInv'
  BY <1>1, <1>2, <1>4
  DEF PageInv, CompleteInv, Shown, Cached, NewestInv, ReadInv, Reached
<1>7. BadgeInv'
  BY <1>2 DEF MessagingInv, BadgeInv, Outdated, OnWire, Unread
<1> QED
  BY <1>3, <1>5, <1>6, <1>7 DEF MessagingInv

\* A page that holds every message delivered makes the newest one the last.
LEMMA PageIsShown ==
  ASSUME MessagingInv, PageArrives
  PROVE  MessagingInv'
<1> USE DEF apiVars
<1>1. /\ MessagingTypeOK /\ MessageInv /\ PageInv /\ CompleteInv /\ NewestInv /\ ReadInv
      /\ BadgeInv
      /\ local \in Seq(Message) /\ open \in BOOLEAN /\ messages \subseteq Message
      /\ page \in {NoPage} \cup SUBSET Message /\ date \in Nat /\ newest \in Nat
      /\ createdAt \in [Message -> Date] /\ readTo \in Nat
      /\ mark \in [Mark -> [pc : {"idle", "asked", "write", "answered"}, readAt : Date]]
  BY MessagingConstants DEF MessagingInv, MessagingTypeOK, Date
<1>2. /\ pageFetch.pc = "read" /\ pageFetch' = NoFill /\ page' = pageFetch.rows
      /\ stale' = FALSE /\ missed' = missed \ pageFetch.rows
      /\ UNCHANGED <<date, messages, createdAt, lastReadAt, send, readTo, wire, open, local,
                     listFetch, warned>>
  BY DEF PageArrives
<1>3. PICK rows \in SUBSET Message : rows = pageFetch.rows
  BY <1>1 DEF MessagingTypeOK
<1>4. rows # NoPage /\ Cached(rows) = rows /\ Cached(page) \subseteq rows /\ rows \subseteq messages
  BY <1>1, <1>2, <1>3, MessagingConstants DEF PageInv, Cached
<1>5. Delivered' = Delivered /\ \A n \in Message : OnWire(n)' <=> OnWire(n)
  BY <1>2 DEF Delivered, OnWire
<1>6. MessageInv' /\ WireInv'
  BY <1>2 DEF MessagingInv, MessageInv, WireInv
<1>7. PageInv'
  BY <1>1, <1>2, <1>3, <1>4, <1>5 DEF PageInv, NoFill, Cached
<1>8. CompleteInv'
  BY <1>1, <1>2, <1>3, <1>4, <1>5 DEF CompleteInv, Shown, Cached
<1>9. \A n \in Message : createdAt[n] \in Nat
  BY <1>1, MessagingConstants DEF Date
<1>10. NoFill \in [pc : {"idle", "asked", "read"}, rows : SUBSET Message]
  BY DEF NoFill
<1>11. CASE open
  <2>1. PICK cache : cache = page'
    OBVIOUS
  <2>2. cache = rows /\ Effect(FALSE, cache, local)
    BY <1>2, <1>3, <1>11, <2>1 DEF PageArrives
  <2>3. /\ newest' = LastOf(rows, local)
        /\ newest' \in Date /\ newest' <= date /\ badge' \in Nat
        /\ mark' \in [Mark -> [pc : {"idle", "asked", "write", "answered"}, readAt : Date]]
        /\ \/ \E k \in Mark : mark'[k].pc = "asked"
           \/ newest' = newest /\ mark' = mark /\ badge' = badge
    <3>1. rows \in {NoPage} \cup SUBSET Message /\ Effect(FALSE, rows, local)
      BY <2>2
    <3> QED
      BY <1>1, <3>1, EffectMarks
  <2>4. MessagingTypeOK'
    BY <1>1, <1>2, <1>3, <1>10, <2>3 DEF MessagingTypeOK
  <2>5. CASE \E k \in Mark : mark'[k].pc = "asked"
    <3>1. NewestInv' /\ ReadInv' /\ BadgeInv'
      BY <1>2, <2>3, <2>5 DEF NewestInv, ReadInv, Reached, BadgeInv, Outdated
    <3> QED
      BY <1>6, <1>7, <1>8, <2>4, <3>1 DEF MessagingInv
  <2>6. CASE newest' = newest /\ mark' = mark /\ badge' = badge
    <3>1. NewestInv' /\ BadgeInv'
      BY <1>1, <1>2, <1>5, <2>6 DEF NewestInv, Reached, BadgeInv, Outdated, Unread
    <3>2. ASSUME NEW n \in Delivered \ Own PROVE Reached(createdAt[n])
      <4>1. SUFFICES ASSUME Delivered \subseteq rows PROVE Reached(createdAt[n])
        BY <1>1, <1>2, <1>3, <1>11, <3>2 DEF ReadInv
      <4>2. (\A i \in DOMAIN local : local[i] \in Cached(rows)) /\ n \in Cached(rows)
        BY <1>1, <1>4, <3>2, <4>1 DEF PageInv
      <4>3. \A x \in Cached(rows) : createdAt[x] <= LastOf(rows, local)
        <5>1. rows \in {NoPage} \cup SUBSET Message
          OBVIOUS
        <5> QED
          BY <1>1, <4>2, <5>1, LastOfThread
      <4>4. n \in Message /\ createdAt[n] <= newest /\ Reached(newest)
        BY <1>1, <1>11, <2>3, <2>6, <3>2, <4>2, <4>3 DEF NewestInv, Delivered
      <4>5. \A k \in Mark : mark[k].readAt \in Nat
        BY <1>1, MessagingConstants DEF Date
      <4> QED
        BY <1>1, <1>9, <4>4, <4>5 DEF Reached
    <3>3. ReadInv'
      BY <1>2, <1>5, <2>6, <3>2 DEF ReadInv, Reached
    <3> QED
      BY <1>6, <1>7, <1>8, <2>4, <3>1, <3>3 DEF MessagingInv
  <2> QED
    BY <2>3, <2>5, <2>6
<1>12. CASE ~open
  <2>1. UNCHANGED <<newest, mark, badge>>
    BY <1>12 DEF PageArrives
  <2>2. MessagingTypeOK'
    BY <1>1, <1>2, <1>3, <1>10, <2>1 DEF MessagingTypeOK
  <2>3. NewestInv' /\ ReadInv' /\ BadgeInv'
    BY <1>1, <1>2, <1>5, <1>12, <2>1 DEF NewestInv, ReadInv, BadgeInv, Outdated, Unread
  <2> QED
    BY <1>6, <1>7, <1>8, <2>2, <2>3 DEF MessagingInv
<1> QED
  BY <1>11, <1>12

\* A marker that is under way reaches what was stored when it was asked for.
LEMMA MarkerMoves ==
  ASSUME MessagingInv, NEW k \in Mark, StampMarker(k) \/ WriteMarker(k) \/ Marked(k)
  PROVE  MessagingInv'
<1> USE DEF apiVars, threadVars, listVars
<1>1. /\ MessagingTypeOK /\ MessageInv /\ PageInv /\ CompleteInv /\ NewestInv /\ ReadInv
      /\ date \in Nat /\ date \in Date /\ newest \in Nat /\ readTo \in Nat /\ messages \subseteq Message
      /\ mark \in [Mark -> [pc : {"idle", "asked", "write", "answered"}, readAt : Date]]
      /\ \A n \in Message : createdAt[n] \in Nat /\ createdAt[n] <= date
  BY MessagingConstants DEF MessagingInv, MessagingTypeOK, MessageInv, Date
<1>2. /\ UNCHANGED <<date, messages, createdAt, send, wire, open, page, stale, pageFetch,
                     local, newest, missed, badge, warned>>
  BY DEF StampMarker, WriteMarker, Marked
<1>3. \A h \in Mark : mark[h].readAt \in Nat /\ mark[h].readAt \in Date
  BY <1>1, MessagingConstants DEF Date
<1>4. Delivered' = Delivered
  BY <1>2 DEF Delivered, OnWire
<1>5. MessageInv' /\ WireInv' /\ PageInv' /\ CompleteInv'
  BY <1>1, <1>2, <1>4
  DEF MessagingInv, MessageInv, WireInv, PageInv, CompleteInv, Shown, Cached
<1>6. MessagingTypeOK' /\ BadgeInv'
  <2>1. CASE StampMarker(k)
    <3>1. mark'[k].pc = "write" /\ mark' \in
            [Mark -> [pc : {"idle", "asked", "write", "answered"}, readAt : Date]]
      BY <1>1, <2>1 DEF StampMarker
    <3> QED
      BY <1>1, <2>1, <3>1 DEF StampMarker, MessagingTypeOK, BadgeInv, Outdated
  <2>2. CASE WriteMarker(k)
    <3>1. mark'[k].pc = "answered" /\ mark' \in
            [Mark -> [pc : {"idle", "asked", "write", "answered"}, readAt : Date]]
      BY <1>1, <2>2 DEF WriteMarker
    <3> QED
      BY <1>1, <1>3, <2>2, <3>1 DEF WriteMarker, MessagingTypeOK, BadgeInv, Outdated
  <2>3. CASE Marked(k)
    <3>1. mark' \in [Mark -> [pc : {"idle", "asked", "write", "answered"}, readAt : Date]]
      BY <1>1, <2>3, MessagingConstants DEF Marked, NoMark, Date
    <3>2. listFetch' \in [pc : {"idle", "asked", "marker", "counted"}, readAt : Date, count : Nat]
          /\ listFetch'.pc = "asked"
      BY <2>3, MessagingConstants DEF Marked, InvalidateList, NoList, Date
    <3> QED
      BY <1>1, <2>3, <3>1, <3>2 DEF Marked, MessagingTypeOK, BadgeInv
  <2> QED
    BY <2>1, <2>2, <2>3
<1>7. ASSUME NEW d \in Nat, d <= date, Reached(d) PROVE Reached(d)'
  <2>1. CASE StampMarker(k)
    <3>1. readTo' = readTo /\ mark'[k].pc = "write" /\ mark'[k].readAt = date
          /\ \A h \in Mark \ {k} : mark'[h] = mark[h]
      BY <1>1, <2>1 DEF StampMarker
    <3>2. mark[k].pc = "asked"
      BY <2>1 DEF StampMarker
    <3> QED
      BY <1>7, <3>1, <3>2 DEF Reached
  <2>2. CASE WriteMarker(k)
    <3>1. readTo' >= readTo /\ readTo' >= mark[k].readAt /\ readTo' \in Nat
          /\ \A h \in Mark \ {k} : mark'[h] = mark[h]
      BY <1>1, <1>3, <2>2 DEF WriteMarker
    <3>2. mark[k].pc = "write"
      BY <2>2 DEF WriteMarker
    <3> QED
      BY <1>1, <1>3, <1>7, <3>1, <3>2 DEF Reached
  <2>3. CASE Marked(k)
    <3>1. readTo' = readTo /\ mark[k].pc = "answered"
          /\ \A h \in Mark \ {k} : mark'[h] = mark[h]
      BY <1>1, <2>3 DEF Marked
    <3> QED
      BY <1>7, <3>1 DEF Reached
  <2> QED
    BY <2>1, <2>2, <2>3
<1>8. NewestInv'
  BY <1>1, <1>2, <1>7 DEF NewestInv
<1>9. ReadInv'
  <2>1. ASSUME NEW n \in Delivered \ Own, Reached(createdAt[n]) PROVE Reached(createdAt[n])'
    <3>1. PICK d : d = createdAt[n]
      OBVIOUS
    <3>2. n \in Message
      BY <1>1, <2>1 DEF Delivered
    <3>3. Reached(d)'
      BY <1>1, <1>7, <2>1, <3>1, <3>2
    <3> QED
      BY <1>2, <3>1, <3>3 DEF Reached
  <2> QED
    BY <1>1, <1>2, <1>4, <2>1 DEF ReadInv
<1> QED
  BY <1>5, <1>6, <1>8, <1>9 DEF MessagingInv

LEMMA ListMoves ==
  ASSUME MessagingInv, ListReads \/ ListCounts \/ ListArrives
  PROVE  MessagingInv'
<1> USE DEF apiVars, threadVars
<1>1. MessagingTypeOK /\ BadgeInv /\ IsFiniteSet(messages) /\ lastReadAt \in Date
      /\ listFetch \in [pc : {"idle", "asked", "marker", "counted"}, readAt : Date, count : Nat]
  BY DEF MessagingInv, MessagingTypeOK, MessageInv
<1>2. UNCHANGED <<date, messages, createdAt, lastReadAt, send, readTo, mark, wire, open, page,
                  stale, pageFetch, local, newest, missed, warned>>
  BY DEF ListReads, ListCounts, ListArrives
<1>3. Delivered' = Delivered /\ \A n \in Message : OnWire(n)' <=> OnWire(n)
  BY <1>2 DEF Delivered, OnWire
<1>4. MessageInv' /\ WireInv' /\ PageInv' /\ CompleteInv' /\ NewestInv' /\ ReadInv'
  BY <1>2, <1>3
  DEF MessagingInv, MessageInv, WireInv, PageInv, CompleteInv, Shown, Cached,
      NewestInv, ReadInv, Reached
<1>5. Outdated' <=> Outdated
  BY <1>2, <1>3 DEF Outdated
<1>6. \A d : Unread(d) \in Nat /\ Unread(d)' = Unread(d)
  <2>1. SUFFICES ASSUME NEW d PROVE Unread(d) \in Nat
    BY <1>2 DEF Unread
  <2>2. {m \in messages \ Own : createdAt[m] > d} \subseteq messages
    OBVIOUS
  <2>3. IsFiniteSet({m \in messages \ Own : createdAt[m] > d})
    BY <1>1, <2>2, FS_Subset
  <2> QED
    BY <2>3, FS_CardinalityType DEF Unread
<1>7. CASE ListReads
  <2>1. /\ listFetch'.pc = "marker" /\ listFetch'.readAt = lastReadAt /\ badge' = badge
        /\ listFetch' \in [pc : {"idle", "asked", "marker", "counted"}, readAt : Date, count : Nat]
    BY <1>1, <1>7 DEF ListReads
  <2>2. MessagingTypeOK' /\ BadgeInv'
    BY <1>1, <1>2, <2>1 DEF MessagingTypeOK, BadgeInv
  <2> QED
    BY <1>4, <2>2 DEF MessagingInv
<1>8. CASE ListCounts
  <2>1. /\ listFetch.pc = "marker" /\ listFetch'.pc = "counted" /\ badge' = badge
        /\ listFetch'.count = Unread(listFetch.readAt)
        /\ listFetch' \in [pc : {"idle", "asked", "marker", "counted"}, readAt : Date, count : Nat]
    BY <1>1, <1>6, <1>8 DEF ListCounts
  <2>2. MessagingTypeOK' /\ BadgeInv'
    BY <1>1, <1>2, <1>5, <1>6, <2>1 DEF MessagingTypeOK, BadgeInv
  <2> QED
    BY <1>4, <2>2 DEF MessagingInv
<1>9. CASE ListArrives
  <2>1. /\ listFetch.pc = "counted" /\ listFetch'.pc = "idle" /\ badge' = listFetch.count
        /\ badge' \in Nat
        /\ listFetch' \in [pc : {"idle", "asked", "marker", "counted"}, readAt : Date, count : Nat]
    BY <1>1, <1>9, MessagingConstants DEF ListArrives, NoList, Date
  <2>2. MessagingTypeOK' /\ BadgeInv'
    BY <1>1, <1>2, <1>5, <1>6, <2>1 DEF MessagingTypeOK, BadgeInv
  <2> QED
    BY <1>4, <2>2 DEF MessagingInv
<1> QED
  BY <1>7, <1>8, <1>9

LEMMA MessagingStep == MessagingInv /\ [MessagingNext]_messagingVars => MessagingInv'
<1> SUFFICES ASSUME MessagingInv, [MessagingNext]_messagingVars PROVE MessagingInv'
  OBVIOUS
<1>1. ASSUME NEW m \in Message, Write(m) \/ Stamp(m) \/ Timeout(m) PROVE MessagingInv'
  BY <1>1, MessagesPrepared
<1>2. ASSUME NEW m \in Message, Store(m) PROVE MessagingInv'
  BY <1>2, MessageStored
<1>3. ASSUME NEW m \in Message, Announce(m) PROVE MessagingInv'
  BY <1>3, MessageAnnounced
<1>4. ASSUME NEW k \in Mark, StampMarker(k) \/ WriteMarker(k) \/ Marked(k) PROVE MessagingInv'
  BY <1>4, MarkerMoves
<1>5. CASE NewMessage
  BY <1>5, EventShown
<1>6. CASE Acknowledged
  BY <1>6, AcknowledgementShown
<1>7. CASE Open \/ Close
  BY <1>7, ThreadOpens, ThreadCloses
<1>8. CASE PageRead \/ PageArrives
  BY <1>8, PageIsRead, PageIsShown
<1>9. CASE ListReads \/ ListCounts \/ ListArrives
  BY <1>9, ListMoves
<1>10. CASE Tick \/ GrowsStale \/ UNCHANGED messagingVars
  BY <1>10, TimePasses
<1> QED
  BY <1>1, <1>2, <1>3, <1>4, <1>5, <1>6, <1>7, <1>8, <1>9, <1>10 DEF MessagingNext

LEMMA MessagingInvariant == MessagingSpec => []MessagingInv
  BY MessagingInitially, MessagingStep, PTL DEF MessagingSpec

\* Types, among them a count of unread messages that is a number because stored
\* messages stay finitely many, for any set of messages.
THEOREM MessagingTypes == MessagingSpec => []MessagingTypeOK
<1>1. MessagingInv => MessagingTypeOK
  BY DEF MessagingInv
<1> QED
  BY <1>1, MessagingInvariant, PTL

\* The badge shows what the API counts once nothing is on its way, whatever was
\* cleared ahead of it and in whatever order markers, events and fetches came
\* (useMessaging.ts, messaging.service.ts:183-214).
THEOREM BadgeFollows == MessagingSpec => []BadgeIsTrue
<1>1. MessagingInv => BadgeIsTrue
  BY DEF MessagingInv, MessageInv, BadgeInv, BadgeIsTrue, Quiet, Outdated, OnWire
<1> QED
  BY <1>1, MessagingInvariant, PTL

\* A thread that is open shows every message but those that came in before it
\* was opened, and its last marker is at or after each of them: for any number
\* of messages and markers, and any order in which pages, events and
\* acknowledgements come (conversation-thread.tsx).
THEOREM OpenThreadIsRead == MessagingSpec => []LiveThreadIsRead
<1>1. MessagingInv => LiveThreadIsRead
  <2>1. SUFFICES ASSUME MessagingInv, Quiet, open PROVE IsComplete /\ IsRead
    BY DEF LiveThreadIsRead
  <2>2. MessagingTypeOK /\ messages \subseteq Message /\ DOMAIN wire = {}
    BY <2>1 DEF MessagingInv, MessagingTypeOK, Quiet
  <2>3. messages = Delivered
    BY <2>1, <2>2 DEF MessagingInv, MessageInv, Delivered, OnWire, Quiet
  <2>4. IsComplete
    BY <2>1, <2>3 DEF MessagingInv, CompleteInv, IsComplete
  <2>5. \A m \in messages \ Own : readTo >= createdAt[m]
    BY <2>1, <2>3 DEF MessagingInv, ReadInv, Reached, Quiet
  <2>6. IsRead
    <3>1. SUFFICES ASSUME lastReadAt = readTo PROVE Unread(lastReadAt) = 0
      BY DEF IsRead
    <3>2. \A m \in messages : createdAt[m] \in Nat /\ readTo \in Nat
      BY <2>2, MessagingConstants DEF MessagingTypeOK, Date
    <3>3. {m \in messages \ Own : createdAt[m] > lastReadAt} = {}
      BY <2>5, <3>1, <3>2
    <3> QED
      BY <3>3, FS_EmptySet DEF Unread
  <2> QED
    BY <2>4, <2>6
<1> QED
  BY <1>1, MessagingInvariant, PTL

==============================================================================
