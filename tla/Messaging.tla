------------------------------ MODULE Messaging -------------------------------
(* A conversation as one resident follows it: messaging.service.ts and the   *)
(* gateway on the side of the API; on the side of the browser the thread     *)
(* (conversation-thread.tsx), the list with its unread badge, and the cached *)
(* queries behind both (useMessaging.ts), fed by the events of one socket.   *)
EXTENDS Naturals, Sequences, FiniteSetsExt

CONSTANTS
  Message,   \* bound: messages that are written
  Own,       \* those the resident writes
  Mark,      \* bound: POST .../read in flight at once
  MaxDate,   \* bound: dates the API stamps are 1 .. MaxDate
  NoPage     \* nothing is cached

ASSUME MessagingConstants ==
  /\ Own \subseteq Message /\ MaxDate \in Nat \ {0}
  /\ \A rows \in SUBSET Message : NoPage # rows

VARIABLES
  date,        \* the clock of the API
  messages,    \* stored messages
  createdAt,   \* date of a message, 0 before it has one
  lastReadAt,  \* read marker of the resident, 0 before there is one
  send,        \* how far the handler that sends a message is
  mark,        \* the calls of markConversationRead
  wire,        \* events on their way to the socket of the resident, in order
  open,        \* whether the thread is shown
  page,        \* cache of the messages query
  stale,       \* whether a mount or a focus fetches it again
  pageFetch,   \* its fetch in flight
  local,       \* messages the thread got from the socket
  newest,      \* newestMessageAt when the effect ran last
  badge,       \* unreadCount in the cache of the conversations query
  listFetch,   \* its fetch in flight
  warned,      \* texts that the resident was told did not go out
  missed,      \* history: messages the socket brought before the thread was opened
  readTo       \* history: the latest marker ever stored

apiVars == <<date, messages, createdAt, lastReadAt, send, readTo>>
threadVars == <<open, page, stale, pageFetch, local, newest, missed>>
listVars == <<badge, listFetch>>
messagingVars == <<apiVars, mark, wire, threadVars, listVars, warned>>

Date == 0 .. MaxDate
NoMark == [pc |-> "idle", readAt |-> 0]
NoFill == [pc |-> "idle", rows |-> {}]
NoList == [pc |-> "idle", readAt |-> 0, count |-> 0]
SocketEvent == [type : {"new_message", "ack"}, message : Message]

MessagingTypeOK ==
  /\ date \in 1 .. MaxDate /\ messages \subseteq Message
  /\ createdAt \in [Message -> Date] /\ lastReadAt \in Date
  /\ send \in [Message -> {"unsent", "new", "insert", "announce", "sent"}]
  /\ mark \in [Mark -> [pc : {"idle", "asked", "write", "answered"}, readAt : Date]]
  /\ wire \in Seq(SocketEvent)
  /\ open \in BOOLEAN /\ stale \in BOOLEAN
  /\ page \in {NoPage} \cup SUBSET Message
  /\ pageFetch \in [pc : {"idle", "asked", "read"}, rows : SUBSET Message]
  /\ local \in Seq(Message) /\ newest \in Date
  /\ badge \in Nat
  /\ listFetch \in [pc : {"idle", "asked", "marker", "counted"}, readAt : Date,
                    count : Nat]
  /\ warned \subseteq Own /\ missed \subseteq Message /\ readTo \in Date

MessagingInit ==
  /\ date = 1 /\ messages = {} /\ lastReadAt = 0
  /\ createdAt = [m \in Message |-> 0]
  /\ send = [m \in Message |-> "unsent"]
  /\ mark = [k \in Mark |-> NoMark]
  /\ wire = <<>>
  /\ open = FALSE
  /\ page = NoPage /\ stale = TRUE /\ pageFetch = NoFill
  /\ local = <<>> /\ newest = 0
  /\ badge = 0 /\ listFetch = NoList
  /\ warned = {} /\ missed = {} /\ readTo = 0

(* ------------------------------ what is shown ---------------------------- *)

Cached(cache) == IF cache = NoPage THEN {} ELSE cache

\* allMessages: the page by date, then what only the socket brought.
Shown(cache, got) == Cached(cache) \cup {got[i] : i \in DOMAIN got}

\* The date of the last of allMessages.
LastOf(cache, got) ==
  LET extra == {i \in DOMAIN got : got[i] \notin Cached(cache)}
      dates == {createdAt[m] : m \in Cached(cache)} IN
  IF extra # {} THEN createdAt[got[Max(extra)]]
  ELSE IF dates # {} THEN Max(dates) ELSE 0

\* countUnreadMessages against a marker.
Unread(readAt) == Cardinality({m \in messages \ Own : createdAt[m] > readAt})

(* ----------------------------- cached queries ---------------------------- *)

\* invalidateQueries(["conversations"]): a fetch in flight is cancelled, and
\* the list, which is always mounted, is fetched anew.
InvalidateList == listFetch' = [NoList EXCEPT !.pc = "asked"]

\* invalidateQueries(["messages", id]) while the thread is mounted: only a
\* fetch that is to replace a page is cancelled.
InvalidatePage ==
  /\ pageFetch' = IF page = NoPage /\ pageFetch.pc # "idle" THEN pageFetch
                  ELSE [NoFill EXCEPT !.pc = "asked"]
  /\ stale' = TRUE

\* Mutant of Effect: it runs on mount only.
EffectOnMount(mounts, cache, got) ==
  /\ newest' = LastOf(cache, got)
  /\ IF mounts
     THEN /\ \E k \in Mark : /\ mark[k].pc = "idle"
                             /\ mark' = [mark EXCEPT ![k].pc = "asked"]
          /\ badge' = 0
     ELSE UNCHANGED <<mark, badge>>

\* The effect of the thread when the newest message it shows has changed, and
\* when it is mounted: onRead clears the badge and posts the marker.
Effect(mounts, cache, got) ==
  /\ newest' = LastOf(cache, got)
  /\ IF mounts \/ newest' # newest
     THEN /\ \E k \in Mark : /\ mark[k].pc = "idle"
                             /\ mark' = [mark EXCEPT ![k].pc = "asked"]
          /\ badge' = 0
     ELSE UNCHANGED <<mark, badge>>

(* --------------------------------- sending ------------------------------- *)

\* The neighbor writes, or the resident in the thread.
Write(m) ==
  /\ send[m] = "unsent"
  /\ m \in Own => open
  /\ send' = [send EXCEPT ![m] = "new"]
  /\ UNCHANGED <<date, messages, createdAt, lastReadAt, readTo, mark, wire,
                 threadVars, listVars, warned>>

\* Mutant of Stamp: the date of a client whose clock is ahead.
StampByClient(m) ==
  /\ send[m] = "new"
  /\ createdAt' = [createdAt EXCEPT ![m] = date + 1]
  /\ send' = [send EXCEPT ![m] = "insert"]
  /\ UNCHANGED <<date, messages, lastReadAt, readTo, mark, wire, threadVars,
                 listVars, warned>>

\* sendMessage: mongoose stamps the date as it sends the document.
Stamp(m) ==
  /\ send[m] = "new"
  /\ createdAt' = [createdAt EXCEPT ![m] = date]
  /\ send' = [send EXCEPT ![m] = "insert"]
  /\ UNCHANGED <<date, messages, lastReadAt, readTo, mark, wire, threadVars,
                 listVars, warned>>

Store(m) ==
  /\ send[m] = "insert"
  /\ messages' = messages \cup {m}
  /\ send' = [send EXCEPT ![m] = "announce"]
  /\ UNCHANGED <<date, createdAt, lastReadAt, readTo, mark, wire, threadVars,
                 listVars, warned>>

\* lastMessageAt, which orders the list, is stored; then the broadcast to the
\* room and, to the author, the acknowledgement.
Announce(m) ==
  /\ send[m] = "announce"
  /\ send' = [send EXCEPT ![m] = "sent"]
  /\ LET events == <<[type |-> "new_message", message |-> m]>> \o
           IF m \in Own THEN <<[type |-> "ack", message |-> m]>> ELSE <<>> IN
     wire' = wire \o events
  /\ UNCHANGED <<date, messages, createdAt, lastReadAt, readTo, mark,
                 threadVars, listVars, warned>>

\* emitWithAck gives up after five seconds: the text is back in the input.
Timeout(m) ==
  /\ m \in Own \ warned /\ send[m] # "unsent"
  /\ send[m] = "sent" => \E i \in DOMAIN wire : wire[i] = [type |-> "ack", message |-> m]
  /\ warned' = warned \cup {m}
  /\ UNCHANGED <<apiVars, mark, wire, threadVars, listVars>>

(* ------------------------------ on the socket ---------------------------- *)

\* handleNewMessage, of an event or an acknowledgement still awaited.
Got(m) == IF \E i \in DOMAIN local : local[i] = m THEN local ELSE Append(local, m)

\* new_message: the provider invalidates the list; the thread shows the message
\* and invalidates the page.
NewMessage ==
  /\ wire # <<>> /\ Head(wire).type = "new_message"
  /\ wire' = Tail(wire)
  /\ InvalidateList
  /\ IF open
     THEN /\ local' = Got(Head(wire).message)
          /\ InvalidatePage
          /\ Effect(FALSE, page, local')
          /\ UNCHANGED missed
     ELSE /\ missed' = missed \cup {Head(wire).message}
          /\ UNCHANGED <<local, pageFetch, stale, newest, mark, badge>>
  /\ UNCHANGED <<apiVars, open, page, warned>>

Acknowledged ==
  /\ wire # <<>> /\ Head(wire).type = "ack"
  /\ wire' = Tail(wire)
  /\ IF open /\ Head(wire).message \notin warned
     THEN /\ local' = Got(Head(wire).message)
          /\ Effect(FALSE, page, local')
     ELSE UNCHANGED <<local, newest, mark, badge>>
  /\ UNCHANGED <<apiVars, open, page, stale, pageFetch,
                 listFetch, warned, missed>>

(* ------------------------------- the thread ------------------------------ *)

\* The thread is mounted: its query fetches a page that is stale.
Open ==
  /\ ~open
  /\ open' = TRUE
  /\ pageFetch' = IF stale /\ pageFetch.pc = "idle"
                  THEN [NoFill EXCEPT !.pc = "asked"] ELSE pageFetch
  /\ Effect(TRUE, page, local)
  /\ UNCHANGED <<apiVars, wire, page, stale, local, listFetch, warned, missed>>

\* Its state goes; the cache stays, and so does a fetch in flight.
Close ==
  /\ open
  /\ open' = FALSE /\ local' = <<>> /\ newest' = 0
  /\ missed' = missed \cup (Shown(page, local) \ Cached(page))
  /\ UNCHANGED <<apiVars, mark, wire, page, stale, pageFetch, listVars, warned>>

\* getMessages, and its answer.
PageRead ==
  /\ pageFetch.pc = "asked"
  /\ pageFetch' = [pc |-> "read", rows |-> messages]
  /\ UNCHANGED <<apiVars, mark, wire, open, page, stale, local,
                 newest, listVars, warned, missed>>

\* Mutant of PageArrives: a page replaces what the socket brought.
PageReplaces ==
  /\ pageFetch.pc = "read"
  /\ pageFetch' = NoFill /\ page' = pageFetch.rows /\ stale' = FALSE
  /\ missed' = missed \ pageFetch.rows
  /\ local' = <<>>
  /\ IF open THEN Effect(FALSE, page', local')
     ELSE UNCHANGED <<newest, mark, badge>>
  /\ UNCHANGED <<apiVars, wire, open, listFetch, warned>>

PageArrives ==
  /\ pageFetch.pc = "read"
  /\ pageFetch' = NoFill /\ page' = pageFetch.rows /\ stale' = FALSE
  /\ missed' = missed \ pageFetch.rows
  /\ IF open THEN Effect(FALSE, page', local)
     ELSE UNCHANGED <<newest, mark, badge>>
  /\ UNCHANGED <<apiVars, wire, open, local, listFetch, warned>>

\* staleTime: a page is stale after thirty seconds.
GrowsStale ==
  /\ ~stale /\ stale' = TRUE
  /\ UNCHANGED <<apiVars, mark, wire, open, page, pageFetch,
                 local, newest, listVars, warned, missed>>

(* ------------------------------ marker and list -------------------------- *)

\* markConversationRead: the participant is checked, then the date is taken.
StampMarker(k) ==
  /\ mark[k].pc = "asked"
  /\ mark' = [mark EXCEPT ![k] = [pc |-> "write", readAt |-> date]]
  /\ UNCHANGED <<apiVars, wire, threadVars, listVars, warned>>

WriteMarker(k) ==
  /\ mark[k].pc = "write"
  /\ lastReadAt' = mark[k].readAt
  /\ readTo' = IF mark[k].readAt > readTo THEN mark[k].readAt ELSE readTo
  /\ mark' = [mark EXCEPT ![k].pc = "answered"]
  /\ UNCHANGED <<date, messages, createdAt, send, wire, threadVars,
                 listVars, warned>>

\* Mutant of Marked: the list is not fetched again.
MarkedQuietly(k) ==
  /\ mark[k].pc = "answered"
  /\ mark' = [mark EXCEPT ![k] = NoMark]
  /\ UNCHANGED <<apiVars, wire, threadVars, listVars, warned>>

\* onSettled.
Marked(k) ==
  /\ mark[k].pc = "answered"
  /\ mark' = [mark EXCEPT ![k] = NoMark]
  /\ InvalidateList
  /\ UNCHANGED <<apiVars, wire, threadVars, badge, warned>>

\* findConversations reads the marker, then counts; its answer is the badge.
ListReads ==
  /\ listFetch.pc = "asked"
  /\ listFetch' = [listFetch EXCEPT !.pc = "marker", !.readAt = lastReadAt]
  /\ UNCHANGED <<apiVars, mark, wire, threadVars, badge, warned>>

ListCounts ==
  /\ listFetch.pc = "marker"
  /\ listFetch' = [listFetch EXCEPT !.pc = "counted",
                                    !.count = Unread(listFetch.readAt)]
  /\ UNCHANGED <<apiVars, mark, wire, threadVars, badge, warned>>

ListArrives ==
  /\ listFetch.pc = "counted"
  /\ listFetch' = NoList /\ badge' = listFetch.count
  /\ UNCHANGED <<apiVars, mark, wire, threadVars, warned>>

Tick ==
  /\ date < MaxDate /\ date' = date + 1
  /\ UNCHANGED <<messages, createdAt, lastReadAt, readTo, send, mark, wire,
                 threadVars, listVars, warned>>

MessagingNext ==
  \/ \E m \in Message : Write(m) \/ Stamp(m) \/ Store(m) \/ Announce(m) \/ Timeout(m)
  \/ NewMessage \/ Acknowledged
  \/ Open \/ Close \/ PageRead \/ PageArrives \/ GrowsStale
  \/ \E k \in Mark : StampMarker(k) \/ WriteMarker(k) \/ Marked(k)
  \/ ListReads \/ ListCounts \/ ListArrives \/ Tick

MessagingSpec == MessagingInit /\ [][MessagingNext]_messagingVars

(* ------------------------------- properties ------------------------------ *)

\* Nothing is on its way any more, on either side.
Quiet ==
  /\ \A m \in Message : send[m] \in {"unsent", "sent"}
  /\ \A k \in Mark : mark[k].pc = "idle"
  /\ wire = <<>> /\ pageFetch.pc = "idle" /\ listFetch.pc = "idle"

\* An open thread shows every message but those that the socket brought before
\* it was opened, until a page brings them.
IsComplete == messages \ missed \subseteq Shown(page, local)

\* When the last marker is stored, no message of the open thread counts as
\* unread, unless the API stored an older marker over a later one.
IsRead == lastReadAt = readTo => Unread(lastReadAt) = 0

(* A thread that is read live is complete and never keeps a stale badge,     *)
(* whatever the order in which pages, events and markers come in.            *)
LiveThreadIsRead == Quiet /\ open => IsComplete /\ IsRead

(* The badge is the count of the API, though it is cleared ahead of the API  *)
(* and answers of older fetches come in after that.                          *)
BadgeIsTrue == Quiet => badge = Unread(lastReadAt)
=============================================================================
