------------------------------- MODULE Listings -------------------------------
(* Services and events (services.service.ts, events.controller.ts), what     *)
(* refers to them by id (bookings, responses, votes) and their nodes in the  *)
(* graph (social.service.ts), written without waiting for them. A booking is *)
(* its status here: BookingSaga has its calls.                               *)
EXTENDS Naturals, SequencesExt

CONSTANTS
  Service, Event,
  Resident,  \* residents other than the author
  Title,
  Call,      \* bound: requests served at once
  MaxWrites, \* bound: writes to the graph on their way at once
  MaxItems,  \* bound: listings created
  NoItem, NoResident,
  Gone,      \* a document or a node that does not exist
  Untitled   \* a node that only an interest has created

ASSUME ListingsConstants ==
  /\ Service \cap Event = {} /\ NoItem \notin Service \cup Event
  /\ NoResident \notin Resident
  /\ Gone \notin Title /\ Untitled \notin Title /\ Gone # Untitled

VARIABLES
  doc,        \* title of a listing
  published,  \* listings ever created
  booking,    \* status of the booking of a service by a user
  responses,  \* users who responded to a service
  votes,      \* users who voted for a listing
  node,       \* name of its node in the graph
  writes,     \* writes to the graph on their way, as they were sent
  call,
  raced,      \* history: listings whose removal overlapped a request for them
  failed,     \* history: listings whose cascade failed
  strayed     \* history: listings with a write lost, or landed out of order

documentVars == <<doc, published>>
dependentVars == <<booking, responses, votes>>
listingHistory == <<raced, failed, strayed>>
listingsVars == <<documentVars, dependentVars, node, writes, call,
                  listingHistory>>

Item == Service \cup Event
Active == {"pending", "accepted"}
IdleCall == [pc |-> "idle", item |-> NoItem, user |-> NoResident, title |-> Gone]

ListingsTypeOK ==
  /\ doc \in [Item -> Title \cup {Gone}] /\ published \subseteq Item
  /\ booking \in [Service \X Resident -> {"none", "over"} \cup Active]
  /\ responses \in [Service -> SUBSET Resident] /\ votes \in [Item -> SUBSET Resident]
  /\ node \in [Item -> Title \cup {Gone, Untitled}]
  /\ writes \in Seq([op : {"sync"}, item : published, title : Title]
                   \cup [op : {"delete", "interest"}, item : published, title : {Gone}])
  /\ call \in [Call ->
       [pc : {"idle", "update", "book", "respond", "vote", "interest", "count",
              "delete", "cascade"},
        item : Item \cup {NoItem}, user : Resident \cup {NoResident},
        title : Title \cup {Gone}]]
  /\ raced \subseteq Item /\ failed \subseteq Item /\ strayed \subseteq Item

ListingsInit ==
  /\ doc = [i \in Item |-> Gone] /\ published = {}
  /\ booking = [b \in Service \X Resident |-> "none"]
  /\ responses = [s \in Service |-> {}] /\ votes = [i \in Item |-> {}]
  /\ node = [i \in Item |-> Gone] /\ writes = <<>>
  /\ call = [r \in Call |-> IdleCall]
  /\ raced = {} /\ failed = {} /\ strayed = {}

(* -------------------------------- documents ------------------------------ *)

Refers == {"book", "respond", "vote", "interest"}
Removes == {"count", "delete", "cascade"}

\* A request that read the listing goes on.
Start(r, i, pc, u, title) ==
  LET rivals == IF pc \in Refers THEN Removes ELSE IF pc \in Removes THEN Refers
                ELSE {} IN
  /\ call[r].pc = "idle" /\ doc[i] # Gone
  /\ call' = [call EXCEPT ![r] =
       [pc |-> pc, item |-> i, user |-> u, title |-> title]]
  /\ raced' = IF \E q \in Call : call[q].item = i /\ call[q].pc \in rivals
              THEN raced \cup {i} ELSE raced
  /\ UNCHANGED <<documentVars, dependentVars, node, writes, failed, strayed>>

End(r) == call' = [call EXCEPT ![r] = IdleCall]

\* A write to the graph that nobody awaits, with the title of its own request.
Project(op, i, title) ==
  /\ Len(writes) < MaxWrites
  /\ writes' = Append(writes, [op |-> op, item |-> i, title |-> title])

CreateListing(i, title) ==
  /\ i \in Item \ published /\ Cardinality(published) < MaxItems
  /\ published' = published \cup {i}
  /\ doc' = [doc EXCEPT ![i] = title]
  /\ Project("sync", i, title)
  /\ UNCHANGED <<dependentVars, node, call, listingHistory>>

\* Mutant of UpdateListing: what was not found is synchronised nevertheless.
UpdateNothing(r) ==
  /\ call[r].pc = "update"
  /\ LET i == call[r].item IN
     /\ doc' = [doc EXCEPT ![i] = IF @ = Gone THEN Gone ELSE call[r].title]
     /\ Project("sync", i, doc'[i])
  /\ End(r)
  /\ UNCHANGED <<published, dependentVars, node, listingHistory>>

\* findByIdAndUpdate, which finds nothing once the listing is deleted.
UpdateListing(r) ==
  /\ call[r].pc = "update"
  /\ LET i == call[r].item
         title == call[r].title IN
     IF doc[i] = Gone THEN UNCHANGED <<doc, writes>>
     ELSE /\ doc' = [doc EXCEPT ![i] = title]
          /\ Project("sync", i, title)
  /\ End(r)
  /\ UNCHANGED <<published, dependentVars, node, listingHistory>>

(* -------------------------------- dependents ----------------------------- *)

\* request: whatever became of the service since it was read.
Book(r) ==
  /\ call[r].pc = "book"
  /\ booking' = [booking EXCEPT ![<<call[r].item, call[r].user>>] = "pending"]
  /\ End(r)
  /\ UNCHANGED <<documentVars, responses, votes, node, writes, listingHistory>>

\* accept, decline and cancel read the service first; a full signature does not.
Advance(s, u, status) ==
  /\ \/ booking[<<s, u>>] = "pending" /\ doc[s] # Gone /\ status \in {"accepted", "over"}
     \/ booking[<<s, u>>] = "accepted" /\ status = "over"
  /\ booking' = [booking EXCEPT ![<<s, u>>] = status]
  /\ UNCHANGED <<documentVars, responses, votes, node, writes, call, listingHistory>>

\* respond: the upsert; unrespond asks for no service.
Respond(r) ==
  /\ call[r].pc = "respond"
  /\ responses' = [responses EXCEPT ![call[r].item] = @ \cup {call[r].user}]
  /\ End(r)
  /\ UNCHANGED <<documentVars, booking, votes, node, writes, listingHistory>>

Unrespond(s, u) ==
  /\ u \in responses[s]
  /\ responses' = [responses EXCEPT ![s] = @ \ {u}]
  /\ UNCHANGED <<documentVars, booking, votes, node, writes, call, listingHistory>>

\* cast, a toggle.
Vote(r) ==
  /\ call[r].pc = "vote"
  /\ LET u == call[r].user IN
     votes' = [votes EXCEPT ![call[r].item] = IF u \in @ THEN @ \ {u} ELSE @ \cup {u}]
  /\ End(r)
  /\ UNCHANGED <<documentVars, booking, responses, node, writes, listingHistory>>

\* markInterest finds the event for its $addToSet or $pull, or answers 404.
Interest(r) ==
  /\ call[r].pc = "interest"
  /\ IF doc[call[r].item] = Gone THEN UNCHANGED writes
     ELSE Project("interest", call[r].item, Gone)
  /\ End(r)
  /\ UNCHANGED <<documentVars, dependentVars, node, listingHistory>>

(* --------------------------------- removal ------------------------------- *)

\* Mutant of Count: accepted bookings are not counted.
CountPending(r) ==
  /\ call[r].pc = "count"
  /\ IF \E u \in Resident : booking[<<call[r].item, u>>] = "pending"
     THEN End(r)
     ELSE call' = [call EXCEPT ![r].pc = "delete"]
  /\ UNCHANGED <<documentVars, dependentVars, node, writes, listingHistory>>

\* A service with active bookings stays.
Count(r) ==
  /\ call[r].pc = "count"
  /\ IF \E u \in Resident : booking[<<call[r].item, u>>] \in Active
     THEN End(r)
     ELSE call' = [call EXCEPT ![r].pc = "delete"]
  /\ UNCHANGED <<documentVars, dependentVars, node, writes, listingHistory>>

Delete(r) ==
  /\ call[r].pc = "delete"
  /\ doc' = [doc EXCEPT ![call[r].item] = Gone]
  /\ call' = [call EXCEPT ![r].pc = "cascade"]
  /\ UNCHANGED <<published, dependentVars, node, writes, listingHistory>>

\* deleteNode is called for a service only.
DropNode(i) ==
  IF i \in Event THEN UNCHANGED writes ELSE Project("delete", i, Gone)

\* Mutant of Cascade: the votes of a service stay.
CascadeResponses(r) ==
  /\ call[r].pc = "cascade"
  /\ LET i == call[r].item IN
     /\ votes' = IF i \in Service THEN votes ELSE [votes EXCEPT ![i] = {}]
     /\ responses' = IF i \in Service THEN [responses EXCEPT ![i] = {}] ELSE responses
     /\ DropNode(i)
  /\ End(r)
  /\ UNCHANGED <<documentVars, booking, node, listingHistory>>

\* cascadeDeleteServiceDependents, cascadeDeleteEventVotes.
Cascade(r) ==
  /\ call[r].pc = "cascade"
  /\ LET i == call[r].item IN
     /\ votes' = [votes EXCEPT ![i] = {}]
     /\ responses' = IF i \in Service THEN [responses EXCEPT ![i] = {}] ELSE responses
     /\ DropNode(i)
  /\ End(r)
  /\ UNCHANGED <<documentVars, booking, node, listingHistory>>

\* Its failure is logged.
CascadeFails(r) ==
  /\ call[r].pc = "cascade"
  /\ failed' = failed \cup {call[r].item}
  /\ DropNode(call[r].item)
  /\ End(r)
  /\ UNCHANGED <<documentVars, dependentVars, node, raced, strayed>>

(* -------------------------------- the graph ------------------------------ *)

Earlier(k) == \E j \in 1 .. k - 1 : writes[j].item = writes[k].item

\* A write lands, in any order. An interest merges the event, without a name.
Land(k) ==
  /\ writes' = RemoveAt(writes, k)
  /\ node' = [node EXCEPT ![writes[k].item] =
       CASE writes[k].op = "sync" -> writes[k].title
         [] writes[k].op = "delete" -> Gone
         [] writes[k].op = "interest" -> IF @ = Gone THEN Untitled ELSE @]
  /\ strayed' = IF Earlier(k) THEN strayed \cup {writes[k].item} ELSE strayed
  /\ UNCHANGED <<documentVars, dependentVars, call, raced, failed>>

\* withRetry gives up.
Fail(k) ==
  /\ writes' = RemoveAt(writes, k)
  /\ strayed' = strayed \cup {writes[k].item}
  /\ UNCHANGED <<documentVars, dependentVars, node, call, raced, failed>>

ListingsNext ==
  \/ \E i \in Item, title \in Title :
       CreateListing(i, title) \/ \E r \in Call : Start(r, i, "update", NoResident, title)
  \/ \E r \in Call, s \in Service : Start(r, s, "count", NoResident, Gone)
  \/ \E r \in Call, e \in Event : Start(r, e, "delete", NoResident, Gone)
  \/ \E r \in Call, i \in Item, u \in Resident : Start(r, i, "vote", u, Gone)
  \/ \E r \in Call, s \in Service, u \in Resident :
       \/ booking[<<s, u>>] \notin Active /\ Start(r, s, "book", u, Gone)
       \/ Start(r, s, "respond", u, Gone)
  \/ \E r \in Call, e \in Event, u \in Resident : Start(r, e, "interest", u, Gone)
  \/ \E r \in Call : \/ UpdateListing(r) \/ Book(r) \/ Respond(r) \/ Vote(r) \/ Interest(r)
                        \/ Count(r) \/ Delete(r) \/ Cascade(r) \/ CascadeFails(r)
  \/ \E s \in Service, u \in Resident :
       Unrespond(s, u) \/ \E status \in {"accepted", "over"} : Advance(s, u, status)
  \/ \E k \in DOMAIN writes : Land(k) \/ Fail(k)

ListingsSpec == ListingsInit /\ [][ListingsNext]_listingsVars

(* ------------------------------- properties ------------------------------ *)

Settled == writes = <<>> /\ \A r \in Call : call[r].pc = "idle"

\* A service that is removed leaves no active booking behind, which nobody
\* could decline or cancel any more.
NoOrphans ==
  \A s \in Service \ raced, u \in Resident : booking[<<s, u>>] \in Active => doc[s] # Gone

\* Responses and votes go with their listing.
DependentsAreDropped ==
  \A i \in Item \ (raced \cup failed) :
    doc[i] = Gone => votes[i] = {} /\ (i \in Service => responses[i] = {})

\* The graph has a listing under its title and forgets a service that is
\* removed, unless a write was lost or overtaken by a later one. (The node of an
\* event stays.)
NodesAreCurrent ==
  \A i \in Item \ strayed : node[i] = doc[i] \/ (i \in Event /\ doc[i] = Gone)

(* Nothing is left behind for a listing that is gone, unless its removal     *)
(* overlapped a request for it or the cascade failed; and though nobody      *)
(* awaits the writes to the graph, it ends up with what is there.            *)
ListingsAgree == Settled => NoOrphans /\ DependentsAreDropped /\ NodesAreCurrent
=============================================================================
