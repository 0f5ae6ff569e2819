---------------------------- MODULE Neighborhoods -----------------------------
(* Neighborhoods and their residents: the polygons in MongoDB                *)
(* (neighborhoods.controller.ts), addresses and assignments in PostgreSQL    *)
(* (address.controller.ts), await by await. A polygon is the set of its      *)
(* points, and an address is one point.                                      *)
EXTENDS Naturals, FiniteSets

CONSTANTS
  User, Point,
  Place,     \* bound: neighborhoods ever created
  Request,   \* bound: requests served at once
  NoUser, NoPoint, NoPlace

ASSUME NeighborhoodsConstants ==
  NoUser \notin User /\ NoPoint \notin Point /\ NoPlace \notin Place

VARIABLES
  places,    \* neighborhoods stored
  area,      \* their polygons
  created,   \* identifiers given so far
  address,   \* users.address
  assigned,  \* users.neighborhoodId
  request,
  covered,   \* history: all points a neighborhood ever covered
  evicted,   \* history: users whose neighborhood was deleted under them
  late,      \* history: users whose assignment was stored on what had changed
  crossed    \* history: requests of two administrators were under way at once

mongoVars == <<places, area, created, covered>>
historyVars == <<evicted, late, crossed>>
neighborhoodsVars == <<mongoVars, address, assigned, request, historyVars>>

Row == [user : User, point : Point]
NoRequest == [pc |-> "idle", admin |-> FALSE, user |-> NoUser, point |-> NoPoint,
              place |-> NoPlace, shape |-> {}, match |-> NoPlace, rows |-> {}]

NeighborhoodsTypeOK ==
  /\ places \subseteq created /\ created \subseteq Place
  /\ area \in [Place -> SUBSET Point] /\ covered \in [Place -> SUBSET Point]
  /\ address \in [User -> Point \cup {NoPoint}]
  /\ assigned \in [User -> Place \cup {NoPlace}]
  /\ evicted \subseteq User /\ late \subseteq User /\ crossed \in BOOLEAN
  /\ request \in [Request ->
       [pc : {"idle", "store", "insert", "update", "select", "reassign", "assign",
              "clear"},
        admin : BOOLEAN, user : User \cup {NoUser}, point : Point \cup {NoPoint},
        place : Place \cup {NoPlace}, shape : SUBSET Point,
        match : Place \cup {NoPlace}, rows : SUBSET Row]]

NeighborhoodsInit ==
  /\ places = {} /\ created = {} /\ evicted = {}
  /\ late = {} /\ crossed = FALSE
  /\ area = [n \in Place |-> {}] /\ covered = [n \in Place |-> {}]
  /\ address = [u \in User |-> NoPoint]
  /\ assigned = [u \in User |-> NoPlace]
  /\ request = [r \in Request |-> NoRequest]

(* --------------------------------- queries ------------------------------- *)

\* findContainingPoint: one that contains the point, null when none does.
Matches(p) ==
  LET found == {n \in places : p \in area[n]} IN
  IF found = {} THEN {NoPlace} ELSE found

\* assertNoOverlap, of all neighborhoods but excludeId.
Free(shape, excludeId) ==
  \A n \in places \ {excludeId} : area[n] \cap shape = {}

\* A resident submits one address at a time.
MaySubmit(u) == \A r \in Request : ~request[r].admin => request[r].user # u

\* The request of an administrator starts.
Administers ==
  crossed' = (crossed \/ \E r \in Request : request[r].pc # "idle" /\ request[r].admin)

\* u is assigned n, found for p: not what a lookup finds by now, or not for the
\* address that u has by now.
Assigned(u, n, p, home) ==
  /\ assigned' = [assigned EXCEPT ![u] = n]
  /\ late' = IF n \in Matches(p) /\ p = home THEN late \ {u} ELSE late \cup {u}

(* -------------------------------- residents ------------------------------ *)

\* submit, once the address is geocoded, looks for its neighborhood.
Submit(r, u, p) ==
  /\ request[r].pc = "idle" /\ MaySubmit(u)
  /\ \E n \in Matches(p) :
       request' = [request EXCEPT ![r] =
         [NoRequest EXCEPT !.pc = "store", !.user = u, !.point = p, !.match = n]]
  /\ UNCHANGED <<mongoVars, address, assigned, historyVars>>

\* Mutant of StoreAddress: no match leaves the column as it is.
StoreMatchOnly(r) ==
  /\ request[r].pc = "store"
  /\ address' = [address EXCEPT ![request[r].user] = request[r].point]
  /\ assigned' = IF request[r].match = NoPlace THEN assigned
                 ELSE [assigned EXCEPT ![request[r].user] = request[r].match]
  /\ evicted' = evicted \ {request[r].user}
  /\ request' = [request EXCEPT ![r] = NoRequest]
  /\ UNCHANGED <<mongoVars, crossed, late>>

StoreAddress(r) ==
  /\ request[r].pc = "store"
  /\ address' = [address EXCEPT ![request[r].user] = request[r].point]
  /\ Assigned(request[r].user, request[r].match, request[r].point, request[r].point)
  /\ evicted' = evicted \ {request[r].user}
  /\ request' = [request EXCEPT ![r] = NoRequest]
  /\ UNCHANGED <<mongoVars, crossed>>

(* ------------------------------ administrators --------------------------- *)

Create(r, n, shape) ==
  /\ request[r].pc = "idle" /\ Administers
  /\ n \in Place \ created /\ Free(shape, NoPlace)
  /\ created' = created \cup {n}
  /\ request' = [request EXCEPT ![r] =
       [NoRequest EXCEPT !.pc = "insert", !.admin = TRUE, !.place = n,
                         !.shape = shape]]
  /\ UNCHANGED <<places, area, covered, address, assigned, evicted, late>>

\* Mutant of Change: nothing is compared with the polygon.
ChangeUnchecked(r, n, shape) ==
  /\ request[r].pc = "idle" /\ Administers
  /\ n \in places
  /\ request' = [request EXCEPT ![r] =
       [NoRequest EXCEPT !.pc = "update", !.admin = TRUE, !.place = n,
                         !.shape = shape]]
  /\ UNCHANGED <<mongoVars, address, assigned, evicted, late>>

\* update of a polygon.
Change(r, n, shape) ==
  /\ request[r].pc = "idle" /\ Administers
  /\ n \in places /\ Free(shape, n)
  /\ request' = [request EXCEPT ![r] =
       [NoRequest EXCEPT !.pc = "update", !.admin = TRUE, !.place = n,
                         !.shape = shape]]
  /\ UNCHANGED <<mongoVars, address, assigned, evicted, late>>

\* The polygon is stored.
Drawn(r) ==
  LET n == request[r].place IN
  /\ area' = [area EXCEPT ![n] = request[r].shape]
  /\ covered' = [covered EXCEPT ![n] = @ \cup request[r].shape]

Insert(r) ==
  /\ request[r].pc = "insert"
  /\ places' = places \cup {request[r].place}
  /\ Drawn(r)
  /\ request' = [request EXCEPT ![r].pc = "select"]
  /\ UNCHANGED <<created, address, assigned, historyVars>>

\* Mutant of Update: residents are left as they are.
UpdateOnly(r) ==
  /\ request[r].pc = "update" /\ request[r].place \in places
  /\ Drawn(r)
  /\ request' = [request EXCEPT ![r] = NoRequest]
  /\ UNCHANGED <<places, created, address, assigned, historyVars>>

Update(r) ==
  /\ request[r].pc = "update" /\ request[r].place \in places
  /\ Drawn(r)
  /\ request' = [request EXCEPT ![r].pc = "select"]
  /\ UNCHANGED <<places, created, address, assigned, historyVars>>

\* findByIdAndUpdate finds nothing any more.
UpdateMisses(r) ==
  /\ request[r].pc = "update" /\ request[r].place \notin places
  /\ request' = [request EXCEPT ![r] = NoRequest]
  /\ UNCHANGED <<mongoVars, address, assigned, historyVars>>

\* reassignPending reads the residents with an address and no neighborhood.
Select(r) ==
  /\ request[r].pc = "select"
  /\ LET pending == {u \in User : assigned[u] = NoPlace /\ address[u] # NoPoint}
         rows == {[user |-> u, point |-> address[u]] : u \in pending} IN
     request' = [request EXCEPT ![r] =
       IF rows = {} THEN NoRequest
       ELSE [request[r] EXCEPT !.pc = "reassign", !.rows = rows]]
  /\ UNCHANGED <<mongoVars, address, assigned, historyVars>>

\* Row by row it looks for the neighborhood of the address read before.
Reassign(r) ==
  /\ request[r].pc = "reassign"
  /\ \E row \in request[r].rows : \E n \in Matches(row.point) :
       LET left == request[r].rows \ {row} IN
       request' = [request EXCEPT ![r] =
         IF n # NoPlace
         THEN [request[r] EXCEPT !.pc = "assign", !.rows = left,
                                 !.user = row.user, !.point = row.point,
                                 !.match = n]
         ELSE IF left = {} THEN NoRequest
         ELSE [request[r] EXCEPT !.rows = left]]
  /\ UNCHANGED <<mongoVars, address, assigned, historyVars>>

AssignRow(r) ==
  /\ request[r].pc = "assign"
  /\ LET u == request[r].user IN
     Assigned(u, request[r].match, request[r].point, address[u])
  /\ request' = [request EXCEPT ![r] =
       IF request[r].rows = {} THEN NoRequest
       ELSE [request[r] EXCEPT !.pc = "reassign"]]
  /\ UNCHANGED <<mongoVars, address, evicted, crossed>>

RemovePlace(r, n) ==
  /\ request[r].pc = "idle" /\ Administers /\ n \in places
  /\ places' = places \ {n}
  /\ request' = [request EXCEPT ![r] =
       [NoRequest EXCEPT !.pc = "clear", !.admin = TRUE, !.place = n]]
  /\ UNCHANGED <<area, created, covered, address, assigned, evicted, late>>

\* Mutant of Clear: the assignments stay.
ClearNothing(r) ==
  /\ request[r].pc = "clear"
  /\ request' = [request EXCEPT ![r] = NoRequest]
  /\ UNCHANGED <<mongoVars, address, assigned, historyVars>>

Clear(r) ==
  /\ request[r].pc = "clear"
  /\ LET out == {u \in User : assigned[u] = request[r].place} IN
     /\ assigned' = [u \in User |-> IF u \in out THEN NoPlace ELSE assigned[u]]
     /\ evicted' = evicted \cup out
     /\ late' = late \ out
  /\ request' = [request EXCEPT ![r] = NoRequest]
  /\ UNCHANGED <<mongoVars, address, crossed>>

NeighborhoodsNext ==
  \/ \E r \in Request : \/ \E u \in User, p \in Point : Submit(r, u, p)
                        \/ StoreAddress(r)
  \/ \E r \in Request, n \in Place :
       \/ \E shape \in (SUBSET Point) \ {{}} : Create(r, n, shape) \/ Change(r, n, shape)
       \/ RemovePlace(r, n)
  \/ \E r \in Request : Insert(r) \/ Update(r) \/ UpdateMisses(r) \/ Clear(r)
  \/ \E r \in Request : Select(r) \/ Reassign(r) \/ AssignRow(r)

NeighborhoodsSpec == NeighborhoodsInit /\ [][NeighborhoodsNext]_neighborhoodsVars

(* ------------------------------- properties ------------------------------ *)

\* No request is served.
AtRest == \A r \in Request : request[r].pc = "idle"

(* Polygons do not overlap (assertNoOverlap), whatever is created, redrawn   *)
(* and removed, unless two administrators were at it at the same time.       *)
AreasAreApart ==
  ~crossed => \A m, n \in places : m # n => area[m] \cap area[n] = {}

\* Nobody is left in a neighborhood that was deleted, where no onboarding would
\* ask for an address.
ResidentsHaveAPlace ==
  \A u \in User \ late : assigned[u] \in places \cup {NoPlace}

\* Residents left pending are assigned once a polygon covers their address;
\* those whose neighborhood was deleted have to submit it again.
CoveredAreAssigned ==
  \A u \in User \ (evicted \cup late) :
    (\E n \in places : address[u] \in area[n]) => assigned[u] # NoPlace

\* A neighborhood that a resident is assigned to covers their address, or did
\* before it shrank.
AssignedContainsAddress ==
  \A u \in User \ late :
    assigned[u] # NoPlace => address[u] \in covered[assigned[u]]

(* Once requests are served, addresses and polygons agree on who lives where,*)
(* however submissions, changes of polygons and removals interleave; save    *)
(* for residents whose neighborhood was stored after what it was looked up   *)
(* from had changed.                                                         *)
AssignmentsAgree ==
  AtRest => ResidentsHaveAPlace /\ CoveredAreAssigned /\ AssignedContainsAddress
=============================================================================
