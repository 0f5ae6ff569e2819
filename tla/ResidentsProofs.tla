--------------------------- MODULE ResidentsProofs ----------------------------
(* Theorems about the session of a browser, neighborhoods and listings, for  *)
(* every value of the constants: the calls of one tab never replay a refresh *)
(* token, polygons stay apart, assignments follow them, and copies of a      *)
(* service agree once nothing is on its way.                                 *)
EXTENDS MCResidents, TLAPS

-----------------------------------------------------------------------------
(* Neighborhoods                                                             *)

RequestType ==
  [pc : {"idle", "store", "insert", "update", "select", "reassign", "assign",
         "clear"},
   admin : BOOLEAN, user : User \cup {NoUser}, point : Point \cup {NoPoint},
   place : Place \cup {NoPlace}, shape : SUBSET Point,
   match : Place \cup {NoPlace}, rows : SUBSET Row]

LEMMA NoRequestType == NoRequest \in RequestType
BY DEF NoRequest, RequestType

LEMMA SubmitType ==
  ASSUME NEW u \in User, NEW p \in Point, NEW n \in Place \cup {NoPlace}
  PROVE  [NoRequest EXCEPT !.pc = "store", !.user = u, !.point = p, !.match = n]
           \in RequestType
BY DEF NoRequest, RequestType

LEMMA CreateType ==
  ASSUME NEW n \in Place, NEW shape \in SUBSET Point, NEW pc \in {"insert", "update"}
  PROVE  [NoRequest EXCEPT !.pc = pc, !.admin = TRUE, !.place = n, !.shape = shape]
           \in RequestType
BY DEF NoRequest, RequestType

LEMMA RemoveType ==
  ASSUME NEW n \in Place
  PROVE  [NoRequest EXCEPT !.pc = "clear", !.admin = TRUE, !.place = n] \in RequestType
BY DEF NoRequest, RequestType

LEMMA MoveType ==
  ASSUME NEW q \in RequestType
  PROVE  /\ [q EXCEPT !.pc = "select"] \in RequestType
         /\ [q EXCEPT !.pc = "reassign"] \in RequestType
BY DEF RequestType

LEMMA RowsType ==
  ASSUME NEW q \in RequestType, NEW rows \in SUBSET Row
  PROVE  /\ [q EXCEPT !.pc = "reassign", !.rows = rows] \in RequestType
         /\ [q EXCEPT !.rows = rows] \in RequestType
BY DEF RequestType

LEMMA AssignType ==
  ASSUME NEW q \in RequestType, NEW row \in Row, NEW left \in SUBSET Row,
         NEW n \in Place
  PROVE  [q EXCEPT !.pc = "assign", !.rows = left, !.user = row.user,
                   !.point = row.point, !.match = n] \in RequestType
BY DEF RequestType, Row

\* What the theorem needs to know of the types.
PlaceShape ==
  /\ request \in [Request -> RequestType]
  /\ places \subseteq Place
  /\ area \in [Place -> SUBSET Point]
  /\ address \in [User -> Point \cup {NoPoint}]

\* A polygon is about to be stored.
Draws(r) == request[r].pc \in {"insert", "update"}

\* It is the administrator's, for a neighborhood that has an identifier.
Drawing == \A r \in Request : Draws(r) => request[r].admin /\ request[r].place \in Place

LEMMA PlaceShapeInit == NeighborhoodsInit => PlaceShape
BY NoRequestType DEF NeighborhoodsInit, PlaceShape

LEMMA MatchesArePlaces ==
  ASSUME PlaceShape, NEW p, NEW n \in Matches(p) PROVE n \in Place \cup {NoPlace}
BY DEF PlaceShape, Matches

LEMMA PlaceShapeStep ==
  PlaceShape /\ Drawing /\ [NeighborhoodsNext]_neighborhoodsVars => PlaceShape'
<1> SUFFICES ASSUME PlaceShape, Drawing, [NeighborhoodsNext]_neighborhoodsVars
             PROVE  PlaceShape'
  OBVIOUS
<1> USE DEF PlaceShape, mongoVars, historyVars
<1>1. ASSUME NEW r \in Request, NEW u \in User, NEW p \in Point, Submit(r, u, p)
      PROVE  PlaceShape'
  <2>1. PICK n \in Matches(p) :
          request' = [request EXCEPT ![r] =
            [NoRequest EXCEPT !.pc = "store", !.user = u, !.point = p, !.match = n]]
    BY <1>1 DEF Submit
  <2>2. n \in Place \cup {NoPlace}
    BY MatchesArePlaces
  <2> QED
    BY <1>1, <2>1, <2>2, SubmitType DEF Submit
<1>2. ASSUME NEW r \in Request, StoreAddress(r) PROVE PlaceShape'
  <2>1. request[r] \in RequestType /\ request[r].pc # "idle"
    BY <1>2 DEF StoreAddress
  <2>2. address' \in [User -> Point \cup {NoPoint}]
    BY <1>2, <2>1 DEF StoreAddress, RequestType
  <2> QED
    BY <1>2, <2>2, NoRequestType DEF StoreAddress
<1>3. ASSUME NEW r \in Request, NEW n \in Place, NEW shape \in SUBSET Point,
             Create(r, n, shape)
      PROVE  PlaceShape'
  BY <1>3, CreateType DEF Create
<1>4. ASSUME NEW r \in Request, NEW n \in Place, NEW shape \in SUBSET Point,
             Change(r, n, shape)
      PROVE  PlaceShape'
  BY <1>4, CreateType DEF Change
<1>5. ASSUME NEW r \in Request, NEW n \in Place, RemovePlace(r, n)
      PROVE  PlaceShape'
  BY <1>5, RemoveType DEF RemovePlace
<1>6. ASSUME NEW r \in Request, Insert(r) PROVE PlaceShape'
  <2>1. request[r] \in RequestType
    OBVIOUS
  <2>2. area' \in [Place -> SUBSET Point]
    BY <1>6, <2>1 DEF Insert, Drawn, RequestType
  <2>3. request' \in [Request -> RequestType]
    BY <1>6, <2>1, MoveType DEF Insert
  <2> QED
    BY <1>6, <2>2, <2>3 DEF Insert, Drawing, Draws
<1>7. ASSUME NEW r \in Request, Update(r) PROVE PlaceShape'
  <2>1. request[r] \in RequestType
    OBVIOUS
  <2>2. area' \in [Place -> SUBSET Point]
    BY <1>7, <2>1 DEF Update, Drawn, RequestType
  <2>3. request' \in [Request -> RequestType]
    BY <1>7, <2>1, MoveType DEF Update
  <2> QED
    BY <1>7, <2>2, <2>3 DEF Update
<1>8. ASSUME NEW r \in Request, UpdateMisses(r) \/ Clear(r) PROVE PlaceShape'
  BY <1>8, NoRequestType DEF UpdateMisses, Clear
<1>9. ASSUME NEW r \in Request, Select(r) PROVE PlaceShape'
  <2> DEFINE rows == {[user |-> u, point |-> address[u]] :
                        u \in {v \in User : assigned[v] = NoPlace /\ address[v] # NoPoint}}
  <2>1. rows \in SUBSET Row
    BY DEF Row
  <2>2. request' = [request EXCEPT ![r] =
          IF rows = {} THEN NoRequest
          ELSE [request[r] EXCEPT !.pc = "reassign", !.rows = rows]]
    BY <1>9 DEF Select
  <2> HIDE DEF rows
  <2>3. request' \in [Request -> RequestType]
    BY <2>1, <2>2, NoRequestType, RowsType
  <2> QED
    BY <1>9, <2>3 DEF Select
<1>10. ASSUME NEW r \in Request, Reassign(r) PROVE PlaceShape'
  <2>1. PICK row \in request[r].rows : \E n \in Matches(row.point) :
          request' = [request EXCEPT ![r] =
            IF n # NoPlace
            THEN [request[r] EXCEPT !.pc = "assign", !.rows = request[r].rows \ {row},
                                    !.user = row.user, !.point = row.point,
                                    !.match = n]
            ELSE IF request[r].rows \ {row} = {} THEN NoRequest
            ELSE [request[r] EXCEPT !.rows = request[r].rows \ {row}]]
    BY <1>10 DEF Reassign
  <2>2. row \in Row /\ request[r].rows \ {row} \in SUBSET Row
    BY DEF RequestType
  <2>3. \A n \in Matches(row.point) : n \in Place \cup {NoPlace}
    BY MatchesArePlaces
  <2>4. PICK n \in Matches(row.point) :
          request' = [request EXCEPT ![r] =
            IF n # NoPlace
            THEN [request[r] EXCEPT !.pc = "assign", !.rows = request[r].rows \ {row},
                                    !.user = row.user, !.point = row.point,
                                    !.match = n]
            ELSE IF request[r].rows \ {row} = {} THEN NoRequest
            ELSE [request[r] EXCEPT !.rows = request[r].rows \ {row}]]
    BY <2>1
  <2>5. CASE n # NoPlace
    BY <1>10, <2>2, <2>3, <2>4, <2>5, AssignType DEF Reassign
  <2>6. CASE n = NoPlace
    BY <1>10, <2>2, <2>4, <2>6, NoRequestType, RowsType DEF Reassign
  <2> QED
    BY <2>5, <2>6
<1>11. ASSUME NEW r \in Request, AssignRow(r) PROVE PlaceShape'
  <2>1. request' \in [Request -> RequestType]
    BY <1>11, NoRequestType, MoveType DEF AssignRow
  <2> QED
    BY <1>11, <2>1 DEF AssignRow
<1>12. ASSUME UNCHANGED neighborhoodsVars PROVE PlaceShape'
  BY <1>12 DEF neighborhoodsVars
<1> QED
  BY <1>1, <1>2, <1>3, <1>4, <1>5, <1>6, <1>7, <1>8, <1>9, <1>10, <1>11, <1>12
     DEF NeighborhoodsNext

UnderAdmin(r) == request[r].pc # "idle" /\ request[r].admin

\* While no two administrators met, at most one is at work, and the polygon
\* about to be stored still overlaps no other neighborhood.
AreaInv ==
  /\ PlaceShape
  /\ Drawing
  /\ ~crossed =>
       /\ \A r, q \in Request : UnderAdmin(r) /\ UnderAdmin(q) => r = q
       /\ \A r \in Request, m \in places :
            Draws(r) /\ m # request[r].place => area[m] \cap request[r].shape = {}
       /\ AreasAreApart

LEMMA AreaStep == AreaInv /\ [NeighborhoodsNext]_neighborhoodsVars => AreaInv'
<1> SUFFICES ASSUME AreaInv, [NeighborhoodsNext]_neighborhoodsVars PROVE AreaInv'
  OBVIOUS
<1>t. PlaceShape'
  BY PlaceShapeStep DEF AreaInv
<1> USE <1>t, NeighborhoodsConstants
    DEF AreaInv, PlaceShape, UnderAdmin, Drawing, Draws, AreasAreApart, mongoVars, historyVars
<1>1. ASSUME NEW r \in Request, NEW u \in User, NEW p \in Point, Submit(r, u, p)
      PROVE  AreaInv'
  BY <1>1 DEF Submit, NoRequest
<1>2. ASSUME NEW r \in Request, StoreAddress(r) PROVE AreaInv'
  BY <1>2 DEF StoreAddress, NoRequest
<1>3. ASSUME NEW r \in Request, NEW n \in Place, NEW shape \in SUBSET Point,
             Create(r, n, shape)
      PROVE  AreaInv'
  BY <1>3 DEF Create, Administers, Free, NoRequest
<1>4. ASSUME NEW r \in Request, NEW n \in Place, NEW shape \in SUBSET Point,
             Change(r, n, shape)
      PROVE  AreaInv'
  BY <1>4 DEF Change, Administers, Free, NoRequest
<1>5. ASSUME NEW r \in Request, NEW n \in Place, RemovePlace(r, n)
      PROVE  AreaInv'
  BY <1>5 DEF RemovePlace, Administers, NoRequest
<1>6. ASSUME NEW r \in Request, Insert(r) PROVE AreaInv'
  BY <1>6 DEF Insert, Drawn, RequestType
<1>7. ASSUME NEW r \in Request, Update(r) PROVE AreaInv'
  BY <1>7 DEF Update, Drawn, RequestType
<1>8. ASSUME NEW r \in Request, UpdateMisses(r) \/ Clear(r) PROVE AreaInv'
  BY <1>8 DEF UpdateMisses, Clear, NoRequest
<1>9. ASSUME NEW r \in Request, Select(r) PROVE AreaInv'
  <2>1. PICK rows : request' = [request EXCEPT ![r] =
          IF rows = {} THEN NoRequest
          ELSE [request[r] EXCEPT !.pc = "reassign", !.rows = rows]]
    BY <1>9 DEF Select
  <2>2. /\ \A q \in Request : Draws(q)' => Draws(q) /\ request'[q] = request[q]
        /\ \A q \in Request : UnderAdmin(q)' => UnderAdmin(q)
    <3>1. CASE rows = {}
      BY <2>1, <3>1 DEF NoRequest
    <3>2. CASE rows # {}
      <4>1. request[r] \in RequestType /\ request[r].pc = "select"
        BY <1>9 DEF Select
      <4>2. request' = [request EXCEPT ![r] =
              [request[r] EXCEPT !.pc = "reassign", !.rows = rows]]
        BY <2>1, <3>2
      <4>3. request'[r].pc = "reassign" /\ request'[r].admin = request[r].admin
        BY <4>1, <4>2 DEF RequestType
      <4>4. \A q \in Request \ {r} : request'[q] = request[q]
        BY <4>2
      <4> QED
        BY <4>1, <4>3, <4>4
    <3> QED
      BY <3>1, <3>2
  <2>3. UNCHANGED <<places, area, crossed>>
    BY <1>9 DEF Select
  <2>4. Drawing'
    BY <2>2
  <2> QED
    BY <2>2, <2>3, <2>4
<1>10. ASSUME NEW r \in Request, Reassign(r) PROVE AreaInv'
  BY <1>10 DEF Reassign, NoRequest, RequestType
<1>11. ASSUME NEW r \in Request, AssignRow(r) PROVE AreaInv'
  BY <1>11 DEF AssignRow, NoRequest, RequestType
<1>12. ASSUME UNCHANGED neighborhoodsVars PROVE AreaInv'
  BY <1>12 DEF neighborhoodsVars
<1> QED
  BY <1>1, <1>2, <1>3, <1>4, <1>5, <1>6, <1>7, <1>8, <1>9, <1>10, <1>11, <1>12
     DEF NeighborhoodsNext

\* Polygons never overlap unless two administrators were at work at the same
\* time, for any neighborhoods, residents and requests.
\* neighborhoods.controller.ts:195-285.
THEOREM PolygonsStayApart == NeighborhoodsSpec => []AreasAreApart
<1>1. NeighborhoodsInit => AreaInv
  BY PlaceShapeInit DEF NeighborhoodsInit, AreaInv, AreasAreApart, UnderAdmin, Drawing,
     Draws, NoRequest
<1>2. AreaInv => AreasAreApart
  BY DEF AreaInv, AreasAreApart
<1>3. QED
  BY <1>1, <1>2, AreaStep, PTL DEF NeighborhoodsSpec

\* What the next theorem needs to know besides: a resident is about to be stored
\* or assigned, and a neighborhood has covered what it covers.
HomeShape ==
  /\ assigned \in [User -> Place \cup {NoPlace}]
  /\ covered \in [Place -> SUBSET Point]
  /\ \A n \in Place : area[n] \subseteq covered[n]
  /\ \A r \in Request : request[r].pc \in {"store", "assign"} => request[r].user \in User
  /\ \A r \in Request : request[r].pc = "assign" => request[r].match \in Place

\* The neighborhood of a resident exists, unless its residents are still to be
\* released.
Clears(r, n) == request[r].pc = "clear" /\ request[r].place = n

PlaceInv ==
  \A u \in User \ late :
    \/ assigned[u] \in places \cup {NoPlace}
    \/ \E r \in Request : Clears(r, assigned[u])

\* reassignPending is going to read u, has read u with the present address, or
\* has found a neighborhood for u.
Serves(r, u) ==
  \/ request[r].pc = "select"
  \/ /\ request[r].pc \in {"reassign", "assign"}
     /\ [user |-> u, point |-> address[u]] \in request[r].rows
  \/ request[r].pc = "assign" /\ request[r].user = u

\* A resident without a neighborhood whose address one covers is served.
PendingInv ==
  \A u \in User \ (evicted \cup late) :
    (\E n \in places : address[u] \in area[n]) /\ assigned[u] = NoPlace
      => \E r \in Request : Serves(r, u)

HomeInv ==
  AreaInv /\ HomeShape /\ PlaceInv /\ PendingInv /\ AssignedContainsAddress

\* A request goes on without an assignment of its own to clear or to make, or
\* with one that it has found.
GoesOn(q) ==
  \/ request'[q] = request[q]
  \/ /\ request[q].pc # "clear"
     /\ \/ request'[q].pc \notin {"store", "assign", "clear"}
        \/ request'[q].pc = "store" /\ request'[q].user \in User
        \/ /\ request'[q].pc = "assign"
           /\ request'[q].user \in User /\ request'[q].match \in Place

\* What a step that moves requests alone has to keep.
LEMMA RequestMoves ==
  ASSUME HomeInv, AreaInv',
         UNCHANGED <<places, area, covered, address, assigned, evicted, late>>,
         \A q \in Request : GoesOn(q),
         \A u \in User, q \in Request :
           Serves(q, u) /\ assigned[u] = NoPlace /\ (\E n \in places : address[u] \in area[n])
             => Serves(q, u)'
  PROVE  HomeInv'
<1>1. HomeShape'
  BY DEF HomeInv, HomeShape, GoesOn
<1>2. PlaceInv'
  BY DEF HomeInv, PlaceInv, Clears, GoesOn
<1>3. PendingInv'
  BY DEF HomeInv, PendingInv
<1>4. AssignedContainsAddress'
  BY DEF HomeInv, AssignedContainsAddress
<1> QED
  BY <1>1, <1>2, <1>3, <1>4 DEF HomeInv

LEMMA SubmitServes ==
  ASSUME HomeInv, AreaInv', NEW r \in Request, NEW u \in User, NEW p \in Point, Submit(r, u, p)
  PROVE  HomeInv'
<1>1. PICK n \in Matches(p) :
        request' = [request EXCEPT ![r] =
          [NoRequest EXCEPT !.pc = "store", !.user = u, !.point = p, !.match = n]]
  BY DEF Submit
<1>2. request \in [Request -> RequestType] /\ request[r].pc = "idle"
  BY DEF Submit, HomeInv, AreaInv, PlaceShape
<1>3. request'[r].pc = "store" /\ request'[r].user = u
  BY <1>1, <1>2 DEF NoRequest
<1>4. \A q \in Request \ {r} : request'[q] = request[q]
  BY <1>1, <1>2
<1>5. UNCHANGED <<places, area, covered, address, assigned, evicted, late>>
  BY DEF Submit, mongoVars, historyVars
<1>6. \A v \in User, q \in Request : Serves(q, v) => Serves(q, v)'
  BY <1>2, <1>4, <1>5 DEF Serves
<1>7. \A q \in Request : GoesOn(q)
  BY <1>2, <1>3, <1>4 DEF GoesOn
<1> QED
  BY <1>5, <1>6, <1>7, RequestMoves

LEMMA MissServes ==
  ASSUME HomeInv, AreaInv', NEW r \in Request, UpdateMisses(r) PROVE HomeInv'
<1>1. /\ request' = [request EXCEPT ![r] = NoRequest] /\ request[r].pc = "update"
      /\ UNCHANGED <<places, area, covered, address, assigned, evicted, late>>
  BY DEF UpdateMisses, mongoVars, historyVars
<1>2. request \in [Request -> RequestType]
  BY DEF HomeInv, AreaInv, PlaceShape
<1>3. request'[r].pc = "idle" /\ \A q \in Request \ {r} : request'[q] = request[q]
  BY <1>1, <1>2 DEF NoRequest
<1>4. \A v \in User, q \in Request : Serves(q, v) => Serves(q, v)'
  BY <1>1, <1>3 DEF Serves
<1>5. \A q \in Request : GoesOn(q)
  BY <1>1, <1>3 DEF GoesOn
<1> QED
  BY <1>1, <1>4, <1>5, RequestMoves

LEMMA SelectServes ==
  ASSUME HomeInv, AreaInv', NEW r \in Request, Select(r) PROVE HomeInv'
<1> DEFINE rows == {[user |-> u, point |-> address[u]] :
                      u \in {v \in User : assigned[v] = NoPlace /\ address[v] # NoPoint}}
<1>1. /\ request' = [request EXCEPT ![r] =
           IF rows = {} THEN NoRequest
           ELSE [request[r] EXCEPT !.pc = "reassign", !.rows = rows]]
      /\ request[r].pc = "select"
      /\ UNCHANGED <<places, area, covered, address, assigned, evicted, late>>
  BY DEF Select, mongoVars, historyVars
<1>2. request \in [Request -> RequestType] /\ area \in [Place -> SUBSET Point]
      /\ places \subseteq Place
  BY DEF HomeInv, AreaInv, PlaceShape
<1>3. \A q \in Request \ {r} : request'[q] = request[q]
  BY <1>1, <1>2
<1>4. ASSUME NEW u \in User, assigned[u] = NoPlace, \E n \in places : address[u] \in area[n]
      PROVE  [user |-> u, point |-> address[u]] \in rows
  BY <1>2, <1>4, NeighborhoodsConstants
<1> HIDE DEF rows
<1>5. /\ rows = {} => request'[r] = NoRequest
      /\ rows # {} => request'[r].pc = "reassign" /\ request'[r].rows = rows
  BY <1>1, <1>2 DEF RequestType
<1>6. ASSUME NEW u \in User, NEW q \in Request, Serves(q, u), assigned[u] = NoPlace,
             \E n \in places : address[u] \in area[n]
      PROVE  Serves(q, u)'
  <2>1. CASE q = r
    BY <1>1, <1>4, <1>5, <1>6, <2>1 DEF Serves
  <2>2. CASE q # r
    BY <1>1, <1>3, <1>6, <2>2 DEF Serves
  <2> QED
    BY <2>1, <2>2
<1>7. request'[r].pc \in {"idle", "reassign"}
  BY <1>5 DEF NoRequest
<1>8. \A q \in Request : GoesOn(q)
  BY <1>1, <1>3, <1>7 DEF GoesOn
<1> QED
  BY <1>1, <1>6, <1>8, RequestMoves

\* The row of a resident whose address is covered is not passed over.
LEMMA ReassignServes ==
  ASSUME HomeInv, AreaInv', NEW r \in Request, Reassign(r) PROVE HomeInv'
<1>1. PICK row \in request[r].rows : \E n \in Matches(row.point) :
        request' = [request EXCEPT ![r] =
          IF n # NoPlace
          THEN [request[r] EXCEPT !.pc = "assign", !.rows = request[r].rows \ {row},
                                  !.user = row.user, !.point = row.point,
                                  !.match = n]
          ELSE IF request[r].rows \ {row} = {} THEN NoRequest
          ELSE [request[r] EXCEPT !.rows = request[r].rows \ {row}]]
  BY DEF Reassign
<1>2. PICK n \in Matches(row.point) :
        request' = [request EXCEPT ![r] =
          IF n # NoPlace
          THEN [request[r] EXCEPT !.pc = "assign", !.rows = request[r].rows \ {row},
                                  !.user = row.user, !.point = row.point,
                                  !.match = n]
          ELSE IF request[r].rows \ {row} = {} THEN NoRequest
          ELSE [request[r] EXCEPT !.rows = request[r].rows \ {row}]]
  BY <1>1
<1> DEFINE left == request[r].rows \ {row}
<1>3. /\ request \in [Request -> RequestType] /\ request[r].pc = "reassign"
      /\ places \subseteq Place
      /\ UNCHANGED <<places, area, covered, address, assigned, evicted, late>>
  BY DEF Reassign, HomeInv, AreaInv, PlaceShape, mongoVars, historyVars
<1>4. \A q \in Request \ {r} : request'[q] = request[q]
  BY <1>2, <1>3
<1>5. row \in Row /\ n \in Place \cup {NoPlace}
  BY <1>3, MatchesArePlaces DEF RequestType, HomeInv, AreaInv
<1>6. n = NoPlace => \A m \in places : row.point \notin area[m]
  BY <1>3, NeighborhoodsConstants DEF Matches
<1>7. \/ /\ n # NoPlace
         /\ request'[r].pc = "assign" /\ request'[r].rows = left
         /\ request'[r].user = row.user /\ request'[r].match = n
      \/ n = NoPlace /\ left = {} /\ request'[r].pc = "idle"
      \/ /\ n = NoPlace /\ left # {}
         /\ request'[r].pc = "reassign" /\ request'[r].rows = left
  <2>1. request[r] \in RequestType
    BY <1>3
  <2>2. CASE n # NoPlace
    BY <1>2, <1>3, <2>1, <2>2 DEF RequestType
  <2>3. CASE n = NoPlace /\ left = {}
    BY <1>2, <1>3, <2>3 DEF NoRequest
  <2>4. CASE n = NoPlace /\ left # {}
    BY <1>2, <1>3, <2>1, <2>4 DEF RequestType
  <2> QED
    BY <2>2, <2>3, <2>4
<1> HIDE DEF left
<1>8. ASSUME NEW u \in User, NEW q \in Request, Serves(q, u),
             \E m \in places : address[u] \in area[m]
      PROVE  Serves(q, u)'
  <2>1. CASE q # r
    BY <1>3, <1>4, <1>8, <2>1 DEF Serves
  <2>2. CASE q = r
    <3> DEFINE mine == [user |-> u, point |-> address[u]]
    <3>1. mine \in request[r].rows
      BY <1>3, <1>8, <2>2 DEF Serves
    <3>2. address' = address
      BY <1>3
    <3>3. CASE mine = row
      <4>1. n # NoPlace
        BY <1>6, <1>8, <3>3
      <4>2. request'[r].pc = "assign" /\ request'[r].user = u
        BY <1>7, <3>3, <4>1
      <4> QED
        BY <2>2, <4>2 DEF Serves
    <3>4. CASE mine # row
      <4>1. mine \in left
        BY <3>1, <3>4 DEF left
      <4> QED
        BY <1>7, <2>2, <3>2, <4>1 DEF Serves
    <3> QED
      BY <3>3, <3>4
  <2> QED
    BY <2>1, <2>2
<1>9. \A q \in Request : GoesOn(q)
  BY <1>3, <1>4, <1>5, <1>7 DEF GoesOn, Row
<1> QED
  BY <1>3, <1>8, <1>9, RequestMoves


LEMMA DrawingStarts ==
  ASSUME HomeInv, AreaInv', NEW r \in Request, NEW n \in Place, NEW shape \in SUBSET Point,
         Create(r, n, shape) \/ Change(r, n, shape)
  PROVE  HomeInv'
<1>1. PICK pc \in {"insert", "update"} :
        request' = [request EXCEPT ![r] =
          [NoRequest EXCEPT !.pc = pc, !.admin = TRUE, !.place = n, !.shape = shape]]
  BY DEF Create, Change
<1>2. /\ request[r].pc = "idle"
      /\ UNCHANGED <<places, area, covered, address, assigned, evicted, late>>
  BY DEF Create, Change, mongoVars
<1>3. request \in [Request -> RequestType]
  BY DEF HomeInv, AreaInv, PlaceShape
<1>4. request'[r].pc = pc /\ \A q \in Request \ {r} : request'[q] = request[q]
  BY <1>1, <1>3 DEF NoRequest
<1>5. \A v \in User, q \in Request : Serves(q, v) => Serves(q, v)'
  BY <1>2, <1>4 DEF Serves
<1>6. \A q \in Request : GoesOn(q)
  BY <1>2, <1>4 DEF GoesOn
<1> QED
  BY <1>2, <1>5, <1>6, RequestMoves

\* Once a polygon is stored, the residents are about to be read.
LEMMA DrawnServes ==
  ASSUME HomeInv, AreaInv', NEW r \in Request, Insert(r) \/ Update(r) PROVE HomeInv'
<1>1. /\ request[r].pc \in {"insert", "update"} /\ Drawn(r)
      /\ request' = [request EXCEPT ![r].pc = "select"]
      /\ places \subseteq places'
      /\ UNCHANGED <<address, assigned, evicted, late>>
  BY DEF Insert, Update, historyVars
<1>2. /\ request \in [Request -> RequestType] /\ area \in [Place -> SUBSET Point]
      /\ covered \in [Place -> SUBSET Point] /\ request[r].place \in Place
      /\ request[r] \in RequestType
  BY <1>1 DEF HomeInv, AreaInv, PlaceShape, HomeShape, Drawing, Draws
<1>3. request'[r].pc = "select" /\ \A q \in Request \ {r} : request'[q] = request[q]
  BY <1>1, <1>2 DEF RequestType
<1>4. /\ covered' \in [Place -> SUBSET Point]
      /\ \A n \in Place : covered[n] \subseteq covered'[n] /\ area'[n] \subseteq covered'[n]
  <2>1. request[r].shape \subseteq Point
    BY <1>2 DEF RequestType
  <2> QED
    BY <1>1, <1>2, <2>1 DEF Drawn, HomeInv, HomeShape
<1>5. HomeShape'
  BY <1>1, <1>3, <1>4 DEF HomeInv, HomeShape
<1>6. PlaceInv'
  BY <1>1, <1>3 DEF HomeInv, PlaceInv, Clears
<1>7. PendingInv'
  BY <1>3 DEF PendingInv, Serves
<1>8. AssignedContainsAddress'
  BY <1>1, <1>4 DEF HomeInv, HomeShape, AssignedContainsAddress
<1> QED
  BY <1>5, <1>6, <1>7, <1>8 DEF HomeInv

LEMMA RemovalStarts ==
  ASSUME HomeInv, AreaInv', NEW r \in Request, NEW n \in Place, RemovePlace(r, n)
  PROVE  HomeInv'
<1>1. /\ request[r].pc = "idle" /\ places' = places \ {n}
      /\ request' = [request EXCEPT ![r] =
           [NoRequest EXCEPT !.pc = "clear", !.admin = TRUE, !.place = n]]
      /\ UNCHANGED <<area, covered, address, assigned, evicted, late>>
  BY DEF RemovePlace
<1>2. request \in [Request -> RequestType]
  BY DEF HomeInv, AreaInv, PlaceShape
<1>3. /\ request'[r].pc = "clear" /\ request'[r].place = n
      /\ \A q \in Request \ {r} : request'[q] = request[q]
  BY <1>1, <1>2 DEF NoRequest
<1>4. HomeShape'
  BY <1>1, <1>3 DEF HomeInv, HomeShape
<1>5. PlaceInv'
  BY <1>1, <1>3 DEF HomeInv, PlaceInv, Clears
<1>6. PendingInv'
  BY <1>1, <1>3 DEF HomeInv, PendingInv, Serves
<1>7. AssignedContainsAddress'
  BY <1>1 DEF HomeInv, AssignedContainsAddress
<1> QED
  BY <1>4, <1>5, <1>6, <1>7 DEF HomeInv

LEMMA ClearReleases ==
  ASSUME HomeInv, AreaInv', NEW r \in Request, Clear(r) PROVE HomeInv'
<1> DEFINE out == {u \in User : assigned[u] = request[r].place}
<1>1. /\ request[r].pc = "clear"
      /\ assigned' = [u \in User |-> IF u \in out THEN NoPlace ELSE assigned[u]]
      /\ evicted' = evicted \cup out /\ late' = late \ out
      /\ request' = [request EXCEPT ![r] = NoRequest]
      /\ UNCHANGED <<places, area, covered, address>>
  BY DEF Clear, mongoVars
<1>2. request \in [Request -> RequestType]
  BY DEF HomeInv, AreaInv, PlaceShape
<1>3. request'[r].pc = "idle" /\ \A q \in Request \ {r} : request'[q] = request[q]
  BY <1>1, <1>2 DEF NoRequest
<1>4. HomeShape'
  BY <1>1, <1>3 DEF HomeInv, HomeShape
<1>5. PlaceInv'
  BY <1>1, <1>3 DEF HomeInv, PlaceInv, Clears
<1>6. PendingInv'
  BY <1>1, <1>3 DEF HomeInv, PendingInv, Serves
<1>7. AssignedContainsAddress'
  BY <1>1 DEF HomeInv, AssignedContainsAddress
<1> QED
  BY <1>4, <1>5, <1>6, <1>7 DEF HomeInv

\* A resident who is assigned what a lookup finds by now, for the present
\* address, lives where it says.
LEMMA AssignedAgrees ==
  ASSUME HomeInv, AreaInv', NEW v \in User, NEW n \in Place \cup {NoPlace}, NEW p,
         Assigned(v, n, p, address'[v]),
         address' \in [User -> Point \cup {NoPoint}],
         \A u \in User \ {v} : address'[u] = address[u],
         evicted \subseteq evicted' \cup {v},
         UNCHANGED <<places, area, covered>>,
         HomeShape',
         \A q \in Request : request[q].pc = "clear" => request'[q] = request[q],
         \A u \in User \ {v}, q \in Request : Serves(q, u) => Serves(q, u)',
         address'[v] = address[v] \/ n # NoPlace \/ p = address'[v]
  PROVE  HomeInv'
<1>1. /\ assigned'[v] = n /\ \A u \in User \ {v} : assigned'[u] = assigned[u]
      /\ v \notin late' => n \in Matches(p) /\ p = address'[v]
      /\ \A u \in User \ {v} : u \notin late' => u \notin late
  BY DEF Assigned, HomeInv, HomeShape
<1>2. /\ n \in Matches(p) /\ n # NoPlace => n \in places /\ p \in area[n]
      /\ NoPlace \in Matches(p) => \A m \in places : p \notin area[m]
  <2>1. NoPlace \notin places
    BY NeighborhoodsConstants DEF HomeInv, AreaInv, PlaceShape
  <2> QED
    BY <2>1 DEF Matches
<1>3. PlaceInv'
  BY <1>1, <1>2 DEF HomeInv, PlaceInv, Clears
<1>4. PendingInv'
  <2> SUFFICES ASSUME NEW u \in User \ (evicted' \cup late'),
                      \E m \in places : address'[u] \in area[m], assigned'[u] = NoPlace
               PROVE  \E q \in Request : Serves(q, u)'
    BY DEF PendingInv
  <2>1. u # v
    BY <1>1, <1>2
  <2> QED
    BY <1>1, <2>1 DEF HomeInv, PendingInv
<1>5. AssignedContainsAddress'
  <2>1. \A m \in places : area[m] \subseteq covered[m]
    BY DEF HomeInv, AreaInv, PlaceShape, HomeShape
  <2> QED
    BY <1>1, <1>2, <2>1 DEF HomeInv, AssignedContainsAddress
<1> QED
  BY <1>3, <1>4, <1>5 DEF HomeInv

LEMMA StoreAgrees ==
  ASSUME HomeInv, AreaInv', NEW r \in Request, StoreAddress(r) PROVE HomeInv'
<1> DEFINE v == request[r].user
           n == request[r].match
           p == request[r].point
<1>1. /\ request[r].pc = "store" /\ address' = [address EXCEPT ![v] = p]
      /\ Assigned(v, n, p, p)
      /\ evicted' = evicted \ {v} /\ request' = [request EXCEPT ![r] = NoRequest]
      /\ UNCHANGED <<places, area, covered>>
  BY DEF StoreAddress, mongoVars
<1>2. /\ request \in [Request -> RequestType] /\ request[r] \in RequestType
      /\ address \in [User -> Point \cup {NoPoint}]
      /\ address' \in [User -> Point \cup {NoPoint}]
  BY DEF HomeInv, AreaInv, PlaceShape
<1>3. v \in User /\ n \in Place \cup {NoPlace}
  BY <1>1, <1>2 DEF HomeInv, HomeShape, RequestType
<1> HIDE DEF v, n, p
<1>4. request'[r].pc = "idle" /\ \A q \in Request \ {r} : request'[q] = request[q]
  BY <1>1, <1>2 DEF NoRequest
<1>5. address'[v] = p /\ \A u \in User \ {v} : address'[u] = address[u]
  BY <1>1, <1>2, <1>3
<1>6. assigned' \in [User -> Place \cup {NoPlace}]
  BY <1>1, <1>3 DEF Assigned, HomeInv, HomeShape
<1>7. HomeShape'
  BY <1>1, <1>4, <1>6 DEF HomeInv, HomeShape
<1>8. \A u \in User \ {v}, q \in Request : Serves(q, u) => Serves(q, u)'
  BY <1>1, <1>4, <1>5 DEF Serves
<1>9. /\ Assigned(v, n, p, address'[v]) /\ evicted \subseteq evicted' \cup {v}
      /\ \A q \in Request : request[q].pc = "clear" => request'[q] = request[q]
  BY <1>1, <1>4, <1>5
<1> QED
  BY <1>1, <1>2, <1>3, <1>5, <1>7, <1>8, <1>9, AssignedAgrees

LEMMA AssignRowAgrees ==
  ASSUME HomeInv, AreaInv', NEW r \in Request, AssignRow(r) PROVE HomeInv'
<1> DEFINE v == request[r].user
           n == request[r].match
           p == request[r].point
<1>1. /\ request[r].pc = "assign" /\ Assigned(v, n, p, address[v])
      /\ request' = [request EXCEPT ![r] =
           IF request[r].rows = {} THEN NoRequest
           ELSE [request[r] EXCEPT !.pc = "reassign"]]
      /\ UNCHANGED <<places, area, covered, address, evicted>>
  BY DEF AssignRow, mongoVars
<1>2. /\ request \in [Request -> RequestType] /\ request[r] \in RequestType
      /\ address \in [User -> Point \cup {NoPoint}]
  BY DEF HomeInv, AreaInv, PlaceShape
<1>3. v \in User /\ n \in Place
  BY <1>1 DEF HomeInv, HomeShape
<1> HIDE DEF n, p
<1>4. /\ request[r].rows = {} => request'[r].pc = "idle"
      /\ request[r].rows # {} => /\ request'[r].pc = "reassign"
                                /\ request'[r].rows = request[r].rows
      /\ \A q \in Request \ {r} : request'[q] = request[q]
  BY <1>1, <1>2 DEF NoRequest, RequestType
<1>5. assigned' \in [User -> Place \cup {NoPlace}]
  BY <1>1, <1>3 DEF Assigned, HomeInv, HomeShape
<1>6. HomeShape'
  BY <1>1, <1>4, <1>5 DEF HomeInv, HomeShape
<1>7. ASSUME NEW u \in User \ {v}, NEW q \in Request, Serves(q, u) PROVE Serves(q, u)'
  BY <1>1, <1>4, <1>7 DEF Serves
<1>8. \A q \in Request : request[q].pc = "clear" => request'[q] = request[q]
  BY <1>1, <1>4
<1> HIDE DEF v
<1> QED
  BY <1>1, <1>2, <1>3, <1>6, <1>7, <1>8, AssignedAgrees

LEMMA HomeStep ==
  ASSUME HomeInv, [NeighborhoodsNext]_neighborhoodsVars PROVE HomeInv'
<1>1. AreaInv'
  BY AreaStep DEF HomeInv
<1>2. ASSUME NEW r \in Request, NEW u \in User, NEW p \in Point,
             Submit(r, u, p) \/ StoreAddress(r)
      PROVE  HomeInv'
  BY <1>1, <1>2, SubmitServes, StoreAgrees
<1>3. ASSUME NEW r \in Request, NEW n \in Place, NEW shape \in SUBSET Point,
             Create(r, n, shape) \/ Change(r, n, shape)
      PROVE  HomeInv'
  BY <1>1, <1>3, DrawingStarts
<1>4. ASSUME NEW r \in Request, NEW n \in Place, RemovePlace(r, n) PROVE HomeInv'
  BY <1>1, <1>4, RemovalStarts
<1>5. ASSUME NEW r \in Request,
             Insert(r) \/ Update(r) \/ UpdateMisses(r) \/ Clear(r)
      PROVE  HomeInv'
  BY <1>1, <1>5, DrawnServes, MissServes, ClearReleases
<1>6. ASSUME NEW r \in Request, Select(r) \/ Reassign(r) \/ AssignRow(r) PROVE HomeInv'
  BY <1>1, <1>6, SelectServes, ReassignServes, AssignRowAgrees
<1>7. ASSUME NEW r \in Request, StoreAddress(r) PROVE HomeInv'
  BY <1>1, <1>7, StoreAgrees
<1>8. ASSUME UNCHANGED neighborhoodsVars PROVE HomeInv'
  BY <1>1, <1>8 DEF neighborhoodsVars, mongoVars, historyVars, HomeInv, HomeShape,
    PlaceInv, PendingInv, AssignedContainsAddress, Clears, Serves
<1> QED
  BY <1>2, <1>3, <1>4, <1>5, <1>6, <1>7, <1>8 DEF NeighborhoodsNext

LEMMA HomeInitially == NeighborhoodsInit => HomeInv
<1> SUFFICES ASSUME NeighborhoodsInit PROVE HomeInv
  OBVIOUS
<1>1. AreaInv
  BY PlaceShapeInit DEF NeighborhoodsInit, AreaInv, AreasAreApart, UnderAdmin, Drawing,
     Draws, NoRequest
<1>2. HomeShape /\ PlaceInv /\ PendingInv /\ AssignedContainsAddress
  BY DEF NeighborhoodsInit, HomeShape, PlaceInv, PendingInv, AssignedContainsAddress,
     NoRequest
<1> QED
  BY <1>1, <1>2 DEF HomeInv

\* Whatever submissions, polygons and removals do to each other: once no request
\* is served, a resident lives in a neighborhood that exists and has covered the
\* address, and one whose address is covered was not forgotten, for any number
\* of residents, neighborhoods and requests (reassignPending,
\* neighborhoods.controller.ts:208-242; address.controller.ts:54-75).
THEOREM AssignmentsFollow == NeighborhoodsSpec => []AssignmentsAgree
<1>1. NeighborhoodsInit => HomeInv
  BY HomeInitially
<1>2. HomeInv => AssignmentsAgree
  <2> SUFFICES ASSUME HomeInv, AtRest PROVE AssignmentsAgree
    BY DEF AssignmentsAgree
  <2>1. ResidentsHaveAPlace
    BY DEF HomeInv, PlaceInv, AtRest, Clears, ResidentsHaveAPlace
  <2>2. CoveredAreAssigned
    BY DEF HomeInv, PendingInv, AtRest, Serves, CoveredAreAssigned
  <2> QED
    BY <2>1, <2>2 DEF HomeInv, AssignmentsAgree
<1> QED
  BY <1>1, <1>2, HomeStep, PTL DEF NeighborhoodsSpec

-----------------------------------------------------------------------------
(* Listings                                                                  *)

GraphWrite ==
  [op : {"sync", "delete", "interest"}, item : Item, title : Title \cup {Gone}]

ListCall ==
  [pc : {"idle", "update"} \cup Refers \cup Removes,
   item : Item \cup {NoItem}, user : Resident \cup {NoResident},
   title : Title \cup {Gone}]

\* What the theorem needs to know of the types.
ListShape ==
  /\ doc \in [Item -> Title \cup {Gone}] /\ published \subseteq Item
  /\ booking \in [Service \X Resident -> {"none", "over"} \cup Active]
  /\ responses \in [Service -> SUBSET Resident] /\ votes \in [Item -> SUBSET Resident]
  /\ node \in [Item -> Title \cup {Gone, Untitled}]
  /\ writes \in Seq(GraphWrite)
  /\ call \in [Call -> ListCall]

\* A request is for a listing of its kind, and a listing that has never been
\* published is not there.
CallInv ==
  /\ \A i \in Item : doc[i] # Gone => i \in published
  /\ \A r \in Call :
       /\ call[r].pc # "idle" => call[r].item \in published
       /\ call[r].pc \in {"book", "respond", "count"} => call[r].item \in Service
       /\ call[r].pc = "interest" => call[r].item \in Event
       /\ call[r].pc \in Refers => call[r].user \in Resident
       /\ call[r].pc = "update" => call[r].title \in Title

\* The document is gone once the cascade is due; it is there as long as a
\* request refers to it and no removal raced with that.
RemovalInv ==
  /\ \A r \in Call : call[r].pc = "cascade" => doc[call[r].item] = Gone
  /\ \A q, r \in Call :
       call[q].pc \in Refers /\ call[r].pc \in Removes /\ call[q].item = call[r].item
         => call[q].item \in raced
  /\ \A r \in Call :
       call[r].pc \in Refers /\ call[r].item \notin raced => doc[call[r].item] # Gone

Cascades(r, i) == call[r].pc = "cascade" /\ call[r].item = i

\* A service that is gone or about to be deleted has no active booking.
BookedInv ==
  \A s \in Service \ raced, u \in Resident :
    /\ booking[<<s, u>>] \in Active => doc[s] # Gone
    /\ \A r \in Call :
         call[r].pc = "delete" /\ call[r].item = s => booking[<<s, u>>] \notin Active

\* Votes and responses of a listing that is gone are about to be dropped.
DroppedInv ==
  \A i \in Item \ (raced \cup failed) :
    \/ doc[i] # Gone
    \/ \E r \in Call : Cascades(r, i)
    \/ votes[i] = {} /\ (i \in Service => responses[i] = {})

\* A write that names the node, or removes it.
Names(k, i) == writes[k].item = i /\ writes[k].op # "interest"

\* A write sets its title, and only an event can be of interest.
WriteInv ==
  \A k \in DOMAIN writes :
    /\ writes[k].op = "sync" => writes[k].title \in Title
    /\ writes[k].op = "delete" => writes[k].title = Gone /\ writes[k].item \in Service
    /\ writes[k].op = "interest" => writes[k].item \in Event
    /\ writes[k].item \in published

\* The last write that names a node leaves it with the title of the listing,
\* unless a removal has still to send its own or no one ever will.
Excused(i) == (\E r \in Call : Cascades(r, i)) \/ (i \in Event /\ doc[i] = Gone)

LastInv ==
  \A i \in Item \ strayed :
    \/ Excused(i)
    \/ /\ \A k \in DOMAIN writes :
            Names(k, i) /\ (\A j \in DOMAIN writes : j > k => ~Names(j, i))
              => writes[k].title = doc[i]
       /\ (\A k \in DOMAIN writes : ~Names(k, i)) => node[i] = doc[i]

\* Whenever an interest lands, the event has its node.
InterestInv ==
  \A k \in DOMAIN writes :
    writes[k].op = "interest" /\ writes[k].item \notin strayed =>
      \/ node[writes[k].item] # Gone
      \/ \E j \in DOMAIN writes : j < k /\ Names(j, writes[k].item)

ListInv ==
  /\ ListShape /\ CallInv /\ RemovalInv /\ BookedInv /\ DroppedInv
  /\ WriteInv /\ LastInv /\ InterestInv

LEMMA ListInitially == ListingsInit => ListInv
<1> SUFFICES ASSUME ListingsInit PROVE ListInv
  OBVIOUS
<1> USE ListingsConstants DEF ListingsInit
<1>1. IdleCall \in ListCall /\ IdleCall.pc = "idle"
  BY DEF IdleCall, ListCall
<1>2. writes \in Seq(GraphWrite) /\ DOMAIN writes = {}
  OBVIOUS
<1>3. ListShape
  BY <1>1, <1>2 DEF ListShape
<1>4. CallInv /\ RemovalInv /\ BookedInv /\ DroppedInv
  BY <1>1 DEF CallInv, RemovalInv, BookedInv, DroppedInv, Active, Refers, Removes, Item
<1>5. WriteInv /\ LastInv /\ InterestInv
  BY <1>2 DEF WriteInv, LastInv, InterestInv
<1> QED
  BY <1>3, <1>4, <1>5 DEF ListInv

(* ----------------------- the writes to the graph ----------------------- *)

\* A listing whose node is due to change keeps its excuse, or has the document
\* that it had.
Steady(m) == Excused(m)' \/ (~Excused(m) /\ doc'[m] = doc[m])

LEMMA GraphKept ==
  ASSUME ListInv, UNCHANGED <<writes, node, strayed>>, published \subseteq published',
         \A m \in Item : Steady(m)
  PROVE  WriteInv' /\ LastInv' /\ InterestInv'
<1>1. WriteInv'
  BY DEF ListInv, WriteInv
<1>2. LastInv'
  BY DEF ListInv, LastInv, Names, Steady
<1>3. InterestInv'
  BY DEF ListInv, InterestInv, Names
<1> QED
  BY <1>1, <1>2, <1>3

LEMMA WriteType ==
  ASSUME NEW s \in Seq(GraphWrite), NEW k \in DOMAIN s
  PROVE  /\ s[k] \in GraphWrite /\ s[k].item \in Item
         /\ s[k].op \in {"sync", "delete", "interest"}
<1>1. DOMAIN s = 1 .. Len(s) /\ Len(s) \in Nat
  OBVIOUS
<1>2. s[k] \in GraphWrite
  BY <1>1
<1> QED
  BY <1>2 DEF GraphWrite

LEMMA Appended ==
  ASSUME ListInv, NEW w \in GraphWrite, writes' = Append(writes, w)
  PROVE  /\ writes' \in Seq(GraphWrite)
         /\ \E new \in Nat :
              /\ DOMAIN writes' = DOMAIN writes \cup {new}
              /\ DOMAIN writes \subseteq Nat /\ \A k \in DOMAIN writes : k < new
              /\ writes'[new] = w
              /\ \A k \in DOMAIN writes : writes'[k] = writes[k]
<1>1. /\ writes \in Seq(GraphWrite) /\ Len(writes) \in Nat
      /\ DOMAIN writes = 1 .. Len(writes)
  BY DEF ListInv, ListShape
<1>2. /\ writes' \in Seq(GraphWrite) /\ Len(writes') = Len(writes) + 1
      /\ DOMAIN writes' = 1 .. Len(writes) + 1
      /\ writes'[Len(writes) + 1] = w
      /\ \A k \in 1 .. Len(writes) : writes'[k] = writes[k]
  BY <1>1
<1>3. /\ DOMAIN writes' = DOMAIN writes \cup {Len(writes) + 1}
      /\ \A k \in DOMAIN writes : k < Len(writes) + 1
      /\ Len(writes) + 1 \in Nat
  BY <1>1, <1>2
<1> QED
  BY <1>1, <1>2, <1>3

LEMMA GraphNamed ==
  ASSUME ListInv, NEW i \in Item, NEW op \in {"sync", "delete"}, Project(op, i, doc'[i]),
         doc'[i] \in Title \cup {Gone},
         op = "sync" => doc'[i] \in Title,
         op = "delete" => i \in Service /\ doc'[i] = Gone,
         i \in published', published \subseteq published',
         UNCHANGED <<node, strayed>>,
         \A m \in Item \ {i} : Steady(m)
  PROVE  writes' \in Seq(GraphWrite) /\ WriteInv' /\ LastInv' /\ InterestInv'
<1> DEFINE w == [op |-> op, item |-> i, title |-> doc'[i]]
<1>1. w \in GraphWrite /\ writes' = Append(writes, w)
  BY DEF GraphWrite, Project
<1>2. w.op = op /\ w.item = i /\ w.title = doc'[i]
  OBVIOUS
<1> HIDE DEF w
<1>3. writes' \in Seq(GraphWrite)
  BY <1>1, Appended
<1>n. PICK new \in Nat :
        /\ DOMAIN writes' = DOMAIN writes \cup {new}
        /\ DOMAIN writes \subseteq Nat /\ \A k \in DOMAIN writes : k < new
        /\ writes'[new] = w
        /\ \A k \in DOMAIN writes : writes'[k] = writes[k]
  BY <1>1, Appended
<1>4. WriteInv'
  BY <1>2, <1>3, <1>n DEF ListInv, WriteInv
<1>5. /\ Names(new, i)' /\ \A m \in Item \ {i} : ~Names(new, m)'
      /\ \A k \in DOMAIN writes, m \in Item : Names(k, m)' <=> Names(k, m)
  BY <1>2, <1>3, <1>n DEF Names
<1>6. LastInv'
  <2> SUFFICES ASSUME NEW m \in Item \ strayed, ~Excused(m)'
               PROVE  /\ \A k \in DOMAIN writes' :
                           Names(k, m)' /\ (\A j \in DOMAIN writes' : j > k => ~Names(j, m)')
                             => writes'[k].title = doc'[m]
                      /\ (\A k \in DOMAIN writes' : ~Names(k, m)') => node[m] = doc'[m]
    BY DEF LastInv
  <2>1. CASE m = i
    BY <1>2, <1>3, <1>n, <1>5, <2>1
  <2>2. CASE m # i
    <3>1. ~Excused(m) /\ doc'[m] = doc[m]
      BY <2>2 DEF Steady
    <3> QED
      BY <1>3, <1>n, <1>5, <2>2, <3>1 DEF ListInv, LastInv
  <2> QED
    BY <2>1, <2>2
<1>7. InterestInv'
  <2>1. \A k \in DOMAIN writes : writes[k].item \in Item
    BY WriteType DEF ListInv, ListShape
  <2>2. writes'[new].op # "interest"
    BY <1>2, <1>3, <1>n
  <2> QED
    BY <1>3, <1>n, <1>5, <2>1, <2>2 DEF ListInv, InterestInv
<1> QED
  BY <1>3, <1>n, <1>4, <1>6, <1>7

\* An interest is sent while the event is there: its node is there too, or on
\* its way.
LEMMA GraphInterest ==
  ASSUME ListInv, NEW i \in Event, doc[i] # Gone, Project("interest", i, Gone),
         UNCHANGED <<doc, published, node, strayed>>, \A m \in Item : Steady(m)
  PROVE  writes' \in Seq(GraphWrite) /\ WriteInv' /\ LastInv' /\ InterestInv'
<1> DEFINE w == [op |-> "interest", item |-> i, title |-> Gone]
<1>1. w \in GraphWrite /\ writes' = Append(writes, w)
  BY DEF GraphWrite, Project, Item
<1>2. w.op = "interest" /\ w.item = i
  OBVIOUS
<1> HIDE DEF w
<1>3. writes' \in Seq(GraphWrite)
  BY <1>1, Appended
<1>n. PICK new \in Nat :
        /\ DOMAIN writes' = DOMAIN writes \cup {new}
        /\ DOMAIN writes \subseteq Nat /\ \A k \in DOMAIN writes : k < new
        /\ writes'[new] = w
        /\ \A k \in DOMAIN writes : writes'[k] = writes[k]
  BY <1>1, Appended
<1>4. i \in Item /\ i \in published
  BY DEF Item, ListInv, CallInv
<1>5. WriteInv'
  BY <1>2, <1>3, <1>n, <1>4 DEF ListInv, WriteInv
<1>6. /\ \A m \in Item : ~Names(new, m)'
      /\ \A k \in DOMAIN writes, m \in Item : Names(k, m)' <=> Names(k, m)
  BY <1>2, <1>3, <1>n DEF Names
<1>7. LastInv'
  <2> SUFFICES ASSUME NEW m \in Item \ strayed, ~Excused(m)'
               PROVE  /\ \A k \in DOMAIN writes' :
                           Names(k, m)' /\ (\A j \in DOMAIN writes' : j > k => ~Names(j, m)')
                             => writes'[k].title = doc'[m]
                      /\ (\A k \in DOMAIN writes' : ~Names(k, m)') => node[m] = doc'[m]
    BY DEF LastInv
  <2>1. ~Excused(m) /\ doc'[m] = doc[m]
    BY DEF Steady
  <2> QED
    BY <1>3, <1>n, <1>6, <2>1 DEF ListInv, LastInv
<1>8. InterestInv'
  <2>1. \A k \in DOMAIN writes : writes[k].item \in Item
    BY WriteType DEF ListInv, ListShape
  <2>2. ~Excused(i)
    BY DEF Excused, Cascades, ListInv, RemovalInv
  <2>3. i \in strayed \/ node[i] # Gone \/ \E j \in DOMAIN writes : Names(j, i)
    BY <1>4, <2>2 DEF ListInv, LastInv
  <2>4. writes'[new].item = i
    BY <1>2, <1>3, <1>n
  <2>5. \A k \in DOMAIN writes' : writes'[k].item \in Item
    BY <1>3, WriteType
  <2> SUFFICES ASSUME NEW k \in DOMAIN writes', writes'[k].op = "interest",
                      NEW m \in Item, m = writes'[k].item, m \notin strayed,
                      node[m] = Gone
               PROVE  \E j \in DOMAIN writes' : j < k /\ Names(j, m)'
    BY <2>5 DEF InterestInv
  <2>6. CASE k = new
    BY <1>n, <1>4, <1>6, <2>3, <2>4, <2>6
  <2>7. CASE k # new
    BY <1>n, <1>6, <2>7 DEF ListInv, InterestInv
  <2> QED
    BY <2>6, <2>7
<1> QED
  BY <1>3, <1>n, <1>5, <1>7, <1>8

\* Where a write comes to be once the one at k has landed.
Before(k, j) == IF j < k THEN j ELSE j + 1

LEMMA Removed ==
  ASSUME ListInv, NEW k \in DOMAIN writes, writes' = RemoveAt(writes, k)
  PROVE  /\ writes' \in Seq(GraphWrite)
         /\ DOMAIN writes \subseteq Nat /\ DOMAIN writes' \subseteq Nat
         /\ \A j \in DOMAIN writes' :
              Before(k, j) \in DOMAIN writes \ {k} /\ writes'[j] = writes[Before(k, j)]
         /\ \A n \in DOMAIN writes \ {k} : \E j \in DOMAIN writes' : n = Before(k, j)
<1>1. /\ writes \in Seq(GraphWrite) /\ Len(writes) \in Nat
      /\ DOMAIN writes = 1 .. Len(writes)
  BY DEF ListInv, ListShape
<1> DEFINE head == SubSeq(writes, 1, k - 1)
           tail == SubSeq(writes, k + 1, Len(writes))
<1>2. /\ head \in Seq(GraphWrite) /\ Len(head) = k - 1
      /\ \A j \in 1 .. k - 1 : head[j] = writes[j]
  BY <1>1
<1>3. /\ tail \in Seq(GraphWrite) /\ Len(tail) = Len(writes) - k
      /\ \A j \in 1 .. Len(writes) - k : tail[j] = writes[j + k]
  BY <1>1
<1>4. writes' = head \o tail
  BY DEF RemoveAt
<1> HIDE DEF head, tail
<1>c. /\ head \o tail \in Seq(GraphWrite)
      /\ Len(head \o tail) = Len(head) + Len(tail)
      /\ \A j \in 1 .. Len(head) + Len(tail) :
           (head \o tail)[j] = IF j <= Len(head) THEN head[j] ELSE tail[j - Len(head)]
  BY <1>2, <1>3
<1>d. \A j \in 1 .. (k - 1) + (Len(writes) - k) :
        writes'[j] = IF j <= k - 1 THEN head[j] ELSE tail[j - (k - 1)]
  BY <1>2, <1>3, <1>4, <1>c
<1>5. /\ writes' \in Seq(GraphWrite) /\ Len(writes') = Len(writes) - 1
      /\ DOMAIN writes' = 1 .. Len(writes) - 1
  <2>1. writes' \in Seq(GraphWrite) /\ Len(writes') = (k - 1) + (Len(writes) - k)
    BY <1>2, <1>3, <1>4, <1>c
  <2> QED
    BY <1>1, <2>1
<1>6. ASSUME NEW j \in DOMAIN writes'
      PROVE  Before(k, j) \in DOMAIN writes \ {k} /\ writes'[j] = writes[Before(k, j)]
  <2>1. CASE j < k
    <3>1. writes'[j] = head[j] /\ j \in 1 .. k - 1
      BY <1>1, <1>5, <1>d, <2>1
    <3>2. head[j] = writes[j]
      BY <1>2, <3>1
    <3> QED
      BY <1>1, <2>1, <3>1, <3>2 DEF Before
  <2>2. CASE ~(j < k)
    <3>1. writes'[j] = tail[j - (k - 1)]
      BY <1>1, <1>5, <1>d, <2>2
    <3>2. tail[j - (k - 1)] = writes[j + 1]
      BY <1>1, <1>3, <1>5, <2>2
    <3> QED
      BY <1>1, <1>5, <2>2, <3>1, <3>2 DEF Before
  <2> QED
    BY <2>1, <2>2
<1>7. ASSUME NEW n \in DOMAIN writes \ {k}
      PROVE  \E j \in DOMAIN writes' : n = Before(k, j)
  <2>1. CASE n < k
    BY <1>1, <1>5, <2>1 DEF Before
  <2>2. CASE n > k
    <3>1. n - 1 \in DOMAIN writes' /\ n = Before(k, n - 1)
      BY <1>1, <1>5, <2>2 DEF Before
    <3> QED
      BY <3>1
  <2> QED
    BY <1>1, <2>1, <2>2
<1> QED
  BY <1>1, <1>5, <1>6, <1>7

LEMMA LandKeeps ==
  ASSUME ListInv, NEW k \in DOMAIN writes, Land(k) \/ Fail(k)
  PROVE  ListInv'
<1> DEFINE i == writes[k].item
<1>1. /\ writes' = RemoveAt(writes, k)
      /\ UNCHANGED <<documentVars, dependentVars, call, raced, failed>>
      /\ strayed \subseteq strayed'
  BY DEF Land, Fail
<1>2. writes[k] \in GraphWrite /\ i \in Item
  BY WriteType DEF ListInv, ListShape
<1>3. /\ writes' \in Seq(GraphWrite)
      /\ DOMAIN writes \subseteq Nat /\ DOMAIN writes' \subseteq Nat
      /\ \A j \in DOMAIN writes' :
           Before(k, j) \in DOMAIN writes \ {k} /\ writes'[j] = writes[Before(k, j)]
      /\ \A n \in DOMAIN writes \ {k} : \E j \in DOMAIN writes' : n = Before(k, j)
  BY <1>1, Removed
<1>4. \A j, l \in DOMAIN writes' : l > j <=> Before(k, l) > Before(k, j)
  BY <1>3 DEF Before
<1>5. \A j \in DOMAIN writes', m \in Item : Names(j, m)' <=> Names(Before(k, j), m)
  BY <1>3 DEF Names
\* The node after the landing, of a listing whose writes are in order.
<1>6. /\ node' \in [Item -> Title \cup {Gone, Untitled}]
      /\ \A m \in Item \ {i} : node'[m] = node[m]
      /\ i \notin strayed' =>
           /\ \A j \in DOMAIN writes : j < k => writes[j].item # i
           /\ writes[k].op # "interest" => node'[i] = writes[k].title
           /\ writes[k].op = "interest" => node'[i] = node[i]
  <2>1. node \in [Item -> Title \cup {Gone, Untitled}]
    BY DEF ListInv, ListShape
  <2>2. CASE Fail(k)
    BY <2>1, <2>2 DEF Fail
  <2>3. CASE Land(k)
    <3> DEFINE named == CASE writes[k].op = "sync" -> writes[k].title
                          [] writes[k].op = "delete" -> Gone
                          [] writes[k].op = "interest" ->
                               IF node[i] = Gone THEN Untitled ELSE node[i]
    <3>1. /\ node' = [node EXCEPT ![i] = named]
          /\ strayed' = IF Earlier(k) THEN strayed \cup {i} ELSE strayed
      BY <2>3 DEF Land
    <3>2. /\ writes[k].op = "sync" => named = writes[k].title
          /\ writes[k].op = "delete" => named = Gone /\ writes[k].title = Gone
          /\ writes[k].op = "interest" =>
               named = IF node[i] = Gone THEN Untitled ELSE node[i]
      BY DEF ListInv, WriteInv
    <3>3. writes[k].op \in {"sync", "delete", "interest"}
      BY <1>2 DEF GraphWrite
    <3> HIDE DEF named
    <3>4. named \in Title \cup {Gone, Untitled}
      BY <1>2, <2>1, <3>2, <3>3 DEF ListInv, WriteInv
    <3>5. /\ node' \in [Item -> Title \cup {Gone, Untitled}] /\ node'[i] = named
          /\ \A m \in Item \ {i} : node'[m] = node[m]
      BY <1>2, <2>1, <3>1, <3>4
    <3>6. ASSUME i \notin strayed'
          PROVE  /\ i \notin strayed
                 /\ \A j \in DOMAIN writes : j < k => writes[j].item # i
      <4>1. ~Earlier(k)
        BY <3>1, <3>6
      <4>2. k \in 1 .. Len(writes) /\ Len(writes) \in Nat /\ DOMAIN writes = 1 .. Len(writes)
        BY DEF ListInv, ListShape
      <4> QED
        BY <3>1, <3>6, <4>1, <4>2 DEF Earlier
    <3>7. ASSUME i \notin strayed', writes[k].op = "interest"
          PROVE  node[i] # Gone
      BY <3>6, <3>7 DEF ListInv, InterestInv, Names
    <3> QED
      BY <3>2, <3>3, <3>5, <3>6, <3>7
  <2> QED
    BY <2>2, <2>3
<1> HIDE DEF i
<1>7. ListShape' /\ CallInv' /\ RemovalInv' /\ BookedInv' /\ DroppedInv'
  BY <1>1, <1>3, <1>6 DEF documentVars, dependentVars, ListInv, ListShape, CallInv,
    RemovalInv, BookedInv, DroppedInv, Cascades
<1>8. WriteInv'
  <2> SUFFICES ASSUME NEW j \in DOMAIN writes'
               PROVE  /\ writes'[j].op = "sync" => writes'[j].title \in Title
                      /\ writes'[j].op = "delete" =>
                           writes'[j].title = Gone /\ writes'[j].item \in Service
                      /\ writes'[j].op = "interest" => writes'[j].item \in Event
                      /\ writes'[j].item \in published'
    BY DEF WriteInv
  <2>1. Before(k, j) \in DOMAIN writes /\ writes'[j] = writes[Before(k, j)]
    BY <1>3
  <2> QED
    BY <1>1, <2>1 DEF ListInv, WriteInv, documentVars
<1>9. \A m \in Item : Excused(m)' <=> Excused(m)
  BY <1>1 DEF Excused, Cascades, documentVars
<1>10. LastInv'
  <2> SUFFICES ASSUME NEW m \in Item \ strayed', ~Excused(m)'
               PROVE  /\ \A j \in DOMAIN writes' :
                           Names(j, m)' /\ (\A l \in DOMAIN writes' : l > j => ~Names(l, m)')
                             => writes'[j].title = doc'[m]
                      /\ (\A j \in DOMAIN writes' : ~Names(j, m)') => node'[m] = doc'[m]
    BY DEF LastInv
  <2>1. m \notin strayed /\ ~Excused(m) /\ doc'[m] = doc[m]
    BY <1>1, <1>9 DEF documentVars
  <2>2. /\ \A n \in DOMAIN writes :
             Names(n, m) /\ (\A l \in DOMAIN writes : l > n => ~Names(l, m))
               => writes[n].title = doc[m]
        /\ (\A n \in DOMAIN writes : ~Names(n, m)) => node[m] = doc[m]
    BY <2>1 DEF ListInv, LastInv
  \* The write that has landed was the first of its listing.
  <2>3. m = i => \A n \in DOMAIN writes : n < k => ~Names(n, m)
    BY <1>6 DEF Names
  <2>4. m # i => ~Names(k, m)
    BY DEF Names, i
  <2>5. ASSUME NEW j \in DOMAIN writes', Names(j, m)',
               \A l \in DOMAIN writes' : l > j => ~Names(l, m)'
        PROVE  writes'[j].title = doc'[m]
    <3>1. Before(k, j) \in DOMAIN writes \ {k} /\ Names(Before(k, j), m)
      BY <1>3, <1>5, <2>5
    <3>2. ASSUME NEW n \in DOMAIN writes, n > Before(k, j), Names(n, m) PROVE FALSE
      <4>1. CASE n = k
        BY <1>3, <2>3, <2>4, <3>1, <3>2, <4>1
      <4>2. CASE n # k
        <5>1. PICK l \in DOMAIN writes' : n = Before(k, l)
          BY <1>3, <4>2
        <5> QED
          BY <1>4, <1>5, <2>5, <3>2, <5>1
      <4> QED
        BY <4>1, <4>2
    <3> QED
      BY <1>3, <2>1, <2>2, <3>1, <3>2
  <2>6. ASSUME \A j \in DOMAIN writes' : ~Names(j, m)'
        PROVE  node'[m] = doc'[m]
    <3>1. \A n \in DOMAIN writes \ {k} : ~Names(n, m)
      BY <1>3, <1>5, <2>6
    <3>2. CASE Names(k, m)
      <4>1. m = i /\ writes[k].op # "interest"
        BY <3>2 DEF Names, i
      <4>2. writes[k].title = doc[m]
        BY <1>3, <2>2, <3>1, <3>2
      <4> QED
        BY <1>6, <2>1, <4>1, <4>2
    <3>3. CASE ~Names(k, m)
      <4>1. node[m] = doc[m]
        BY <2>2, <3>1, <3>3
      <4>2. m = i => writes[k].op = "interest"
        BY <3>3 DEF Names, i
      <4> QED
        BY <1>6, <2>1, <4>1, <4>2
    <3> QED
      BY <3>2, <3>3
  <2> QED
    BY <2>5, <2>6
<1>11. InterestInv'
  <2>t. \A j \in DOMAIN writes' : writes'[j].item \in Item
    BY <1>3, WriteType
  <2> SUFFICES ASSUME NEW j \in DOMAIN writes', writes'[j].op = "interest",
                      NEW m \in Item, m = writes'[j].item, m \notin strayed',
                      node'[m] = Gone
               PROVE  \E l \in DOMAIN writes' : l < j /\ Names(l, m)'
    BY <2>t DEF InterestInv
  <2>1. /\ Before(k, j) \in DOMAIN writes \ {k} /\ writes[Before(k, j)].op = "interest"
        /\ m = writes[Before(k, j)].item
    BY <1>3
  <2>2. m \in Event /\ m \notin strayed
    BY <1>1, <2>1 DEF ListInv, WriteInv
  <2>3. node[m] # Gone \/ \E n \in DOMAIN writes : n < Before(k, j) /\ Names(n, m)
    BY <2>1, <2>2 DEF ListInv, InterestInv
  \* The one that has landed has not named the node: it would have its title.
  <2>4. ~Names(k, m)
    <3> SUFFICES ASSUME Names(k, m) PROVE FALSE
      OBVIOUS
    <3>1. m = i /\ writes[k].op # "interest"
      BY DEF Names, i
    <3>2. writes[k].op = "sync"
      <4>1. i \notin Service
        BY <2>2, <3>1, ListingsConstants
      <4> QED
        BY <1>2, <3>1, <4>1 DEF ListInv, WriteInv, GraphWrite, i
    <3>3. writes[k].title \in Title
      BY <3>2 DEF ListInv, WriteInv
    <3>4. node'[m] = writes[k].title
      BY <1>6, <3>1
    <3> QED
      BY <3>3, <3>4, ListingsConstants
  <2>5. node'[m] = node[m]
    BY <1>6, <2>2, <2>4 DEF Names, i
  <2>6. PICK n \in DOMAIN writes : n < Before(k, j) /\ Names(n, m)
    BY <2>3, <2>5
  <2>7. PICK l \in DOMAIN writes' : n = Before(k, l)
    BY <1>3, <2>4, <2>6
  <2> QED
    BY <1>4, <1>5, <2>2, <2>6, <2>7
<1> QED
  BY <1>7, <1>8, <1>10, <1>11 DEF ListInv

(* ------------------------------- requests ------------------------------- *)

LEMMA Started ==
  ASSUME ListInv, NEW r \in Call, NEW i \in Item, NEW u, NEW title,
         NEW pc \in {"update", "count", "delete"} \cup Refers,
         Start(r, i, pc, u, title),
         pc \in {"book", "respond", "count"} => i \in Service,
         pc \in {"interest", "delete"} => i \in Event,
         IF pc \in Refers THEN u \in Resident ELSE u = NoResident,
         IF pc = "update" THEN title \in Title ELSE title = Gone
  PROVE  ListInv'
<1> DEFINE c == [pc |-> pc, item |-> i, user |-> u, title |-> title]
<1>1. /\ call[r].pc = "idle" /\ doc[i] # Gone
      /\ call' = [call EXCEPT ![r] = c]
      /\ UNCHANGED <<documentVars, dependentVars, node, writes, failed, strayed>>
  BY DEF Start
<1>2. /\ raced \subseteq raced'
      /\ (\E q \in Call : call[q].item = i /\
            call[q].pc \in (IF pc \in Refers THEN Removes
                            ELSE IF pc \in Removes THEN Refers ELSE {}))
           => i \in raced'
  BY DEF Start
<1>3. /\ c.pc = pc /\ c.item = i /\ c.user = u /\ c.title = title
      /\ c \in ListCall
  BY DEF ListCall, Refers, Removes
<1> HIDE DEF c
<1>4. /\ call' \in [Call -> ListCall] /\ call'[r] = c
      /\ \A q \in Call \ {r} : call'[q] = call[q]
  BY <1>1, <1>3 DEF ListInv, ListShape
<1>5. ListShape'
  BY <1>1, <1>4 DEF ListInv, ListShape, documentVars, dependentVars
<1>6. CallInv'
  BY <1>1, <1>3, <1>4 DEF ListInv, CallInv, documentVars
<1>7. RemovalInv'
  <2>1. /\ c.pc # "cascade" /\ ~(c.pc \in Refers /\ c.pc \in Removes)
        /\ doc' = doc
    BY <1>1, <1>3 DEF Refers, Removes, documentVars
  <2>2. \A q \in Call \ {r} :
          /\ c.pc \in Refers /\ call[q].pc \in Removes /\ call[q].item = i => i \in raced'
          /\ c.pc \in Removes /\ call[q].pc \in Refers /\ call[q].item = i => i \in raced'
    BY <1>2, <1>3 DEF Refers, Removes
  <2>3. \A q \in Call : call'[q].pc = "cascade" => doc'[call'[q].item] = Gone
    BY <1>4, <2>1 DEF ListInv, RemovalInv
  <2>4. \A q, p \in Call :
          call'[q].pc \in Refers /\ call'[p].pc \in Removes /\ call'[q].item = call'[p].item
            => call'[q].item \in raced'
    BY <1>2, <1>3, <1>4, <2>1, <2>2 DEF ListInv, RemovalInv
  <2>5. \A q \in Call :
          call'[q].pc \in Refers /\ call'[q].item \notin raced' => doc'[call'[q].item] # Gone
    BY <1>1, <1>2, <1>3, <1>4, <2>1 DEF ListInv, RemovalInv
  <2> QED
    BY <2>3, <2>4, <2>5 DEF RemovalInv
<1>8. BookedInv'
  BY <1>1, <1>2, <1>3, <1>4, ListingsConstants
     DEF ListInv, BookedInv, documentVars, dependentVars
<1>9. \A q \in Call, m \in Item : Cascades(q, m)' <=> Cascades(q, m)
  BY <1>1, <1>3, <1>4 DEF Cascades, Refers
<1>10. DroppedInv'
  BY <1>1, <1>2, <1>9 DEF ListInv, DroppedInv, documentVars, dependentVars
<1>11. WriteInv' /\ LastInv' /\ InterestInv'
  <2>1. \A m \in Item : Steady(m)
    BY <1>1, <1>9 DEF Steady, Excused, documentVars
  <2> QED
    BY <1>1, <2>1, GraphKept DEF documentVars
<1> QED
  BY <1>5, <1>6, <1>7, <1>8, <1>10, <1>11 DEF ListInv

\* What the end of a request keeps, where listings stay or stay gone.
LEMMA Ended ==
  ASSUME ListInv, NEW r \in Call, End(r), UNCHANGED <<published, raced>>,
         \A i \in Item : doc'[i] = Gone <=> doc[i] = Gone
  PROVE  /\ call' \in [Call -> ListCall] /\ call'[r].pc = "idle"
         /\ \A q \in Call \ {r} : call'[q] = call[q]
         /\ CallInv' /\ RemovalInv'
         /\ \A q \in Call, i \in Item : Cascades(q, i)' <=> q # r /\ Cascades(q, i)
<1>1. IdleCall \in ListCall /\ IdleCall.pc = "idle"
  BY DEF IdleCall, ListCall
<1>2. /\ call' \in [Call -> ListCall] /\ call'[r] = IdleCall
      /\ \A q \in Call \ {r} : call'[q] = call[q]
  BY <1>1 DEF End, ListInv, ListShape
<1>3. CallInv'
  BY <1>1, <1>2 DEF ListInv, CallInv, Refers
<1>4. \A q \in Call : call[q].pc \in Refers \cup Removes => call[q].item \in Item
  BY DEF ListInv, CallInv, ListShape, Refers, Removes
<1>5. RemovalInv'
  <2>1. call'[r].pc \notin Refers \cup Removes
    BY <1>1, <1>2 DEF Refers, Removes
  <2>2. \A q \in Call : call'[q].pc = "cascade" => doc'[call'[q].item] = Gone
    BY <1>2, <1>4, <2>1 DEF ListInv, RemovalInv, Removes
  <2> QED
    BY <1>2, <1>4, <2>1, <2>2 DEF ListInv, RemovalInv
<1>6. \A q \in Call, i \in Item : Cascades(q, i)' <=> q # r /\ Cascades(q, i)
  BY <1>1, <1>2 DEF Cascades
<1> QED
  BY <1>1, <1>2, <1>3, <1>5, <1>6

\* Bookings stay as they are, and a removal that passes the count found none.
LEMMA BookedKept ==
  ASSUME ListInv, UNCHANGED <<booking, raced>>,
         \A s \in Service \ raced, v \in Resident :
           booking[<<s, v>>] \in Active /\ doc[s] # Gone =>
             \/ doc'[s] # Gone
             \/ \E q \in Call : call[q].pc = "delete" /\ call[q].item = s,
         \A s \in Service \ raced, q \in Call :
           call'[q].pc = "delete" /\ call'[q].item = s =>
             \/ \E p \in Call : call[p].pc = "delete" /\ call[p].item = s
             \/ \A v \in Resident : booking[<<s, v>>] \notin Active
  PROVE  BookedInv'
<1> SUFFICES ASSUME NEW s \in Service \ raced, NEW v \in Resident
             PROVE  /\ booking[<<s, v>>] \in Active => doc'[s] # Gone
                    /\ \A q \in Call : call'[q].pc = "delete" /\ call'[q].item = s
                         => booking[<<s, v>>] \notin Active
  BY DEF BookedInv
<1>1. /\ booking[<<s, v>>] \in Active => doc[s] # Gone
      /\ \A q \in Call : call[q].pc = "delete" /\ call[q].item = s
           => booking[<<s, v>>] \notin Active
  BY DEF ListInv, BookedInv
<1> QED
  BY <1>1

\* A request that refers to a listing ends: it found the listing where its
\* removal did not race.
LEMMA Referred ==
  ASSUME ListInv, NEW r \in Call, Book(r) \/ Respond(r) \/ Vote(r)
  PROVE  ListInv'
<1> DEFINE i == call[r].item
           u == call[r].user
<1>1. /\ call[r].pc \in Refers /\ call[r].pc # "cascade" /\ End(r)
      /\ UNCHANGED <<doc, published, node, writes, raced, failed, strayed>>
  BY DEF Book, Respond, Vote, documentVars, listingHistory, Refers
<1>2. /\ call' \in [Call -> ListCall] /\ call'[r].pc = "idle"
      /\ \A q \in Call \ {r} : call'[q] = call[q]
      /\ CallInv' /\ RemovalInv'
      /\ \A q \in Call, m \in Item : Cascades(q, m)' <=> q # r /\ Cascades(q, m)
  BY <1>1, Ended
<1>3. \A q \in Call, m \in Item : Cascades(q, m)' <=> Cascades(q, m)
  BY <1>1, <1>2 DEF Cascades
<1>4. /\ i \in Item /\ u \in Resident
      /\ i \notin raced => doc[i] # Gone
      /\ i \notin raced => \A q \in Call : call[q].pc \in Removes => call[q].item # i
      /\ call[r].pc \in {"book", "respond"} => i \in Service
  BY <1>1 DEF ListInv, ListShape, CallInv, RemovalInv, Refers, Removes
<1> HIDE DEF i, u
<1>5. /\ booking' \in [Service \X Resident -> {"none", "over"} \cup Active]
      /\ \A s \in Service, v \in Resident :
           s # i => booking'[<<s, v>>] = booking[<<s, v>>]
  <2>1. CASE Book(r)
    <3>1. booking' = [booking EXCEPT ![<<i, u>>] = "pending"]
      BY <2>1 DEF Book, i, u
    <3> QED
      BY <3>1 DEF ListInv, ListShape, Active
  <2>2. CASE Respond(r) \/ Vote(r)
    BY <2>2 DEF Respond, Vote, ListInv, ListShape
  <2> QED
    BY <1>1, <2>1, <2>2
<1>6. /\ responses' \in [Service -> SUBSET Resident]
      /\ \A s \in Service : s # i => responses'[s] = responses[s]
  <2>1. CASE Respond(r)
    <3>1. responses' = [responses EXCEPT ![i] = @ \cup {u}]
      BY <2>1 DEF Respond, i, u
    <3> QED
      BY <1>4, <3>1 DEF ListInv, ListShape
  <2>2. CASE Book(r) \/ Vote(r)
    BY <2>2 DEF Book, Vote, ListInv, ListShape
  <2> QED
    BY <2>1, <2>2
<1>7. /\ votes' \in [Item -> SUBSET Resident]
      /\ \A m \in Item : m # i => votes'[m] = votes[m]
  <2>1. CASE Vote(r)
    <3>1. votes' = [votes EXCEPT ![i] = IF u \in @ THEN @ \ {u} ELSE @ \cup {u}]
      BY <2>1 DEF Vote, i, u
    <3> QED
      BY <1>4, <3>1 DEF ListInv, ListShape
  <2>2. CASE Book(r) \/ Respond(r)
    BY <2>2 DEF Book, Respond, ListInv, ListShape
  <2> QED
    BY <2>1, <2>2
<1>8. ListShape'
  BY <1>1, <1>2, <1>5, <1>6, <1>7 DEF ListInv, ListShape
<1>9. BookedInv'
  <2> SUFFICES ASSUME NEW s \in Service \ raced, NEW v \in Resident
               PROVE  /\ booking'[<<s, v>>] \in Active => doc[s] # Gone
                      /\ \A q \in Call : call'[q].pc = "delete" /\ call'[q].item = s
                           => booking'[<<s, v>>] \notin Active
    BY <1>1 DEF BookedInv
  <2>1. CASE s = i
    BY <1>2, <1>4, <2>1 DEF Removes
  <2>2. CASE s # i
    BY <1>2, <1>5, <2>2 DEF ListInv, BookedInv
  <2> QED
    BY <2>1, <2>2
<1>10. DroppedInv'
  <2> SUFFICES ASSUME NEW m \in Item \ (raced \cup failed), doc[m] = Gone,
                      \A q \in Call : ~Cascades(q, m)
               PROVE  votes'[m] = {} /\ (m \in Service => responses'[m] = {})
    BY <1>1, <1>3 DEF DroppedInv
  <2>1. m # i
    BY <1>4
  <2> QED
    BY <1>6, <1>7, <2>1 DEF ListInv, DroppedInv
<1>11. WriteInv' /\ LastInv' /\ InterestInv'
  <2>1. \A m \in Item : Steady(m)
    BY <1>1, <1>3 DEF Steady, Excused
  <2> QED
    BY <1>1, <2>1, GraphKept
<1> QED
  BY <1>2, <1>8, <1>9, <1>10, <1>11 DEF ListInv

LEMMA InterestKeeps ==
  ASSUME ListInv, NEW r \in Call, Interest(r) PROVE ListInv'
<1> DEFINE i == call[r].item
<1>1. /\ call[r].pc = "interest" /\ End(r)
      /\ UNCHANGED <<doc, published, booking, responses, votes, node, raced, failed, strayed>>
      /\ IF doc[i] = Gone THEN UNCHANGED writes ELSE Project("interest", i, Gone)
  BY DEF Interest, documentVars, dependentVars, listingHistory
<1>2. /\ call' \in [Call -> ListCall] /\ call'[r].pc = "idle"
      /\ \A q \in Call \ {r} : call'[q] = call[q]
      /\ CallInv' /\ RemovalInv'
      /\ \A q \in Call, m \in Item : Cascades(q, m)' <=> q # r /\ Cascades(q, m)
  BY <1>1, Ended
<1>3. \A q \in Call, m \in Item : Cascades(q, m)' <=> Cascades(q, m)
  BY <1>1, <1>2 DEF Cascades
<1>4. \A m \in Item : Steady(m)
  BY <1>1, <1>3 DEF Steady, Excused
<1>5. i \in Event
  BY <1>1 DEF ListInv, CallInv
<1>6. writes' \in Seq(GraphWrite) /\ WriteInv' /\ LastInv' /\ InterestInv'
  <2>1. CASE doc[i] = Gone
    BY <1>1, <1>4, <2>1, GraphKept DEF ListInv, ListShape
  <2>2. CASE doc[i] # Gone
    <3>1. Project("interest", i, Gone)
      BY <1>1, <2>2
    <3> HIDE DEF i
    <3> QED
      BY <1>1, <1>4, <1>5, <2>2, <3>1, GraphInterest
  <2> QED
    BY <2>1, <2>2
<1>7. ListShape'
  BY <1>1, <1>2, <1>6 DEF ListInv, ListShape
<1>8. BookedInv'
  BY <1>1, <1>2, BookedKept
<1>9. DroppedInv'
  BY <1>1, <1>3 DEF ListInv, DroppedInv
<1> QED
  BY <1>2, <1>6, <1>7, <1>8, <1>9 DEF ListInv

LEMMA CreateKeeps ==
  ASSUME ListInv, NEW i \in Item, NEW title \in Title, CreateListing(i, title)
  PROVE  ListInv'
<1>1. /\ i \notin published /\ published' = published \cup {i}
      /\ doc' = [doc EXCEPT ![i] = title] /\ Project("sync", i, title)
      /\ UNCHANGED <<booking, responses, votes, node, call, raced, failed, strayed>>
  BY DEF CreateListing, dependentVars, listingHistory
<1>2. /\ doc' \in [Item -> Title \cup {Gone}] /\ doc'[i] = title
      /\ title # Gone /\ doc[i] = Gone
      /\ \A m \in Item \ {i} : doc'[m] = doc[m]
  BY <1>1, ListingsConstants DEF ListInv, ListShape, CallInv
\* No request is for a listing that is not there yet.
<1>3. \A q \in Call : call[q].pc # "idle" => call[q].item \in Item \ {i}
  BY <1>1 DEF ListInv, ListShape, CallInv
<1>4. CallInv'
  BY <1>1, <1>2 DEF ListInv, CallInv
<1>5. RemovalInv'
  BY <1>1, <1>2, <1>3 DEF ListInv, RemovalInv, Refers
<1>6. \A m \in Item \ {i} : Steady(m)
  BY <1>1, <1>2 DEF Steady, Excused, Cascades
<1>7. writes' \in Seq(GraphWrite) /\ WriteInv' /\ LastInv' /\ InterestInv'
  <2>1. i \in published' /\ published \subseteq published'
    BY <1>1
  <2>2. Project("sync", i, doc'[i])
    BY <1>1, <1>2
  <2> QED
    BY <1>1, <1>2, <1>6, <2>1, <2>2, GraphNamed
<1>8. ListShape'
  BY <1>1, <1>2, <1>7 DEF ListInv, ListShape
<1>9. BookedInv'
  BY <1>1, <1>2 DEF ListInv, BookedInv, Item
<1>10. DroppedInv'
  BY <1>1, <1>2 DEF ListInv, DroppedInv, Cascades
<1> QED
  BY <1>4, <1>5, <1>7, <1>8, <1>9, <1>10 DEF ListInv

LEMMA UpdateKeeps ==
  ASSUME ListInv, NEW r \in Call, UpdateListing(r) PROVE ListInv'
<1> DEFINE i == call[r].item
           title == call[r].title
<1>1. /\ call[r].pc = "update" /\ End(r)
      /\ UNCHANGED <<published, booking, responses, votes, node, raced, failed, strayed>>
      /\ IF doc[i] = Gone THEN UNCHANGED <<doc, writes>>
         ELSE doc' = [doc EXCEPT ![i] = title] /\ Project("sync", i, title)
  BY DEF UpdateListing, dependentVars, listingHistory
<1>2. i \in published /\ i \in Item /\ title \in Title /\ title # Gone
  BY <1>1, ListingsConstants DEF ListInv, ListShape, CallInv
<1> HIDE DEF i, title
<1>3. /\ doc' \in [Item -> Title \cup {Gone}]
      /\ \A m \in Item : doc'[m] = Gone <=> doc[m] = Gone
      /\ \A m \in Item \ {i} : doc'[m] = doc[m]
  BY <1>1, <1>2 DEF ListInv, ListShape
<1>4. /\ call' \in [Call -> ListCall] /\ call'[r].pc = "idle"
      /\ \A q \in Call \ {r} : call'[q] = call[q]
      /\ CallInv' /\ RemovalInv'
      /\ \A q \in Call, m \in Item : Cascades(q, m)' <=> q # r /\ Cascades(q, m)
  BY <1>1, <1>3, Ended
<1>5. \A q \in Call, m \in Item : Cascades(q, m)' <=> Cascades(q, m)
  BY <1>1, <1>4 DEF Cascades
<1>6. \A m \in Item \ {i} : Steady(m)
  BY <1>3, <1>5 DEF Steady, Excused
<1>7. writes' \in Seq(GraphWrite) /\ WriteInv' /\ LastInv' /\ InterestInv'
  <2>1. CASE doc[i] = Gone
    <3>1. \A m \in Item : Steady(m)
      BY <1>1, <1>5, <2>1 DEF Steady, Excused
    <3> QED
      BY <1>1, <2>1, <3>1, GraphKept DEF ListInv, ListShape
  <2>2. CASE doc[i] # Gone
    <3>1. doc'[i] = title /\ Project("sync", i, doc'[i])
      BY <1>1, <1>2, <2>2 DEF ListInv, ListShape
    <3> QED
      BY <1>1, <1>2, <1>6, <3>1, GraphNamed
  <2> QED
    BY <2>1, <2>2
<1>8. ListShape'
  BY <1>1, <1>3, <1>4, <1>7 DEF ListInv, ListShape
<1>9. BookedInv'
  BY <1>1, <1>3, <1>4, BookedKept DEF Item
<1>10. DroppedInv'
  BY <1>1, <1>3, <1>5 DEF ListInv, DroppedInv
<1> QED
  BY <1>4, <1>7, <1>8, <1>9, <1>10 DEF ListInv

\* A booking advances and a response is withdrawn without any request of the
\* listing's own.
LEMMA SpareKeeps ==
  ASSUME ListInv, NEW s \in Service, NEW u \in Resident,
         Unrespond(s, u) \/ \E status \in {"accepted", "over"} : Advance(s, u, status)
  PROVE  ListInv'
<1>1. /\ UNCHANGED <<doc, published, votes, node, writes, call, raced, failed, strayed>>
  BY DEF Unrespond, Advance, documentVars, listingHistory
<1>2. /\ responses' \in [Service -> SUBSET Resident]
      /\ \A t \in Service : responses'[t] \subseteq responses[t]
  <2>1. CASE Unrespond(s, u)
    BY <2>1 DEF Unrespond, ListInv, ListShape
  <2>2. CASE \E status \in {"accepted", "over"} : Advance(s, u, status)
    BY <2>2 DEF Advance, ListInv, ListShape
  <2> QED
    BY <2>1, <2>2
<1>3. /\ booking' \in [Service \X Resident -> {"none", "over"} \cup Active]
      /\ \A t \in Service, v \in Resident :
           booking'[<<t, v>>] \in Active => booking[<<t, v>>] \in Active
  <2>1. CASE Unrespond(s, u)
    BY <2>1 DEF Unrespond, ListInv, ListShape
  <2>2. ASSUME NEW status \in {"accepted", "over"}, Advance(s, u, status)
        PROVE  /\ booking' \in [Service \X Resident -> {"none", "over"} \cup Active]
               /\ \A t \in Service, v \in Resident :
                    booking'[<<t, v>>] \in Active => booking[<<t, v>>] \in Active
    <3>1. /\ booking' = [booking EXCEPT ![<<s, u>>] = status]
          /\ booking[<<s, u>>] \in Active
      BY <2>2 DEF Advance, Active
    <3>2. /\ <<s, u>> \in Service \X Resident
          /\ booking \in [Service \X Resident -> {"none", "over"} \cup Active]
          /\ status \in {"none", "over"} \cup Active
      BY DEF ListInv, ListShape, Active
    <3>3. booking' \in [Service \X Resident -> {"none", "over"} \cup Active]
      BY <3>1, <3>2
    <3>4. ASSUME NEW t \in Service, NEW v \in Resident, booking'[<<t, v>>] \in Active
          PROVE  booking[<<t, v>>] \in Active
      BY <3>1, <3>2, <3>4
    <3> QED
      BY <3>3, <3>4
  <2> QED
    BY <2>1, <2>2
<1>4. ListShape'
  BY <1>1, <1>2, <1>3 DEF ListInv, ListShape
<1>5. CallInv' /\ RemovalInv'
  BY <1>1 DEF ListInv, CallInv, RemovalInv
<1>6. BookedInv'
  BY <1>1, <1>3 DEF ListInv, BookedInv
<1>7. DroppedInv'
  BY <1>1, <1>2 DEF ListInv, DroppedInv, Cascades
<1>8. WriteInv' /\ LastInv' /\ InterestInv'
  <2>1. \A m \in Item : Steady(m)
    BY <1>1 DEF Steady, Excused, Cascades
  <2> QED
    BY <1>1, <2>1, GraphKept
<1> QED
  BY <1>4, <1>5, <1>6, <1>7, <1>8 DEF ListInv

(* -------------------------------- removal ------------------------------- *)

LEMMA CountKeeps ==
  ASSUME ListInv, NEW r \in Call, Count(r) PROVE ListInv'
<1> DEFINE i == call[r].item
           busy == \E u \in Resident : booking[<<i, u>>] \in Active
<1>1. /\ call[r].pc = "count" /\ UNCHANGED <<documentVars, dependentVars, node, writes,
                                             listingHistory>>
      /\ IF busy THEN End(r) ELSE call' = [call EXCEPT ![r].pc = "delete"]
  BY DEF Count
<1>2. i \in Service /\ i \in published
  BY <1>1 DEF ListInv, CallInv
<1>3. /\ UNCHANGED <<doc, published, booking, responses, votes, node, writes, raced,
                     failed, strayed>>
  BY <1>1 DEF documentVars, dependentVars, listingHistory
<1>4. /\ call' \in [Call -> ListCall]
      /\ \A q \in Call \ {r} : call'[q] = call[q]
      /\ \/ call'[r].pc = "idle"
         \/ call'[r].pc = "delete" /\ call'[r].item = i /\ ~busy
      /\ CallInv' /\ RemovalInv'
  <2>1. CASE busy
    BY <1>1, <1>3, <2>1, Ended
  <2>2. CASE ~busy
    <3>1. call[r] \in ListCall /\ call \in [Call -> ListCall]
      BY DEF ListInv, ListShape
    <3>2. /\ call' \in [Call -> ListCall] /\ call'[r].pc = "delete" /\ call'[r].item = i
          /\ \A q \in Call \ {r} : call'[q] = call[q]
      BY <1>1, <2>2, <3>1 DEF ListCall, Removes
    <3>3. CallInv'
      BY <1>2, <1>3, <3>2 DEF ListInv, CallInv, Refers
    <3>4. RemovalInv'
      BY <1>1, <1>3, <3>2 DEF ListInv, RemovalInv, Refers, Removes
    <3> QED
      BY <2>2, <3>2, <3>3, <3>4
  <2> QED
    BY <2>1, <2>2
<1> HIDE DEF i
<1>5. ListShape'
  BY <1>3, <1>4 DEF ListInv, ListShape
<1>6. BookedInv'
  <2>1. ~busy => \A u \in Resident : booking[<<i, u>>] \notin Active
    OBVIOUS
  <2> HIDE DEF busy
  <2> QED
    BY <1>3, <1>4, <2>1, BookedKept
<1>7. \A q \in Call, m \in Item : Cascades(q, m)' <=> Cascades(q, m)
  BY <1>1, <1>4 DEF Cascades
<1>8. DroppedInv'
  BY <1>3, <1>7 DEF ListInv, DroppedInv
<1>9. WriteInv' /\ LastInv' /\ InterestInv'
  <2>1. \A m \in Item : Steady(m)
    BY <1>3, <1>7 DEF Steady, Excused
  <2> QED
    BY <1>3, <2>1, GraphKept
<1> QED
  BY <1>4, <1>5, <1>6, <1>8, <1>9 DEF ListInv

LEMMA DeleteKeeps ==
  ASSUME ListInv, NEW r \in Call, Delete(r) PROVE ListInv'
<1>0. PICK i \in Item : i = call[r].item /\ i \in published
  BY DEF Delete, ListInv, ListShape, CallInv
<1>1. /\ call[r].pc = "delete" /\ doc' = [doc EXCEPT ![i] = Gone]
      /\ call' = [call EXCEPT ![r].pc = "cascade"]
      /\ UNCHANGED <<published, booking, responses, votes, node, writes, raced, failed,
                     strayed>>
  BY <1>0 DEF Delete, dependentVars, listingHistory
<1>2. /\ call[r] \in ListCall /\ call \in [Call -> ListCall]
      /\ doc \in [Item -> Title \cup {Gone}]
  BY DEF ListInv, ListShape
<1>3. /\ call' \in [Call -> ListCall] /\ call'[r].pc = "cascade" /\ call'[r].item = i
      /\ \A q \in Call \ {r} : call'[q] = call[q]
  BY <1>0, <1>1, <1>2 DEF ListCall, Removes
<1>4. /\ doc' \in [Item -> Title \cup {Gone}] /\ doc'[i] = Gone
      /\ \A m \in Item \ {i} : doc'[m] = doc[m]
  BY <1>1, <1>2
<1>5. ListShape'
  BY <1>1, <1>3, <1>4 DEF ListInv, ListShape
<1>6. CallInv'
  BY <1>0, <1>1, <1>3, <1>4 DEF ListInv, CallInv, Refers
<1>7. RemovalInv'
  <2>1. \A q \in Call : call[q].pc # "idle" => call[q].item \in Item
    BY DEF ListInv, ListShape, CallInv
  <2>2. \A q \in Call : call'[q].pc = "cascade" => doc'[call'[q].item] = Gone
    BY <1>3, <1>4, <2>1 DEF ListInv, RemovalInv
  <2>3. \A q \in Call : call[q].pc \in Refers /\ call[q].item \notin raced => call[q].item # i
    BY <1>0, <1>1 DEF ListInv, RemovalInv, Removes
  <2>4. \A q \in Call :
          call'[q].pc \in Refers /\ call'[q].item \notin raced' => doc'[call'[q].item] # Gone
    BY <1>1, <1>3, <1>4, <2>1, <2>3 DEF ListInv, RemovalInv, Refers
  <2>5. \A q, p \in Call :
          call'[q].pc \in Refers /\ call'[p].pc \in Removes /\ call'[q].item = call'[p].item
            => call'[q].item \in raced'
    BY <1>0, <1>1, <1>3 DEF ListInv, RemovalInv, Refers, Removes
  <2> QED
    BY <2>2, <2>4, <2>5 DEF RemovalInv
<1>8. BookedInv'
  BY <1>0, <1>1, <1>3, <1>4, BookedKept DEF Item
<1>9. /\ Cascades(r, i)' /\ \A q \in Call, m \in Item : Cascades(q, m) => Cascades(q, m)'
      /\ \A q \in Call, m \in Item \ {i} : Cascades(q, m)' <=> Cascades(q, m)
  BY <1>0, <1>1, <1>3 DEF Cascades
<1>10. DroppedInv'
  BY <1>1, <1>4, <1>9 DEF ListInv, DroppedInv
<1>11. WriteInv' /\ LastInv' /\ InterestInv'
  <2>1. \A m \in Item : Steady(m)
    BY <1>4, <1>9 DEF Steady, Excused
  <2> QED
    BY <1>1, <2>1, GraphKept
<1> QED
  BY <1>5, <1>6, <1>7, <1>8, <1>10, <1>11 DEF ListInv

\* The removal of a service sends its write, the one of an event none.
LEMMA CascadeKeeps ==
  ASSUME ListInv, NEW r \in Call, Cascade(r) \/ CascadeFails(r) PROVE ListInv'
<1>0. PICK i \in Item : i = call[r].item /\ i \in published
  BY DEF Cascade, CascadeFails, ListInv, ListShape, CallInv
<1>1. /\ call[r].pc = "cascade" /\ End(r) /\ DropNode(i)
      /\ UNCHANGED <<doc, published, booking, node, raced, strayed>>
  BY <1>0 DEF Cascade, CascadeFails, documentVars, dependentVars, listingHistory
<1>2. doc[i] = Gone
  BY <1>0, <1>1 DEF ListInv, RemovalInv
<1>3. /\ call' \in [Call -> ListCall] /\ call'[r].pc = "idle"
      /\ \A q \in Call \ {r} : call'[q] = call[q]
      /\ CallInv' /\ RemovalInv'
      /\ \A q \in Call, m \in Item : Cascades(q, m)' <=> q # r /\ Cascades(q, m)
  BY <1>1, Ended
<1>4. \A q \in Call, m \in Item \ {i} : Cascades(q, m)' <=> Cascades(q, m)
  BY <1>0, <1>3 DEF Cascades
<1>5. /\ responses' \in [Service -> SUBSET Resident] /\ votes' \in [Item -> SUBSET Resident]
      /\ \A m \in Item \ {i} : /\ votes'[m] = votes[m]
                               /\ m \in Service => responses'[m] = responses[m]
                               /\ m \in failed <=> m \in failed'
      /\ \/ i \in failed'
         \/ votes'[i] = {} /\ (i \in Service => responses'[i] = {})
  <2>1. CASE Cascade(r)
    <3>1. /\ votes' = [votes EXCEPT ![i] = {}] /\ failed' = failed
          /\ responses' = IF i \in Service THEN [responses EXCEPT ![i] = {}] ELSE responses
      BY <1>0, <2>1 DEF Cascade, listingHistory
    <3>2. /\ responses \in [Service -> SUBSET Resident]
          /\ votes \in [Item -> SUBSET Resident]
      BY DEF ListInv, ListShape
    <3>3. CASE i \in Service
      BY <3>1, <3>2, <3>3
    <3>4. CASE i \notin Service
      BY <3>1, <3>2, <3>4
    <3> QED
      BY <3>3, <3>4
  <2>2. CASE CascadeFails(r)
    BY <1>0, <2>2 DEF CascadeFails, dependentVars, ListInv, ListShape
  <2> QED
    BY <2>1, <2>2
<1>6. \A m \in Item \ {i} : Steady(m)
  BY <1>1, <1>4 DEF Steady, Excused
<1>7. writes' \in Seq(GraphWrite) /\ WriteInv' /\ LastInv' /\ InterestInv'
  <2>1. CASE i \in Event
    <3>1. Excused(i)'
      BY <1>1, <1>2, <2>1 DEF Excused
    <3>2. \A m \in Item : Steady(m)
      BY <1>6, <3>1 DEF Steady
    <3>3. UNCHANGED writes
      BY <1>1, <2>1 DEF DropNode
    <3> QED
      BY <1>1, <3>2, <3>3, GraphKept DEF ListInv, ListShape
  <2>2. CASE i \notin Event
    <3>1. Project("delete", i, doc'[i]) /\ doc'[i] = Gone
      BY <1>1, <1>2, <2>2 DEF DropNode
    <3>2. i \in Service /\ i \in published' /\ published \subseteq published'
      BY <1>0, <1>1, <2>2 DEF Item
    <3> QED
      BY <1>1, <1>6, <3>1, <3>2, GraphNamed
  <2> QED
    BY <2>1, <2>2
<1>8. ListShape'
  BY <1>1, <1>3, <1>5, <1>7 DEF ListInv, ListShape
<1>9. BookedInv'
  <2> SUFFICES ASSUME NEW s \in Service \ raced, NEW v \in Resident
               PROVE  /\ booking[<<s, v>>] \in Active => doc[s] # Gone
                      /\ \A q \in Call : call'[q].pc = "delete" /\ call'[q].item = s
                           => booking[<<s, v>>] \notin Active
    BY <1>1 DEF BookedInv
  <2>1. \A q \in Call : call'[q].pc = "delete" => call'[q] = call[q]
    BY <1>3
  <2>2. /\ booking[<<s, v>>] \in Active => doc[s] # Gone
        /\ \A q \in Call : call[q].pc = "delete" /\ call[q].item = s
             => booking[<<s, v>>] \notin Active
    BY DEF ListInv, BookedInv
  <2> QED
    BY <2>1, <2>2
<1>10. DroppedInv'
  <2> SUFFICES ASSUME NEW m \in Item \ (raced \cup failed'), doc[m] = Gone,
                      \A q \in Call : ~Cascades(q, m)'
               PROVE  votes'[m] = {} /\ (m \in Service => responses'[m] = {})
    BY <1>1 DEF DroppedInv
  <2>1. CASE m = i
    BY <1>5, <2>1
  <2>2. CASE m # i
    <3>1. /\ votes'[m] = votes[m] /\ (m \in Service => responses'[m] = responses[m])
          /\ m \notin failed
      BY <1>5, <2>2
    <3>2. \A q \in Call : ~Cascades(q, m)
      BY <1>4, <2>2
    <3>3. votes[m] = {} /\ (m \in Service => responses[m] = {})
      BY <3>1, <3>2 DEF ListInv, DroppedInv
    <3> QED
      BY <3>1, <3>3
  <2> QED
    BY <2>1, <2>2
<1> QED
  BY <1>3, <1>7, <1>8, <1>9, <1>10 DEF ListInv

LEMMA ListStep == ASSUME ListInv, [ListingsNext]_listingsVars PROVE ListInv'
<1> USE DEF Refers, Removes, Item
<1>1. ASSUME NEW i \in Item, NEW title \in Title, CreateListing(i, title) PROVE ListInv'
  BY <1>1, CreateKeeps
<1>2. ASSUME NEW r \in Call, NEW i \in Item, NEW title \in Title,
             Start(r, i, "update", NoResident, title)
      PROVE  ListInv'
  BY <1>2, Started
<1>3. ASSUME NEW r \in Call, NEW s \in Service, Start(r, s, "count", NoResident, Gone)
      PROVE  ListInv'
  BY <1>3, Started
<1>4. ASSUME NEW r \in Call, NEW e \in Event, Start(r, e, "delete", NoResident, Gone)
      PROVE  ListInv'
  BY <1>4, Started
<1>5. ASSUME NEW r \in Call, NEW i \in Item, NEW u \in Resident, Start(r, i, "vote", u, Gone)
      PROVE  ListInv'
  BY <1>5, Started
<1>6. ASSUME NEW r \in Call, NEW s \in Service, NEW u \in Resident,
             Start(r, s, "book", u, Gone) \/ Start(r, s, "respond", u, Gone)
      PROVE  ListInv'
  BY <1>6, Started
<1>7. ASSUME NEW r \in Call, NEW e \in Event, NEW u \in Resident,
             Start(r, e, "interest", u, Gone)
      PROVE  ListInv'
  BY <1>7, Started
<1>8. ASSUME NEW r \in Call,
             \/ UpdateListing(r) \/ Book(r) \/ Respond(r) \/ Vote(r) \/ Interest(r)
             \/ Count(r) \/ Delete(r) \/ Cascade(r) \/ CascadeFails(r)
      PROVE  ListInv'
  BY <1>8, UpdateKeeps, Referred, InterestKeeps, CountKeeps, DeleteKeeps, CascadeKeeps
<1>9. ASSUME NEW s \in Service, NEW u \in Resident,
             Unrespond(s, u) \/ \E status \in {"accepted", "over"} : Advance(s, u, status)
      PROVE  ListInv'
  BY <1>9, SpareKeeps
<1>10. ASSUME NEW k \in DOMAIN writes, Land(k) \/ Fail(k) PROVE ListInv'
  BY <1>10, LandKeeps
<1>11. ASSUME UNCHANGED listingsVars PROVE ListInv'
  BY <1>11 DEF listingsVars, documentVars, dependentVars, listingHistory, ListInv, ListShape,
    CallInv, RemovalInv, BookedInv, DroppedInv, WriteInv, LastInv, InterestInv, Excused,
    Cascades, Names
<1> QED
  BY <1>1, <1>2, <1>3, <1>4, <1>5, <1>6, <1>7, <1>8, <1>9, <1>10, <1>11 DEF ListingsNext

\* Once requests are answered and the writes to the graph are over, nothing is
\* left behind for a listing that is gone (an active booking, a vote, a
\* response, the node of a service), and a listing that is there has its node
\* under its title, though nobody awaits these writes: for any listings,
\* residents and requests, where no removal raced with a request, no cascade
\* failed and no write was lost or overtaken (services.service.ts:351-373,
\* social.service.ts:207-300).
THEOREM ListingsSettle == ListingsSpec => []ListingsAgree
<1>1. ListingsInit => ListInv
  BY ListInitially
<1>2. ListInv /\ [ListingsNext]_listingsVars => ListInv'
  BY ListStep
<1>3. ListInv => ListingsAgree
  <2> SUFFICES ASSUME ListInv, Settled PROVE ListingsAgree
    BY DEF ListingsAgree
  <2>1. \A r \in Call : call[r].pc = "idle"
    BY DEF Settled
  <2>2. DOMAIN writes = {}
    BY DEF Settled
  <2>3. NoOrphans
    <3>1. \A s \in Service \ raced, u \in Resident :
            booking[<<s, u>>] \in Active => doc[s] # Gone
      BY DEF ListInv, BookedInv
    <3> QED
      BY <3>1 DEF NoOrphans
  <2>4. DependentsAreDropped
    BY <2>1 DEF ListInv, DroppedInv, DependentsAreDropped, Cascades
  <2>5. NodesAreCurrent
    BY <2>1, <2>2 DEF ListInv, LastInv, NodesAreCurrent, Excused, Cascades
  <2> QED
    BY <2>3, <2>4, <2>5 DEF ListingsAgree
<1> QED
  BY <1>1, <1>2, <1>3, PTL DEF ListingsSpec

-----------------------------------------------------------------------------
(* The session of a browser                                                  *)

CallType ==
  [pc : FetchPc, tab : Tab \cup {NoTab}, kind : Kind, token : Pair \cup {NoPair},
   retry : BOOLEAN, on : Fetch \cup {NoFetch}]

RefreshType ==
  [pc : RefreshPc, shown : Pair \cup {NoPair}, pair : Pair \cup {NoPair}]

\* What the theorem needs to know of the types.
BrowserShape ==
  /\ stored \in Pair \cup {NoPair} /\ jar \in Pair \cup {NoPair}
  /\ atLogin \subseteq Tab /\ unloading \subseteq Tab
  /\ signing \in [Tab -> Pair \cup {NoPair}]
  /\ fetch \in [Fetch -> CallType]
  /\ refresh \in [Fetch -> RefreshType]
  /\ refreshInFlight \in [Tab -> Fetch \cup {NoFetch}]
  /\ issued \subseteq Pair /\ redeemed \subseteq issued
  /\ live \in issued \cup {NoPair}

OneTab == \A s, t \in Tab : s = t

\* A call under way is one of a tab; a refresh under way is the one that the
\* tab shares, and the call that started it waits for it.
FlightInv ==
  /\ \A f \in Fetch : fetch[f].pc # "idle" => fetch[f].tab \in Tab
  /\ \A g \in Fetch : refresh[g].pc # "idle" =>
       fetch[g].pc = "waiting" /\ \A t \in Tab : refreshInFlight[t] = g

Granting == \E g \in Fetch : refresh[g].pc = "granted"

\* The cookie was never exchanged, unless the new one is on its way; a refresh
\* shows the cookie, or one that a logout has made worthless.
CookieInv ==
  /\ jar \in redeemed => Granting
  /\ \A g \in Fetch : refresh[g].pc = "granted" => refresh[g].pair \in issued \ redeemed
  /\ \A g \in Fetch : refresh[g].pc = "asked" =>
       \/ refresh[g].shown = jar
       \/ jar = NoPair /\ (refresh[g].shown = NoPair \/ refresh[g].shown # live)
  /\ \A f \in Fetch : fetch[f].kind = "logout" /\ fetch[f].pc = "ok" => live = NoPair

\* While the page of a refused call goes, nothing can be granted any more, and
\* a tab that signs in has nothing else under way.
LeavingInv ==
  /\ \A g \in Fetch : refresh[g].pc = "refused" => jar = NoPair \/ jar # live
  /\ unloading # {} => ~Granting /\ (jar = NoPair \/ jar # live)
  /\ \A t \in Tab : signing[t] # NoPair =>
       /\ t \in atLogin \ unloading
       /\ \A f \in Fetch : fetch[f].tab # t
       /\ signing[t] \in issued \ redeemed

ShareInv == BrowserShape /\ FlightInv /\ CookieInv /\ LeavingInv /\ NeverReplayed

LEMMA NoCallType == NoCall \in CallType /\ NoRefresh \in RefreshType
BY DEF NoCall, NoRefresh, CallType, RefreshType, FetchPc, RefreshPc, Kind

LEMMA SentType ==
  ASSUME NEW t \in Tab, NEW kind \in Kind, NEW token \in Pair \cup {NoPair}
  PROVE  [NoCall EXCEPT !.pc = "sent", !.tab = t, !.kind = kind, !.token = token,
                        !.retry = TRUE] \in CallType
BY DEF NoCall, CallType, FetchPc

LEMMA GuardType ==
  ASSUME NEW t \in Tab
  PROVE  [NoCall EXCEPT !.tab = t, !.kind = "guard"] \in CallType
BY DEF NoCall, CallType, FetchPc, Kind

LEMMA CallMoves ==
  ASSUME NEW q \in CallType, NEW pc \in FetchPc, NEW g \in Fetch,
         NEW token \in Pair \cup {NoPair}
  PROVE  /\ [q EXCEPT !.pc = pc] \in CallType
         /\ [q EXCEPT !.pc = "waiting", !.on = g] \in CallType
         /\ [q EXCEPT !.pc = "sent", !.token = token, !.retry = FALSE, !.on = NoFetch]
              \in CallType
BY DEF CallType, FetchPc

LEMMA SignInShares ==
  ASSUME ShareInv, OneTab, NEW t \in Tab, SignIn(t) PROVE ShareInv'
<1> USE BrowserConstants DEF ShareInv
<1>1. PICK p \in Pair \ issued :
        /\ signing' = [signing EXCEPT ![t] = p]
        /\ live' = p /\ issued' = issued \cup {p}
  BY DEF SignIn
<1>2. UNCHANGED <<stored, jar, atLogin, unloading, fetch, refresh, refreshInFlight,
                  redeemed>>
  BY DEF SignIn
<1>3. t \in atLogin \ unloading /\ \A f \in Fetch : fetch[f].tab # t
  BY DEF SignIn
<1>4. \A f \in Fetch : fetch[f].pc = "idle" /\ refresh[f].pc = "idle"
  BY <1>3 DEF FlightInv, OneTab
<1>5. unloading = {}
  BY <1>3 DEF OneTab, BrowserShape
<1>6. BrowserShape'
  BY <1>1, <1>2 DEF BrowserShape
<1>7. FlightInv' /\ NeverReplayed'
  BY <1>2, <1>4 DEF FlightInv, NeverReplayed
<1>8. CookieInv'
  BY <1>2, <1>4 DEF CookieInv, Granting
<1>9. LeavingInv'
  BY <1>1, <1>2, <1>3, <1>4, <1>5 DEF LeavingInv, BrowserShape, OneTab
<1> QED
  BY <1>6, <1>7, <1>8, <1>9

LEMMA SignedInShares ==
  ASSUME ShareInv, OneTab, NEW t \in Tab, SignedIn(t) PROVE ShareInv'
<1> USE BrowserConstants DEF ShareInv
<1>1. /\ signing[t] # NoPair
      /\ jar' = signing[t] /\ stored' = signing[t]
      /\ signing' = [signing EXCEPT ![t] = NoPair]
      /\ atLogin' = atLogin \ {t}
  BY DEF SignedIn
<1>2. UNCHANGED <<unloading, fetch, refresh, refreshInFlight, live, issued, redeemed>>
  BY DEF SignedIn, apiVars
<1>3. /\ t \in atLogin \ unloading /\ \A f \in Fetch : fetch[f].tab # t
      /\ signing[t] \in issued \ redeemed
  BY <1>1 DEF LeavingInv
<1>4. \A f \in Fetch : fetch[f].pc = "idle" /\ refresh[f].pc = "idle"
  BY <1>3 DEF FlightInv, OneTab
<1>5. unloading = {}
  BY <1>3 DEF OneTab, BrowserShape
<1>6. BrowserShape'
  BY <1>1, <1>2 DEF BrowserShape
<1>7. FlightInv' /\ NeverReplayed'
  BY <1>2, <1>4 DEF FlightInv, NeverReplayed
<1>8. CookieInv'
  BY <1>1, <1>2, <1>3, <1>4 DEF CookieInv, Granting
<1>9. LeavingInv'
  BY <1>1, <1>2, <1>4, <1>5 DEF LeavingInv, BrowserShape, OneTab
<1> QED
  BY <1>6, <1>7, <1>8, <1>9

LEMMA SendShares ==
  ASSUME ShareInv, OneTab, NEW f \in Fetch, NEW t \in Tab, NEW kind \in Kind,
         Send(f, t, kind)
  PROVE  ShareInv'
<1> USE BrowserConstants DEF ShareInv
<1> DEFINE asking == [NoCall EXCEPT !.pc = "sent", !.tab = t, !.kind = kind,
                                  !.token = stored, !.retry = TRUE]
<1>1. fetch[f].pc = "idle" /\ t \notin atLogin /\ fetch' = [fetch EXCEPT ![f] = asking]
  BY DEF Send
<1>2. UNCHANGED <<stored, jar, atLogin, unloading, signing, refresh, refreshInFlight,
                  live, issued, redeemed>>
  BY DEF Send, apiVars
<1>3. asking \in CallType /\ asking.pc = "sent" /\ asking.tab = t
  BY SentType DEF BrowserShape, NoCall
<1> HIDE DEF asking
<1>4. BrowserShape'
  BY <1>1, <1>2, <1>3 DEF BrowserShape
<1>5. FlightInv' /\ NeverReplayed'
  BY <1>1, <1>2, <1>3 DEF FlightInv, NeverReplayed, BrowserShape
<1>6. CookieInv'
  BY <1>1, <1>2, <1>3 DEF CookieInv, Granting, BrowserShape
<1>7. LeavingInv'
  BY <1>1, <1>2, <1>3 DEF LeavingInv, BrowserShape, OneTab, Granting
<1> QED
  BY <1>4, <1>5, <1>6, <1>7

LEMMA ServeShares ==
  ASSUME ShareInv, OneTab, NEW f \in Fetch, Serve(f) PROVE ShareInv'
<1> USE BrowserConstants DEF ShareInv
<1>1. PICK pc \in {"ok", "unauthorized"} :
        /\ fetch[f].pc = "sent" /\ fetch' = [fetch EXCEPT ![f].pc = pc]
        /\ live' \in {live, NoPair}
        /\ pc = "ok" /\ fetch[f].kind = "logout" => live' = NoPair
  BY DEF Serve
<1>2. UNCHANGED <<stored, jar, atLogin, unloading, signing, refresh, refreshInFlight,
                  issued, redeemed>>
  BY DEF Serve
<1>c. fetch[f] \in CallType /\ [fetch[f] EXCEPT !.pc = pc] \in CallType
  BY CallMoves DEF BrowserShape, FetchPc
<1>3. /\ fetch'[f] \in CallType
      /\ fetch'[f].pc = pc /\ fetch'[f].tab = fetch[f].tab
      /\ fetch'[f].kind = fetch[f].kind
      /\ \A h \in Fetch \ {f} : fetch'[h] = fetch[h]
  BY <1>1, <1>c DEF BrowserShape, CallType
<1>4. BrowserShape'
  BY <1>1, <1>2, <1>3 DEF BrowserShape
<1>5. FlightInv' /\ NeverReplayed'
  BY <1>1, <1>2, <1>3 DEF FlightInv, NeverReplayed
<1>6. CookieInv'
  BY <1>1, <1>2, <1>3 DEF CookieInv, Granting
<1>7. LeavingInv'
  BY <1>1, <1>2, <1>3 DEF LeavingInv, Granting
<1> QED
  BY <1>4, <1>5, <1>6, <1>7

LEMMA ReceiveShares ==
  ASSUME ShareInv, OneTab, NEW f \in Fetch, Receive(f) PROVE ShareInv'
<1> USE BrowserConstants DEF ShareInv
<1>1. /\ fetch[f].pc \in {"ok", "unauthorized"} /\ fetch' = [fetch EXCEPT ![f] = NoCall]
      /\ \/ jar' = jar
         \/ jar' = NoPair /\ fetch[f].kind = "logout" /\ fetch[f].pc = "ok"
      /\ stored' \in {stored, NoPair}
      /\ atLogin' \in {atLogin, atLogin \cup {fetch[f].tab}}
  BY DEF Receive
<1>2. UNCHANGED <<unloading, signing, refresh, refreshInFlight, live, issued, redeemed>>
  BY DEF Receive, apiVars
<1>3. fetch[f].tab \in Tab
  BY <1>1 DEF FlightInv
<1>4. NoCall \in CallType /\ NoCall.pc = "idle" /\ NoCall.tab = NoTab /\ NoCall.kind = "read"
  BY NoCallType DEF NoCall
<1>5. jar' # jar => jar' = NoPair /\ live = NoPair
  BY <1>1 DEF CookieInv
<1>6. BrowserShape'
  BY <1>1, <1>2, <1>3, <1>4 DEF BrowserShape
<1>7. FlightInv' /\ NeverReplayed'
  BY <1>1, <1>2, <1>4 DEF FlightInv, NeverReplayed, BrowserShape
<1>8. CookieInv'
  BY <1>1, <1>2, <1>4, <1>5 DEF CookieInv, Granting, BrowserShape
<1>9. LeavingInv'
  BY <1>1, <1>2, <1>3, <1>4, <1>5 DEF LeavingInv, Granting, BrowserShape, OneTab
<1> QED
  BY <1>6, <1>7, <1>8, <1>9

\* What AskRefresh does for a call that awaits: it joins the refresh of the
\* tab, or starts it with the cookie.
LEMMA AskShares ==
  ASSUME ShareInv, OneTab, NEW f \in Fetch, NEW t \in Tab, NEW asking \in CallType,
         asking.tab = t, fetch[f].pc \in {"idle", "unauthorized"}, signing[t] = NoPair,
         AskRefresh(f, t, asking),
         UNCHANGED <<stored, jar, atLogin, unloading, signing, apiVars>>
  PROVE  ShareInv'
<1> USE BrowserConstants DEF ShareInv
<1>1. UNCHANGED <<stored, jar, atLogin, unloading, signing, live, issued, redeemed>>
  BY DEF apiVars
<1>2. PICK g \in Fetch :
        fetch' = [fetch EXCEPT ![f] = [asking EXCEPT !.pc = "waiting", !.on = g]]
  BY DEF AskRefresh, BrowserShape
<1>3. /\ fetch' \in [Fetch -> CallType]
      /\ fetch'[f].pc = "waiting" /\ fetch'[f].tab = t
      /\ \A h \in Fetch \ {f} : fetch'[h] = fetch[h]
  <2> DEFINE q == [asking EXCEPT !.pc = "waiting", !.on = g]
  <2>1. q \in CallType
    BY CallMoves, "waiting" \in FetchPc, NoPair \in Pair \cup {NoPair} DEF FetchPc
  <2>2. q.pc = "waiting" /\ q.tab = t
    BY DEF CallType
  <2>3. fetch' = [fetch EXCEPT ![f] = q]
    BY <1>2
  <2> HIDE DEF q
  <2> QED
    BY <2>1, <2>2, <2>3 DEF BrowserShape
<1>4. refresh[f].pc = "idle"
  BY DEF FlightInv
<1>5. \/ UNCHANGED <<refresh, refreshInFlight>>
      \/ /\ refreshInFlight[t] = NoFetch
         /\ refresh' = [refresh EXCEPT ![f] =
              [pc |-> "asked", shown |-> jar, pair |-> NoPair]]
         /\ refreshInFlight' = [refreshInFlight EXCEPT ![t] = f]
  BY DEF AskRefresh
<1>6. CASE UNCHANGED <<refresh, refreshInFlight>>
  <2>1. BrowserShape'
    BY <1>1, <1>3, <1>6 DEF BrowserShape
  <2>2. FlightInv' /\ NeverReplayed'
    BY <1>1, <1>3, <1>6 DEF FlightInv, NeverReplayed
  <2>3. CookieInv'
    BY <1>1, <1>3, <1>6 DEF CookieInv, Granting
  <2>4. LeavingInv'
    BY <1>1, <1>3, <1>6 DEF LeavingInv, Granting, OneTab
  <2> QED
    BY <2>1, <2>2, <2>3, <2>4
<1>7. CASE /\ refreshInFlight[t] = NoFetch
           /\ refresh' = [refresh EXCEPT ![f] =
                [pc |-> "asked", shown |-> jar, pair |-> NoPair]]
           /\ refreshInFlight' = [refreshInFlight EXCEPT ![t] = f]
  <2>1. \A h \in Fetch : refresh[h].pc = "idle"
    BY <1>7 DEF FlightInv
  <2>2. /\ refresh' \in [Fetch -> RefreshType]
        /\ refresh'[f] = [pc |-> "asked", shown |-> jar, pair |-> NoPair]
        /\ \A h \in Fetch \ {f} : refresh'[h] = refresh[h]
    <3>1. [pc |-> "asked", shown |-> jar, pair |-> NoPair] \in RefreshType
      BY DEF BrowserShape, RefreshType, RefreshPc
    <3> QED
      BY <1>7, <3>1 DEF BrowserShape
  <2>3. jar \notin redeemed
    BY <2>1 DEF CookieInv, Granting
  <2>4. BrowserShape'
    BY <1>1, <1>3, <1>7, <2>2 DEF BrowserShape
  <2>5. FlightInv'
    BY <1>3, <1>7, <2>1, <2>2 DEF FlightInv, OneTab, BrowserShape
  <2>6. NeverReplayed'
    BY <1>1, <2>1, <2>2, <2>3 DEF NeverReplayed
  <2>7. CookieInv'
    BY <1>1, <1>3, <2>1, <2>2, <2>3 DEF CookieInv, Granting
  <2>8. LeavingInv'
    BY <1>1, <1>3, <2>1, <2>2 DEF LeavingInv, Granting, OneTab
  <2> QED
    BY <2>4, <2>5, <2>6, <2>7, <2>8
<1> QED
  BY <1>5, <1>6, <1>7

LEMMA UnauthorizedShares ==
  ASSUME ShareInv, OneTab, NEW f \in Fetch, Unauthorized(f) PROVE ShareInv'
<1>1. /\ fetch[f].pc = "unauthorized" /\ AskRefresh(f, fetch[f].tab, fetch[f])
      /\ UNCHANGED <<stored, jar, atLogin, unloading, signing, apiVars>>
  BY DEF Unauthorized
<1>2. fetch[f] \in CallType /\ fetch[f].tab \in Tab
  BY <1>1 DEF ShareInv, BrowserShape, FlightInv
<1>3. signing[fetch[f].tab] = NoPair
  BY <1>2 DEF ShareInv, LeavingInv
<1> QED
  BY <1>1, <1>2, <1>3, AskShares

LEMMA GuardShares ==
  ASSUME ShareInv, OneTab, NEW f \in Fetch, NEW t \in Tab, Guard(f, t) PROVE ShareInv'
<1> USE BrowserConstants
<1>1. fetch[f].pc = "idle" /\ signing[t] = NoPair
  BY DEF Guard
<1>2. CASE Unexpired(stored)
  <2>1. /\ atLogin' = atLogin \ {t}
        /\ UNCHANGED <<fetch, refresh, refreshInFlight, stored, jar, unloading, signing,
                       live, issued, redeemed>>
    BY <1>2 DEF Guard, apiVars
  <2>2. BrowserShape' /\ FlightInv' /\ CookieInv' /\ NeverReplayed'
    BY <2>1 DEF ShareInv, BrowserShape, FlightInv, CookieInv, NeverReplayed, Granting
  <2>3. LeavingInv'
    BY <1>1, <2>1 DEF ShareInv, LeavingInv, Granting, OneTab
  <2> QED
    BY <2>2, <2>3 DEF ShareInv
<1>3. CASE ~Unexpired(stored)
  <2> DEFINE asking == [NoCall EXCEPT !.tab = t, !.kind = "guard"]
  <2>1. AskRefresh(f, t, asking)
        /\ UNCHANGED <<stored, jar, atLogin, unloading, signing, apiVars>>
    BY <1>3 DEF Guard
  <2>2. asking \in CallType /\ asking.tab = t
    BY GuardType DEF NoCall
  <2> HIDE DEF asking
  <2> QED
    BY <1>1, <2>1, <2>2, AskShares
<1> QED
  BY <1>2, <1>3

LEMMA ServeRefreshShares ==
  ASSUME ShareInv, OneTab, NEW g \in Fetch, ServeRefresh(g) PROVE ShareInv'
<1> USE BrowserConstants DEF ShareInv
<1>1. /\ refresh[g].pc = "asked"
      /\ UNCHANGED <<stored, jar, atLogin, unloading, signing, fetch, refreshInFlight>>
  BY DEF ServeRefresh
<1>2. \A h \in Fetch \ {g} : refresh[h].pc = "idle"
  BY <1>1 DEF FlightInv, BrowserShape, OneTab
<1>3. fetch[g].pc = "waiting" /\ fetch[g].tab \in Tab
  BY <1>1 DEF FlightInv
<1>4. \A t \in Tab : signing[t] = NoPair
  BY <1>3 DEF LeavingInv, OneTab
<1>5. CASE refresh[g].shown # NoPair /\ refresh[g].shown = live
  <2>1. PICK p \in Pair \ issued :
          /\ refresh' = [refresh EXCEPT ![g].pc = "granted", ![g].pair = p]
          /\ live' = p /\ issued' = issued \cup {p}
          /\ redeemed' = redeemed \cup {refresh[g].shown}
    BY <1>5 DEF ServeRefresh
  <2>2. /\ refresh' \in [Fetch -> RefreshType]
        /\ refresh'[g].pc = "granted" /\ refresh'[g].pair = p
        /\ \A h \in Fetch \ {g} : refresh'[h] = refresh[h]
    <3>1. refresh[g] \in RefreshType
      BY DEF BrowserShape
    <3> DEFINE q == [refresh[g] EXCEPT !.pc = "granted", !.pair = p]
    <3>2. q \in RefreshType /\ q.pc = "granted" /\ q.pair = p
      BY <3>1 DEF RefreshType, RefreshPc
    <3>3. refresh' = [refresh EXCEPT ![g] = q]
      BY <2>1, <3>1 DEF BrowserShape
    <3> HIDE DEF q
    <3> QED
      BY <3>2, <3>3 DEF BrowserShape
  <2>3. refresh[g].shown = jar
    BY <1>1, <1>5 DEF CookieInv
  <2>4. unloading = {}
    BY <1>5, <2>3 DEF LeavingInv
  <2>5. BrowserShape'
    BY <1>1, <1>5, <2>1, <2>2 DEF BrowserShape
  <2>6. FlightInv' /\ NeverReplayed'
    BY <1>1, <1>2, <2>2 DEF FlightInv, NeverReplayed
  <2>7. CookieInv'
    <3>1. Granting'
      BY <2>2 DEF Granting
    <3>2. p \in issued' \ redeemed'
      BY <1>5, <2>1 DEF BrowserShape
    <3>3. \A f \in Fetch : ~(fetch[f].kind = "logout" /\ fetch[f].pc = "ok")
      BY <1>5 DEF CookieInv
    <3> QED
      BY <1>1, <1>2, <2>2, <3>1, <3>2, <3>3 DEF CookieInv
  <2>8. LeavingInv'
    BY <1>1, <1>2, <1>4, <2>2, <2>4 DEF LeavingInv
  <2> QED
    BY <2>5, <2>6, <2>7, <2>8
<1>6. CASE ~(refresh[g].shown # NoPair /\ refresh[g].shown = live)
  <2>1. /\ refresh' = [refresh EXCEPT ![g].pc = "refused"]
        /\ UNCHANGED <<live, issued, redeemed>>
    BY <1>6 DEF ServeRefresh
  <2>2. /\ refresh' \in [Fetch -> RefreshType]
        /\ refresh'[g].pc = "refused" /\ refresh'[g].shown = refresh[g].shown
        /\ \A h \in Fetch \ {g} : refresh'[h] = refresh[h]
    <3>1. refresh[g] \in RefreshType
      BY DEF BrowserShape
    <3> DEFINE q == [refresh[g] EXCEPT !.pc = "refused"]
    <3>2. q \in RefreshType /\ q.pc = "refused" /\ q.shown = refresh[g].shown
      BY <3>1 DEF RefreshType, RefreshPc
    <3>3. refresh' = [refresh EXCEPT ![g] = q]
      BY <2>1
    <3> HIDE DEF q
    <3> QED
      BY <3>2, <3>3 DEF BrowserShape
  <2>3. jar = NoPair \/ jar # live
    BY <1>1, <1>6 DEF CookieInv
  <2>4. jar \notin redeemed
    BY <1>1, <1>2 DEF CookieInv, Granting
  <2>5. BrowserShape'
    BY <1>1, <2>1, <2>2 DEF BrowserShape
  <2>6. FlightInv' /\ NeverReplayed'
    BY <1>1, <1>2, <2>1, <2>2 DEF FlightInv, NeverReplayed
  <2>7. CookieInv'
    BY <1>1, <1>2, <2>1, <2>2, <2>4 DEF CookieInv, Granting
  <2>8. LeavingInv'
    BY <1>1, <1>2, <1>4, <2>1, <2>2, <2>3 DEF LeavingInv, Granting
  <2> QED
    BY <2>5, <2>6, <2>7, <2>8
<1> QED
  BY <1>5, <1>6

\* The refresh of the tab is over: no other is in flight, and nobody signs in.
LEMMA SettleShares ==
  ASSUME ShareInv, OneTab, NEW g \in Fetch, refresh[g].pc # "idle", Settle(g)
  PROVE  /\ refresh' \in [Fetch -> RefreshType]
         /\ refreshInFlight' \in [Tab -> Fetch \cup {NoFetch}]
         /\ \A h \in Fetch : refresh'[h].pc = "idle"
         /\ \A t \in Tab : signing[t] = NoPair
         /\ fetch[g].pc = "waiting" /\ fetch[g].tab \in Tab
<1> USE DEF ShareInv
<1>1. NoRefresh \in RefreshType /\ NoRefresh.pc = "idle"
  BY NoCallType DEF NoRefresh
<1>2. refresh' = [refresh EXCEPT ![g] = NoRefresh]
  BY DEF Settle
<1>3. fetch[g].pc = "waiting" /\ fetch[g].tab \in Tab
  BY DEF FlightInv
<1>4. \A h \in Fetch \ {g} : refresh[h].pc = "idle"
  BY <1>3 DEF FlightInv
<1>5. \A t \in Tab : signing[t] = NoPair
  BY <1>3 DEF LeavingInv, OneTab
<1>6. refreshInFlight' \in [Tab -> Fetch \cup {NoFetch}]
  BY DEF Settle, BrowserShape
<1> QED
  BY <1>1, <1>2, <1>3, <1>4, <1>5, <1>6 DEF BrowserShape

LEMMA GrantedShares ==
  ASSUME ShareInv, OneTab, NEW g \in Fetch, Granted(g) PROVE ShareInv'
<1> USE BrowserConstants DEF ShareInv
<1> DEFINE again(f) == [fetch[f] EXCEPT !.pc = "sent", !.token = refresh[g].pair,
                                        !.retry = FALSE, !.on = NoFetch]
<1>1. /\ refresh[g].pc = "granted" /\ Settle(g)
      /\ jar' = refresh[g].pair /\ stored' = refresh[g].pair
      /\ atLogin' \subseteq atLogin
      /\ UNCHANGED <<unloading, signing, live, issued, redeemed>>
  BY DEF Granted, apiVars
<1>2. /\ refresh' \in [Fetch -> RefreshType]
      /\ refreshInFlight' \in [Tab -> Fetch \cup {NoFetch}]
      /\ \A h \in Fetch : refresh'[h].pc = "idle"
      /\ \A t \in Tab : signing[t] = NoPair
  BY <1>1, SettleShares
<1>3. refresh[g].pair \in issued \ redeemed
  BY <1>1 DEF CookieInv
<1>4. unloading = {}
  BY <1>1 DEF LeavingInv, Granting
<1>5. fetch' = [f \in Fetch |->
        IF f \notin Waiting(g) THEN fetch[f]
          ELSE IF fetch[f].kind = "guard" THEN NoCall
          ELSE again(f)]
  BY DEF Granted
<1>6. \A f \in Fetch : fetch[f] \in CallType
  BY DEF BrowserShape
<1>7. refresh[g].pair \in Pair
  BY <1>3 DEF BrowserShape
<1>8. ASSUME NEW f \in Fetch
      PROVE  /\ again(f) \in CallType /\ again(f).pc = "sent"
             /\ again(f).tab = fetch[f].tab
  BY <1>6, <1>7 DEF CallType, FetchPc
<1> HIDE DEF again
<1>9. ASSUME NEW f \in Fetch
      PROVE  /\ fetch'[f] \in CallType
             /\ \/ fetch'[f] = fetch[f]
                \/ fetch'[f] = NoCall
                \/ /\ fetch[f].pc = "waiting"
                   /\ fetch'[f].pc = "sent" /\ fetch'[f].tab = fetch[f].tab
  <2>1. fetch[f] \in CallType /\ NoCall \in CallType
    BY <1>6, NoCallType
  <2>2. CASE f \notin Waiting(g)
    <3>1. fetch'[f] = fetch[f]
      BY <1>5, <2>2
    <3> QED
      BY <2>1, <3>1
  <2>3. CASE f \in Waiting(g) /\ fetch[f].kind = "guard"
    <3>1. fetch'[f] = NoCall
      BY <1>5, <2>3
    <3> QED
      BY <2>1, <3>1
  <2>4. CASE f \in Waiting(g) /\ fetch[f].kind # "guard"
    <3>1. fetch'[f] = again(f)
      BY <1>5, <2>4
    <3>2. fetch[f].pc = "waiting"
      BY <2>4 DEF Waiting
    <3> QED
      BY <1>8, <3>1, <3>2
  <2> QED
    BY <2>2, <2>3, <2>4
<1>10. fetch' \in [Fetch -> CallType]
  BY <1>5, <1>9
<1>11. BrowserShape'
  BY <1>1, <1>2, <1>7, <1>10 DEF BrowserShape
<1>12. FlightInv' /\ NeverReplayed'
  BY <1>2, <1>9 DEF FlightInv, NeverReplayed, NoCall
<1>13. CookieInv'
  <2>1. ASSUME NEW f \in Fetch, fetch'[f].kind = "logout", fetch'[f].pc = "ok"
        PROVE  live = NoPair
    BY <1>9, <2>1 DEF CookieInv, NoCall
  <2> QED
    BY <1>1, <1>2, <1>3, <2>1 DEF CookieInv
<1>14. LeavingInv'
  BY <1>1, <1>2, <1>4 DEF LeavingInv
<1> QED
  BY <1>11, <1>12, <1>13, <1>14

LEMMA RefusedShares ==
  ASSUME ShareInv, OneTab, NEW g \in Fetch, Refused(g) PROVE ShareInv'
<1> USE BrowserConstants DEF ShareInv
<1>1. /\ refresh[g].pc = "refused" /\ Settle(g)
      /\ stored' = NoPair
      /\ UNCHANGED <<jar, signing, live, issued, redeemed>>
  BY DEF Refused, apiVars
<1>2. fetch' = [f \in Fetch |-> IF f \in Waiting(g) THEN NoCall ELSE fetch[f]]
  BY DEF Refused
<1>3. /\ refresh' \in [Fetch -> RefreshType]
      /\ refreshInFlight' \in [Tab -> Fetch \cup {NoFetch}]
      /\ \A h \in Fetch : refresh'[h].pc = "idle"
      /\ \A t \in Tab : signing[t] = NoPair
  BY <1>1, SettleShares
<1>4. ~Granting
  BY <1>1 DEF FlightInv, OneTab, Granting, BrowserShape
<1>5. jar \notin redeemed /\ (jar = NoPair \/ jar # live)
  BY <1>1, <1>4 DEF CookieInv, LeavingInv
<1>6. \A f \in Waiting(g) : fetch[f].tab \in Tab
  BY DEF Waiting, FlightInv
<1>7. /\ atLogin' = atLogin \cup {fetch[f].tab : f \in Waiting(g)}
      /\ unloading' \subseteq unloading \cup {fetch[f].tab : f \in Waiting(g)}
  BY DEF Refused
<1>8. atLogin' \subseteq Tab /\ unloading' \subseteq Tab
  BY <1>6, <1>7 DEF BrowserShape
<1>9. \A f \in Fetch : fetch'[f] = NoCall \/ fetch'[f] = fetch[f]
  BY <1>2
<1>10. BrowserShape'
  BY <1>1, <1>2, <1>3, <1>8, NoCallType DEF BrowserShape
<1>11. FlightInv' /\ NeverReplayed'
  BY <1>3, <1>9 DEF FlightInv, NeverReplayed, NoCall
<1>12. CookieInv'
  BY <1>1, <1>3, <1>5, <1>9 DEF CookieInv, NoCall
<1>13. LeavingInv'
  BY <1>1, <1>3, <1>5 DEF LeavingInv, Granting
<1> QED
  BY <1>10, <1>11, <1>12, <1>13

LEMMA LostShares ==
  ASSUME ShareInv, OneTab, ~Lossy, NEW g \in Fetch, Lost(g) PROVE ShareInv'
<1> USE BrowserConstants DEF ShareInv
<1>1. /\ refresh[g].pc \in {"asked", "refused"} /\ Settle(g)
      /\ UNCHANGED <<stored, jar, atLogin, unloading, signing, live, issued, redeemed>>
  BY DEF Lost, apiVars
<1>2. fetch' = [f \in Fetch |-> IF f \in Waiting(g) THEN NoCall ELSE fetch[f]]
  BY DEF Lost
<1>3. /\ refresh' \in [Fetch -> RefreshType]
      /\ refreshInFlight' \in [Tab -> Fetch \cup {NoFetch}]
      /\ \A h \in Fetch : refresh'[h].pc = "idle"
      /\ \A t \in Tab : signing[t] = NoPair
  BY <1>1, SettleShares
<1>4. ~Granting /\ fetch[g].tab \in Tab
  BY <1>1 DEF FlightInv, OneTab, Granting, BrowserShape
<1>5. jar \notin redeemed
  BY <1>4 DEF CookieInv
<1>6. \A f \in Fetch : fetch'[f] = NoCall \/ fetch'[f] = fetch[f]
  BY <1>2
<1>7. BrowserShape'
  BY <1>1, <1>2, <1>3, NoCallType DEF BrowserShape
<1>8. FlightInv' /\ NeverReplayed'
  BY <1>3, <1>6 DEF FlightInv, NeverReplayed, NoCall
<1>9. CookieInv'
  BY <1>1, <1>3, <1>5, <1>6 DEF CookieInv, NoCall
<1>10. LeavingInv'
  BY <1>1, <1>3 DEF LeavingInv, Granting
<1> QED
  BY <1>7, <1>8, <1>9, <1>10

LEMMA UnloadShares ==
  ASSUME ShareInv, OneTab, NEW t \in Tab, Unload(t) PROVE ShareInv'
<1> USE BrowserConstants DEF ShareInv
<1>1. /\ t \in unloading /\ unloading' = unloading \ {t}
      /\ fetch' = [f \in Fetch |-> IF fetch[f].tab = t THEN NoCall ELSE fetch[f]]
      /\ refresh' = [f \in Fetch |->
            IF refreshInFlight[t] = f THEN NoRefresh ELSE refresh[f]]
      /\ refreshInFlight' = [refreshInFlight EXCEPT ![t] = NoFetch]
      /\ UNCHANGED <<stored, jar, atLogin, signing, live, issued, redeemed>>
  BY DEF Unload, apiVars
<1>2. \A f \in Fetch : refresh'[f].pc = "idle"
  BY <1>1 DEF FlightInv, NoRefresh
<1>3. \A f \in Fetch : fetch'[f] = NoCall \/ fetch'[f] = fetch[f]
  BY <1>1
<1>4. jar \notin redeemed /\ \A u \in Tab : signing[u] = NoPair
  BY <1>1 DEF CookieInv, LeavingInv, OneTab
<1>5. unloading' = {}
  BY <1>1 DEF OneTab, BrowserShape
<1>6. BrowserShape'
  BY <1>1, <1>5, NoCallType DEF BrowserShape
<1>7. FlightInv' /\ NeverReplayed'
  BY <1>2, <1>3 DEF FlightInv, NeverReplayed, NoCall
<1>8. CookieInv'
  BY <1>1, <1>2, <1>3, <1>4 DEF CookieInv, NoCall
<1>9. LeavingInv'
  BY <1>1, <1>2, <1>4, <1>5 DEF LeavingInv
<1> QED
  BY <1>6, <1>7, <1>8, <1>9

LEMMA ShareInit == BrowserInit /\ OneTab => ShareInv
<1> SUFFICES ASSUME BrowserInit, OneTab PROVE ShareInv
  OBVIOUS
<1>1. /\ stored = NoPair /\ jar = NoPair /\ live = NoPair
      /\ atLogin = Tab /\ unloading = {} /\ issued = {} /\ redeemed = {}
      /\ signing = [t \in Tab |-> NoPair]
      /\ fetch = [f \in Fetch |-> NoCall]
      /\ refresh = [f \in Fetch |-> NoRefresh]
      /\ refreshInFlight = [t \in Tab |-> NoFetch]
  BY DEF BrowserInit
<1>2. NoCall.pc = "idle" /\ NoRefresh.pc = "idle"
  BY DEF NoCall, NoRefresh
<1>3. BrowserShape
  BY <1>1, NoCallType DEF BrowserShape
<1>4. FlightInv /\ CookieInv /\ LeavingInv /\ NeverReplayed
  BY <1>1, <1>2 DEF FlightInv, CookieInv, LeavingInv, NeverReplayed, Granting
<1> QED
  BY <1>3, <1>4 DEF ShareInv

LEMMA ShareStep ==
  ASSUME OneTab, ~Lossy, ShareInv, [BrowserNext]_browserVars PROVE ShareInv'
<1>1. ASSUME NEW t \in Tab, SignIn(t) \/ SignedIn(t) \/ Unload(t) PROVE ShareInv'
  BY <1>1, SignInShares, SignedInShares, UnloadShares
<1>2. ASSUME NEW f \in Fetch, NEW t \in Tab, Guard(f, t) PROVE ShareInv'
  BY <1>2, GuardShares
<1>3. ASSUME NEW f \in Fetch, NEW t \in Tab, NEW kind \in Kind, Send(f, t, kind)
      PROVE  ShareInv'
  BY <1>3, SendShares
<1>4. ASSUME NEW f \in Fetch, Serve(f) \/ Receive(f) \/ Unauthorized(f) PROVE ShareInv'
  BY <1>4, ServeShares, ReceiveShares, UnauthorizedShares
<1>5. ASSUME NEW g \in Fetch, ServeRefresh(g) \/ Granted(g) \/ Refused(g) \/ Lost(g)
      PROVE  ShareInv'
  BY <1>5, ServeRefreshShares, GrantedShares, RefusedShares, LostShares
<1>6. ASSUME \/ \E p \in Pair : Expire(p)
             \/ UNCHANGED browserVars
      PROVE  ShareInv'
  <2>1. UNCHANGED <<tabVars, live, issued, redeemed>>
    BY <1>6 DEF Expire, browserVars, apiVars
  <2> QED
    BY <2>1 DEF tabVars, ShareInv, BrowserShape, FlightInv, CookieInv, LeavingInv,
      NeverReplayed, Granting
<1> QED
  BY <1>1, <1>2, <1>3, <1>4, <1>5, <1>6 DEF BrowserNext

\* In a browser with one tab, and as long as no new pair is lost on its way, no
\* refresh shows a token that was exchanged: the calls of the tab share one
\* rotation (refreshInFlight), whatever they were when the token expired
\* (api.ts:22-51).
THEOREM RefreshIsShared ==
  ASSUME OneTab, ~Lossy PROVE BrowserSpec => []NeverReplayed
<1>1. BrowserInit => ShareInv
  BY ShareInit
<1>2. ShareInv /\ [BrowserNext]_browserVars => ShareInv'
  BY ShareStep
<1>3. ShareInv => NeverReplayed
  BY DEF ShareInv
<1> QED
  BY <1>1, <1>2, <1>3, PTL DEF BrowserSpec

-----------------------------------------------------------------------------
(* Types                                                                     *)

\* A call under way is one of a tab: what the answer of a refresh does to the
\* tabs of those who wait for it needs that.
TabInv ==
  BrowserTypeOK /\ \A f \in Fetch : fetch[f].pc # "idle" => fetch[f].tab \in Tab

LEMMA TabInitially == BrowserInit => TabInv
<1> SUFFICES ASSUME BrowserInit PROVE TabInv
  OBVIOUS
<1>1. fetch \in [Fetch -> CallType] /\ refresh \in [Fetch -> RefreshType]
  BY NoCallType DEF BrowserInit
<1>2. \A f \in Fetch : fetch[f].pc = "idle"
  BY DEF BrowserInit, NoCall
<1>3. BrowserTypeOK
  BY <1>1 DEF BrowserInit, BrowserTypeOK, CallType, RefreshType
<1> QED
  BY <1>2, <1>3 DEF TabInv

\* Who asks for a refresh keeps the types, for its own call and for its tab's.
LEMMA AskTyped ==
  ASSUME TabInv, NEW f \in Fetch, NEW t \in Tab, NEW q \in CallType, q.tab = t,
         AskRefresh(f, t, q)
  PROVE  /\ fetch' \in [Fetch -> CallType]
         /\ refresh' \in [Fetch -> RefreshType]
         /\ refreshInFlight' \in [Tab -> Fetch \cup {NoFetch}]
         /\ \A g \in Fetch : fetch'[g].pc # "idle" => fetch'[g].tab \in Tab
<1>1. /\ fetch \in [Fetch -> CallType] /\ refresh \in [Fetch -> RefreshType]
      /\ refreshInFlight \in [Tab -> Fetch \cup {NoFetch}]
      /\ jar \in Pair \cup {NoPair}
  BY DEF TabInv, BrowserTypeOK, CallType, RefreshType
<1>2. PICK g \in Fetch : fetch' = [fetch EXCEPT ![f] = [q EXCEPT !.pc = "waiting", !.on = g]]
  BY <1>1 DEF AskRefresh
<1>3. [q EXCEPT !.pc = "waiting", !.on = g] \in CallType
  BY CallMoves DEF FetchPc
<1>4. [q EXCEPT !.pc = "waiting", !.on = g].tab = t
  BY DEF CallType
<1>5. fetch' \in [Fetch -> CallType]
  BY <1>1, <1>2, <1>3
<1>6. [pc |-> "asked", shown |-> jar, pair |-> NoPair] \in RefreshType
  BY <1>1 DEF RefreshType, RefreshPc
<1>7. /\ refresh' \in [Fetch -> RefreshType]
      /\ refreshInFlight' \in [Tab -> Fetch \cup {NoFetch}]
  BY <1>1, <1>6 DEF AskRefresh
<1>8. \A h \in Fetch : fetch'[h].pc # "idle" => fetch'[h].tab \in Tab
  BY <1>1, <1>2, <1>4 DEF TabInv
<1> QED
  BY <1>5, <1>7, <1>8

\* So does whoever goes on once a refresh is over.
LEMMA SettleTyped ==
  ASSUME TabInv, NEW g \in Fetch, Settle(g)
  PROVE  /\ refresh' \in [Fetch -> RefreshType]
         /\ refreshInFlight' \in [Tab -> Fetch \cup {NoFetch}]
BY NoCallType DEF TabInv, BrowserTypeOK, Settle, RefreshType

LEMMA TabStep == ASSUME TabInv, [BrowserNext]_browserVars PROVE TabInv'
<1> DEFINE Calls == /\ fetch' \in [Fetch -> CallType]
                    /\ \A f \in Fetch : fetch'[f].pc # "idle" => fetch'[f].tab \in Tab
           Refreshes == /\ refresh' \in [Fetch -> RefreshType]
                        /\ refreshInFlight' \in [Tab -> Fetch \cup {NoFetch}]
           Browser == /\ stored' \in Pair \cup {NoPair} /\ jar' \in Pair \cup {NoPair}
                      /\ atLogin' \subseteq Tab /\ unloading' \subseteq Tab
                      /\ signing' \in [Tab -> Pair \cup {NoPair}]
           Api == /\ live' \in Pair \cup {NoPair}
                  /\ expired' \subseteq Pair /\ revoked' \subseteq Pair
                  /\ issued' \subseteq Pair /\ redeemed' \subseteq Pair
<1> SUFFICES Calls /\ Refreshes /\ Browser /\ Api
  BY DEF TabInv, BrowserTypeOK, CallType, RefreshType
<1>1. /\ fetch \in [Fetch -> CallType] /\ refresh \in [Fetch -> RefreshType]
      /\ \A f \in Fetch : fetch[f].pc # "idle" => fetch[f].tab \in Tab
  BY DEF TabInv, BrowserTypeOK, CallType, RefreshType
<1>2. /\ refreshInFlight \in [Tab -> Fetch \cup {NoFetch}]
      /\ stored \in Pair \cup {NoPair} /\ jar \in Pair \cup {NoPair}
      /\ atLogin \subseteq Tab /\ unloading \subseteq Tab
      /\ signing \in [Tab -> Pair \cup {NoPair}]
      /\ live \in Pair \cup {NoPair}
      /\ expired \subseteq Pair /\ revoked \subseteq Pair
      /\ issued \subseteq Pair /\ redeemed \subseteq Pair
  BY DEF TabInv, BrowserTypeOK
<1>3. NoCall \in CallType /\ NoRefresh \in RefreshType /\ NoCall.pc = "idle"
  BY NoCallType DEF NoCall
<1>4. ASSUME NEW t \in Tab, SignIn(t) \/ SignedIn(t)
      PROVE  Calls /\ Refreshes /\ Browser /\ Api
  BY <1>1, <1>2, <1>4 DEF SignIn, SignedIn, apiVars
<1>5. ASSUME NEW t \in Tab, Unload(t)
      PROVE  Calls /\ Refreshes /\ Browser /\ Api
  BY <1>1, <1>2, <1>3, <1>5 DEF Unload, apiVars
<1>6. ASSUME NEW f \in Fetch, NEW t \in Tab, Guard(f, t)
      PROVE  Calls /\ Refreshes /\ Browser /\ Api
  <2>1. Browser /\ Api
    BY <1>2, <1>6 DEF Guard, apiVars
  <2>2. CASE Unexpired(stored)
    BY <1>1, <1>2, <1>6, <2>1, <2>2 DEF Guard
  <2>3. CASE ~Unexpired(stored)
    <3> DEFINE q == [NoCall EXCEPT !.tab = t, !.kind = "guard"]
    <3>1. q \in CallType /\ q.tab = t
      BY GuardType DEF NoCall
    <3>2. AskRefresh(f, t, q)
      BY <1>6, <2>3 DEF Guard
    <3> HIDE DEF q
    <3> QED
      BY <2>1, <3>1, <3>2, AskTyped
  <2> QED
    BY <2>2, <2>3
<1>7. ASSUME NEW f \in Fetch, NEW t \in Tab, NEW kind \in Kind, Send(f, t, kind)
      PROVE  Calls /\ Refreshes /\ Browser /\ Api
  <2> DEFINE q == [NoCall EXCEPT !.pc = "sent", !.tab = t, !.kind = kind,
                                 !.token = stored, !.retry = TRUE]
  <2>1. q \in CallType /\ q.tab = t
    BY <1>2, SentType DEF NoCall
  <2>2. fetch' = [fetch EXCEPT ![f] = q]
    BY <1>7 DEF Send
  <2> HIDE DEF q
  <2>3. Calls
    BY <1>1, <2>1, <2>2
  <2> QED
    BY <1>1, <1>2, <1>7, <2>3 DEF Send, apiVars
<1>8. ASSUME NEW f \in Fetch, Serve(f)
      PROVE  Calls /\ Refreshes /\ Browser /\ Api
  <2>1. PICK pc \in {"ok", "unauthorized"} :
          fetch' = [fetch EXCEPT ![f] = [fetch[f] EXCEPT !.pc = pc]]
    BY <1>8 DEF Serve
  <2>2. fetch[f].pc = "sent" /\ fetch[f].tab \in Tab
    BY <1>1, <1>8 DEF Serve
  <2>3. [fetch[f] EXCEPT !.pc = pc] \in CallType /\ [fetch[f] EXCEPT !.pc = pc].tab = fetch[f].tab
    BY <1>1 DEF CallType, FetchPc
  <2>4. Calls
    BY <1>1, <2>1, <2>2, <2>3
  <2>5. live' \in Pair \cup {NoPair} /\ revoked' \subseteq Pair
    BY <1>2, <1>8 DEF Serve, Unexpired
  <2> QED
    BY <1>1, <1>2, <1>8, <2>4, <2>5 DEF Serve
<1>9. ASSUME NEW f \in Fetch, Receive(f)
      PROVE  Calls /\ Refreshes /\ Browser /\ Api
  <2>1. fetch[f].tab \in Tab
    BY <1>1, <1>9 DEF Receive
  <2>2. Calls
    BY <1>1, <1>3, <1>9 DEF Receive
  <2> QED
    BY <1>1, <1>2, <1>9, <2>1, <2>2 DEF Receive, apiVars
<1>10. ASSUME NEW f \in Fetch, Unauthorized(f)
       PROVE  Calls /\ Refreshes /\ Browser /\ Api
  <2>1. fetch[f].tab \in Tab /\ fetch[f] \in CallType
    BY <1>1, <1>10 DEF Unauthorized
  <2>2. AskRefresh(f, fetch[f].tab, fetch[f])
    BY <1>10 DEF Unauthorized
  <2>3. Calls /\ Refreshes
    BY <2>1, <2>2, AskTyped
  <2> QED
    BY <1>2, <1>10, <2>3 DEF Unauthorized, apiVars
<1>11. ASSUME NEW g \in Fetch, ServeRefresh(g)
       PROVE  Calls /\ Refreshes /\ Browser /\ Api
  <2>1. refresh[g] \in RefreshType
    BY <1>1
  <2>2. CASE refresh[g].shown # NoPair /\ refresh[g].shown = live
    <3>1. PICK p \in Pair \ issued :
            /\ refresh' = [refresh EXCEPT ![g].pc = "granted", ![g].pair = p]
            /\ live' = p /\ issued' = issued \cup {p}
            /\ redeemed' = redeemed \cup {refresh[g].shown}
      BY <1>11, <2>2 DEF ServeRefresh
    <3>2. refresh' \in [Fetch -> RefreshType]
      BY <1>1, <2>1, <3>1 DEF RefreshType, RefreshPc
    <3>3. refresh[g].shown \in Pair
      BY <2>1, <2>2 DEF RefreshType
    <3> QED
      BY <1>1, <1>2, <1>11, <3>1, <3>2, <3>3 DEF ServeRefresh
  <2>3. CASE ~(refresh[g].shown # NoPair /\ refresh[g].shown = live)
    <3>1. /\ refresh' = [refresh EXCEPT ![g].pc = "refused"]
          /\ UNCHANGED <<live, issued, redeemed>>
      BY <1>11, <2>3 DEF ServeRefresh
    <3>2. refresh' \in [Fetch -> RefreshType]
      BY <1>1, <2>1, <3>1 DEF RefreshType, RefreshPc
    <3> QED
      BY <1>1, <1>2, <1>11, <3>1, <3>2 DEF ServeRefresh
  <2> QED
    BY <2>2, <2>3
<1>12. ASSUME NEW g \in Fetch, Granted(g)
       PROVE  Calls /\ Refreshes /\ Browser /\ Api
  <2>1. refresh[g].pair \in Pair \cup {NoPair}
    BY <1>1 DEF RefreshType
  <2>2. Settle(g)
    BY <1>12 DEF Granted
  <2>3. Refreshes
    BY <2>2, SettleTyped
  <2>4. \A f \in Fetch :
          LET q == [fetch[f] EXCEPT !.pc = "sent", !.token = refresh[g].pair,
                                    !.retry = FALSE, !.on = NoFetch] IN
          q \in CallType /\ q.tab = fetch[f].tab
    <3> SUFFICES ASSUME NEW f \in Fetch
                 PROVE  LET q == [fetch[f] EXCEPT !.pc = "sent", !.token = refresh[g].pair,
                                                  !.retry = FALSE, !.on = NoFetch] IN
                        q \in CallType /\ q.tab = fetch[f].tab
      OBVIOUS
    <3>1. fetch[f] \in CallType
      BY <1>1
    <3> QED
      BY <2>1, <3>1 DEF CallType, FetchPc
  <2>5. fetch' = [f \in Fetch |->
          IF f \notin Waiting(g) THEN fetch[f]
          ELSE IF fetch[f].kind = "guard" THEN NoCall
          ELSE [fetch[f] EXCEPT !.pc = "sent", !.token = refresh[g].pair,
                                !.retry = FALSE, !.on = NoFetch]]
    BY <1>12 DEF Granted
  <2>6. Calls
    BY <1>1, <1>3, <2>4, <2>5 DEF Waiting
  <2> QED
    BY <1>2, <1>12, <2>1, <2>3, <2>6 DEF Granted, apiVars
<1>13. ASSUME NEW g \in Fetch, Refused(g) \/ Lost(g)
       PROVE  Calls /\ Refreshes /\ Browser /\ Api
  <2>1. Settle(g)
    BY <1>13 DEF Refused, Lost
  <2>2. Refreshes
    BY <2>1, SettleTyped
  <2>3. fetch' = [f \in Fetch |-> IF f \in Waiting(g) THEN NoCall ELSE fetch[f]]
    BY <1>13 DEF Refused, Lost
  <2>4. Calls
    BY <1>1, <1>3, <2>3
  <2>5. \A f \in Waiting(g) : fetch[f].tab \in Tab
    BY <1>1 DEF Waiting
  <2> QED
    BY <1>2, <1>13, <2>2, <2>4, <2>5 DEF Refused, Lost, apiVars
<1>14. ASSUME NEW p \in Pair, Expire(p)
       PROVE  Calls /\ Refreshes /\ Browser /\ Api
  BY <1>1, <1>2, <1>14 DEF Expire, tabVars
<1>15. ASSUME UNCHANGED browserVars
       PROVE  Calls /\ Refreshes /\ Browser /\ Api
  BY <1>1, <1>2, <1>15 DEF browserVars, tabVars, apiVars
<1> HIDE DEF Calls, Refreshes, Browser, Api
<1> QED
  BY <1>4, <1>5, <1>6, <1>7, <1>8, <1>9, <1>10, <1>11, <1>12, <1>13, <1>14, <1>15
     DEF BrowserNext

\* A polygon to insert has an identifier that was given, and so has one stored.
GivenInv ==
  /\ places \subseteq created /\ created \subseteq Place
  /\ evicted \subseteq User /\ late \subseteq User /\ crossed \in BOOLEAN
  /\ \A r \in Request : request[r].pc = "insert" => request[r].place \in created

LEMMA GivenInitially == NeighborhoodsInit => GivenInv
<1> SUFFICES ASSUME NeighborhoodsInit PROVE GivenInv
  OBVIOUS
<1>1. \A r \in Request : request[r].pc = "idle"
  BY DEF NeighborhoodsInit, NoRequest
<1>2. places = {} /\ created = {} /\ evicted = {} /\ late = {} /\ crossed = FALSE
  BY DEF NeighborhoodsInit
<1> QED
  BY <1>1, <1>2 DEF GivenInv

LEMMA GivenStep ==
  ASSUME HomeInv, GivenInv, [NeighborhoodsNext]_neighborhoodsVars PROVE GivenInv'
<1> USE DEF mongoVars, historyVars
<1> DEFINE Kept == \A q \in Request : request'[q].pc = "insert" =>
                     request[q].pc = "insert" /\ request'[q].place = request[q].place
<1>1. PlaceShape /\ HomeShape
  BY DEF HomeInv, AreaInv
<1>2. ASSUME NEW r \in Request, NEW u \in User, NEW p \in Point, Submit(r, u, p)
      PROVE  GivenInv'
  BY <1>1, <1>2 DEF Submit, GivenInv, PlaceShape, NoRequest
<1>3. ASSUME NEW r \in Request, StoreAddress(r) PROVE GivenInv'
  BY <1>1, <1>3 DEF StoreAddress, Assigned, GivenInv, PlaceShape, HomeShape, NoRequest
<1>4. ASSUME NEW r \in Request, NEW n \in Place, NEW shape \in SUBSET Point,
             Create(r, n, shape)
      PROVE  GivenInv'
  BY <1>1, <1>4 DEF Create, Administers, GivenInv, PlaceShape, NoRequest
<1>5. ASSUME NEW r \in Request, NEW n \in Place, NEW shape \in SUBSET Point,
             Change(r, n, shape)
      PROVE  GivenInv'
  BY <1>1, <1>5 DEF Change, Administers, GivenInv, PlaceShape, NoRequest
<1>6. ASSUME NEW r \in Request, NEW n \in Place, RemovePlace(r, n)
      PROVE  GivenInv'
  BY <1>1, <1>6 DEF RemovePlace, Administers, GivenInv, PlaceShape, NoRequest
<1>7. ASSUME NEW r \in Request, Insert(r) \/ Update(r) \/ UpdateMisses(r) PROVE GivenInv'
  <2>1. request[r] \in RequestType
    BY <1>1 DEF PlaceShape
  <2> QED
    BY <1>1, <1>7, <2>1
       DEF Insert, Update, UpdateMisses, GivenInv, PlaceShape, NoRequest, RequestType
<1>8. ASSUME NEW r \in Request, Clear(r) PROVE GivenInv'
  BY <1>1, <1>8 DEF Clear, GivenInv, PlaceShape, NoRequest
<1>9. ASSUME NEW r \in Request, Select(r) \/ Reassign(r) \/ AssignRow(r) PROVE GivenInv'
  <2>1. request[r] \in RequestType
    BY <1>1 DEF PlaceShape
  <2>2. /\ request'[r].pc # "insert"
        /\ \A q \in Request \ {r} : request'[q] = request[q]
    <3>1. CASE Select(r)
      BY <1>1, <2>1, <3>1 DEF Select, PlaceShape, NoRequest, RequestType
    <3>2. CASE Reassign(r)
      BY <1>1, <2>1, <3>2 DEF Reassign, PlaceShape, NoRequest, RequestType
    <3>3. CASE AssignRow(r)
      BY <1>1, <2>1, <3>3 DEF AssignRow, PlaceShape, NoRequest, RequestType
    <3> QED
      BY <1>9, <3>1, <3>2, <3>3
  <2>3. Kept
    BY <2>2
  <2>4. UNCHANGED <<places, created, evicted, crossed>> /\ late' \subseteq User
    BY <1>1, <1>9 DEF Select, Reassign, AssignRow, Assigned, HomeShape, GivenInv
  <2> QED
    BY <2>3, <2>4 DEF GivenInv
<1>10. ASSUME UNCHANGED neighborhoodsVars PROVE GivenInv'
  BY <1>10 DEF neighborhoodsVars, GivenInv
<1> QED
  BY <1>2, <1>3, <1>4, <1>5, <1>6, <1>7, <1>8, <1>9, <1>10 DEF NeighborhoodsNext

\* The history of the listings speaks of listings.
MarkInv == raced \subseteq Item /\ failed \subseteq Item /\ strayed \subseteq Item

LEMMA MarkStep ==
  ASSUME ListInv, MarkInv, [ListingsNext]_listingsVars PROVE MarkInv'
<1> USE DEF MarkInv, documentVars, dependentVars, listingHistory
<1>1. /\ \A r \in Call : call[r].pc # "idle" => call[r].item \in Item
      /\ \A k \in DOMAIN writes : writes[k].item \in Item
  BY DEF ListInv, ListShape, CallInv, WriteInv
<1>2. ASSUME NEW r \in Call, NEW i \in Item, NEW pc, NEW u, NEW title,
             Start(r, i, pc, u, title)
      PROVE  MarkInv'
  BY <1>2 DEF Start
<1>3. ASSUME NEW r \in Call,
             \/ UpdateListing(r) \/ Book(r) \/ Respond(r) \/ Vote(r) \/ Interest(r)
             \/ Count(r) \/ Delete(r) \/ Cascade(r)
      PROVE  MarkInv'
  BY <1>3 DEF UpdateListing, Book, Respond, Vote, Interest, Count, Delete, Cascade
<1>4. ASSUME NEW r \in Call, CascadeFails(r) PROVE MarkInv'
  BY <1>1, <1>4 DEF CascadeFails
<1>5. ASSUME NEW s \in Service, NEW u \in Resident,
             Unrespond(s, u) \/ \E status \in {"accepted", "over"} : Advance(s, u, status)
      PROVE  MarkInv'
  BY <1>5 DEF Unrespond, Advance
<1>6. ASSUME NEW k \in DOMAIN writes, Land(k) \/ Fail(k) PROVE MarkInv'
  BY <1>1, <1>6 DEF Land, Fail
<1>7. ASSUME NEW i \in Item, NEW title \in Title, CreateListing(i, title) PROVE MarkInv'
  BY <1>7 DEF CreateListing
<1>8. ASSUME UNCHANGED listingsVars PROVE MarkInv'
  BY <1>8 DEF listingsVars
<1>9. \A i \in Service \cup Event : i \in Item
  BY DEF Item
<1> QED
  BY <1>2, <1>3, <1>4, <1>5, <1>6, <1>7, <1>8, <1>9 DEF ListingsNext

\* An interest carries no title.
BareInv == \A k \in DOMAIN writes : writes[k].op = "interest" => writes[k].title = Gone

LEMMA BareStep ==
  ASSUME ListInv, BareInv, [ListingsNext]_listingsVars PROVE BareInv'
<1> USE DEF documentVars, dependentVars, listingHistory
<1>1. /\ \A r \in Call : call[r].pc # "idle" => call[r].item \in Item
      /\ \A r \in Call : call[r].pc = "update" => call[r].title \in Title
  BY DEF ListInv, ListShape, CallInv
<1>2. ASSUME UNCHANGED writes PROVE BareInv'
  BY <1>2 DEF BareInv
<1>3. ASSUME NEW op \in {"sync", "delete", "interest"}, NEW i \in Item,
             NEW title \in Title \cup {Gone}, op = "interest" => title = Gone,
             Project(op, i, title)
      PROVE  BareInv'
  <2> DEFINE w == [op |-> op, item |-> i, title |-> title]
  <2>1. w \in GraphWrite /\ (w.op = "interest" => w.title = Gone)
    BY <1>3 DEF GraphWrite
  <2>2. writes' = Append(writes, w)
    BY <1>3 DEF Project
  <2> HIDE DEF w
  <2>3. PICK new : /\ DOMAIN writes' = DOMAIN writes \cup {new} /\ writes'[new] = w
                   /\ \A k \in DOMAIN writes : writes'[k] = writes[k]
    BY <2>1, <2>2, Appended
  <2> QED
    BY <2>1, <2>3 DEF BareInv
<1>4. ASSUME NEW i \in Item, NEW title \in Title, CreateListing(i, title) PROVE BareInv'
  BY <1>3, <1>4 DEF CreateListing
<1>5. ASSUME NEW r \in Call, NEW i \in Item, NEW pc, NEW u, NEW title,
             Start(r, i, pc, u, title)
      PROVE  BareInv'
  BY <1>2, <1>5 DEF Start
<1>6. ASSUME NEW r \in Call, UpdateListing(r) PROVE BareInv'
  BY <1>1, <1>2, <1>3, <1>6 DEF UpdateListing
<1>7. ASSUME NEW r \in Call, Interest(r) PROVE BareInv'
  BY <1>1, <1>2, <1>3, <1>7 DEF Interest
<1>8. ASSUME NEW r \in Call, Cascade(r) \/ CascadeFails(r) PROVE BareInv'
  <2>1. call[r].item \in Item /\ DropNode(call[r].item)
    BY <1>1, <1>8 DEF Cascade, CascadeFails
  <2> QED
    BY <1>2, <1>3, <2>1 DEF DropNode
<1>9. ASSUME NEW r \in Call, Book(r) \/ Respond(r) \/ Vote(r) \/ Count(r) \/ Delete(r)
      PROVE  BareInv'
  BY <1>2, <1>9 DEF Book, Respond, Vote, Count, Delete
<1>10. ASSUME NEW s \in Service, NEW u \in Resident,
              Unrespond(s, u) \/ \E status \in {"accepted", "over"} : Advance(s, u, status)
       PROVE  BareInv'
  BY <1>2, <1>10 DEF Unrespond, Advance
<1>11. ASSUME NEW k \in DOMAIN writes, Land(k) \/ Fail(k) PROVE BareInv'
  <2>1. writes' = RemoveAt(writes, k)
    BY <1>11 DEF Land, Fail
  <2>2. \A j \in DOMAIN writes' :
          Before(k, j) \in DOMAIN writes /\ writes'[j] = writes[Before(k, j)]
    BY <2>1, Removed
  <2> QED
    BY <2>2 DEF BareInv
<1>12. ASSUME UNCHANGED listingsVars PROVE BareInv'
  BY <1>2, <1>12 DEF listingsVars
<1>13. \A i \in Service \cup Event : i \in Item
  BY DEF Item
<1> QED
  BY <1>4, <1>5, <1>6, <1>7, <1>8, <1>9, <1>10, <1>11, <1>12, <1>13 DEF ListingsNext

LEMMA ListTyped == ListInv /\ MarkInv /\ BareInv => ListingsTypeOK
<1> SUFFICES ASSUME ListInv, MarkInv, BareInv PROVE ListingsTypeOK
  OBVIOUS
<1> DEFINE W == [op : {"sync"}, item : published, title : Title]
                  \cup [op : {"delete", "interest"}, item : published, title : {Gone}]
<1>1. ListShape /\ WriteInv
  BY DEF ListInv
<1>2. \A k \in DOMAIN writes : writes[k] \in W
  <2> SUFFICES ASSUME NEW k \in DOMAIN writes PROVE writes[k] \in W
    OBVIOUS
  <2>1. writes[k] \in GraphWrite
    BY <1>1 DEF ListShape
  <2>2. /\ writes[k].op = "sync" => writes[k].title \in Title
        /\ writes[k].op # "sync" => writes[k].title = Gone
        /\ writes[k].item \in published
    BY <1>1, <2>1 DEF WriteInv, BareInv, GraphWrite
  <2> QED
    BY <2>1, <2>2 DEF GraphWrite
<1> HIDE DEF W
<1>3. writes \in Seq(W)
  BY <1>1, <1>2 DEF ListShape
<1> QED
  BY <1>1, <1>3 DEF W, ListShape, ListCall, MarkInv, ListingsTypeOK, Refers, Removes

\* The three parts keep their types, whichever of them moves: the calls and
\* refreshes of a browser with any tabs, also where a pair is lost; the requests
\* of residents and administrators; the writes to the graph, which name a
\* listing that was published (api.ts:22-51, neighborhoods.controller.ts:195-319,
\* services.service.ts:351-373).
THEOREM ResidentsTypes == ResidentsSpec => []ResidentsTypeOK
<1> DEFINE Inv == TabInv /\ HomeInv /\ GivenInv /\ ListInv /\ MarkInv /\ BareInv
<1>1. ResidentsInit => Inv
  BY TabInitially, HomeInitially, GivenInitially, ListInitially
     DEF ResidentsInit, ListingsInit, MarkInv, BareInv
<1>2. Inv /\ [ResidentsNext]_residentsVars => Inv'
  <2>1. [ResidentsNext]_residentsVars =>
          /\ [BrowserNext]_browserVars /\ [NeighborhoodsNext]_neighborhoodsVars
          /\ [ListingsNext]_listingsVars
    BY DEF ResidentsNext, residentsVars
  <2> QED
    BY <2>1, TabStep, HomeStep, GivenStep, ListStep, MarkStep, BareStep
<1>3. Inv => ResidentsTypeOK
  <2>1. HomeInv /\ GivenInv => NeighborhoodsTypeOK
    BY DEF HomeInv, AreaInv, GivenInv, PlaceShape, HomeShape, NeighborhoodsTypeOK, RequestType
  <2> QED
    BY <2>1, ListTyped DEF TabInv, ResidentsTypeOK
<1> QED
  BY <1>1, <1>2, <1>3, PTL DEF ResidentsSpec
=============================================================================
