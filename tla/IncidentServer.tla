--------------------------- MODULE IncidentServer ---------------------------
(***************************************************************************)
(* The incidents of one neighborhood as the API keeps them                 *)
(* (api/src/incidents/incidents.service.ts).  A handler is one step, its   *)
(* SQL statement, except for the PATCH of the status, whose read and       *)
(* conditional UPDATE are two awaited statements.  Dates are the values of *)
(* one clock that every stamping write advances.                           *)
(***************************************************************************)
EXTENDS Naturals, Sequences, SequencesExt, ThreeWayMerge

CONSTANTS
  Rid,         \* incident uuids
  NoRid,
  Seeded,      \* incidents that exist at the start, created by "neighbor"
  FirstText,   \* their text
  PageSize,    \* PULL_PAGE_SIZE, the limit of a listing
  MaxClock     \* bound on the number of stamping writes

ASSUME ServerAssumption ==
  /\ Seeded \subseteq Rid /\ IsFiniteSet(Seeded) /\ NoRid \notin Rid
  /\ FirstText \in Text
  /\ PageSize \in Nat \ {0} /\ MaxClock \in Nat \ {0}

VARIABLES
  rows,        \* the incidents table
  order,       \* the incidents by createdAt, newest first
  clock,       \* the last date stamped
  patch        \* the PATCH request of a client between its two statements

serverVars == <<rows, order, clock, patch>>

User == {"me", "neighbor"}          \* the desktop's user, and everybody else
Client == {"desktop", "web"}

Row(state, content, owner, at) ==
  [state |-> state, content |-> content, owner |-> owner, at |-> at]

Patch(pc, rid, from, to, at) ==
  [pc |-> pc, rid |-> rid, from |-> from, to |-> to, at |-> at]

NoPatch == Patch("idle", NoRid, "open", "open", 0)

Absent == Row("absent", Incident(FirstText, "open"), "neighbor", 0)

ServerTypeOK ==
  /\ rows \in [Rid -> [state : {"absent", "live", "deleted"}, content : Content,
                       owner : User, at : 0..MaxClock]]
  /\ order \in Seq(Rid)
  /\ clock \in 0..MaxClock
  /\ patch \in [Client -> [pc : {"idle", "read", "ok", "refused"}, rid : Rid \cup {NoRid},
                           from : Status, to : Status, at : 0..MaxClock]]

ServerInit ==
  /\ rows = [r \in Rid |-> IF r \in Seeded
                           THEN Row("live", Incident(FirstText, "open"), "neighbor", 1)
                           ELSE Absent]
  /\ order = SetToSeq(Seeded)
  /\ clock = 1
  /\ patch = [c \in Client |-> NoPatch]

-----------------------------------------------------------------------------
\* VALID_TRANSITIONS
Transition(from, to) ==
  \/ from = "open" /\ to = "in_progress"
  \/ from = "in_progress" /\ to = "resolved"

Live(r) == rows[r].state = "live"

\* Every write that stamps a date.
Stamp == clock < MaxClock /\ clock' = clock + 1

\* POST /incidents
Create(r, t, u) ==
  /\ rows[r].state = "absent"
  /\ Stamp
  /\ rows' = [rows EXCEPT ![r] = Row("live", Incident(t, "open"), u, clock')]
  /\ order' = <<r>> \o order
  /\ UNCHANGED patch

\* PATCH /incidents/:id/status, its SELECT: not found, a refused transition,
\* or an UPDATE that is stamped now and sent.
PatchRead(c, r, to) ==
  /\ patch[c].pc = "idle"
  /\ IF Live(r) /\ Transition(rows[r].content["status"], to)
     THEN /\ Stamp
          /\ patch' = [patch EXCEPT ![c] =
                         Patch("read", r, rows[r].content["status"], to, clock')]
     ELSE /\ patch' = [patch EXCEPT ![c] = Patch("refused", r, "open", to, 0)]
          /\ UNCHANGED clock
  /\ UNCHANGED <<rows, order>>

\* Mutant of PatchCommit: an UPDATE on the id alone.
PatchCommitBlind(c) ==
  /\ patch[c].pc = "read"
  /\ LET p == patch[c]
         row == rows[p.rid]
     IN  /\ rows' = [rows EXCEPT ![p.rid] =
                       Row(row.state, Incident(row.content["text"], p.to), row.owner, p.at)]
         /\ patch' = [patch EXCEPT ![c] = Patch("ok", p.rid, p.from, p.to, p.at)]
  /\ UNCHANGED <<order, clock>>

\* ... and its UPDATE, on the condition that the status is still the one read.
PatchCommit(c) ==
  /\ patch[c].pc = "read"
  /\ LET p == patch[c]
         row == rows[p.rid]
         hit == Live(p.rid) /\ row.content["status"] = p.from
     IN  /\ rows' = IF hit
                    THEN [rows EXCEPT ![p.rid] =
                            Row("live", Incident(row.content["text"], p.to), row.owner, p.at)]
                    ELSE rows
         /\ patch' = [patch EXCEPT ![c] =
                        Patch(IF hit THEN "ok" ELSE "refused", p.rid, p.from, p.to, p.at)]
  /\ UNCHANGED <<order, clock>>

\* The client has the answer, or has given up waiting for it.
PatchAnswered(c) ==
  /\ patch[c].pc \in {"ok", "refused"}
  /\ patch' = [patch EXCEPT ![c] = NoPatch]
  /\ UNCHANGED <<rows, order, clock>>

\* DELETE /incidents/:id of a live incident; of another one it is refused.
RemoveIncident(r) ==
  /\ Live(r)
  /\ Stamp
  /\ rows' = [rows EXCEPT ![r] = Row("deleted", @.content, @.owner, clock')]
  /\ UNCHANGED <<order, patch>>

-----------------------------------------------------------------------------
\* The rows a pusher may overwrite: the conflictWhere of sync.
MayOverwrite(r, u, moderates) == moderates \/ rows[r].owner = u

Skipped(items, u, moderates) ==
  {r \in DOMAIN items : rows[r].state # "absent" /\ ~MayOverwrite(r, u, moderates)}

\* The status a push leaves behind: of a new row, and of an existing one.
NewStatus(item, moderates) == IF moderates THEN item["status"] ELSE "open"

ClampedStatus(r, item, moderates) ==
  IF moderates /\ Transition(rows[r].content["status"], item["status"])
  THEN item["status"]
  ELSE rows[r].content["status"]

\* INSERT ... ON CONFLICT DO UPDATE of one item: an update keeps the owner,
\* and the deletion.
Upserted(r, item, u, moderates, at) ==
  IF rows[r].state = "absent"
  THEN Row("live", Incident(item["text"], NewStatus(item, moderates)), u, at)
  ELSE Row(rows[r].state,
           Incident(item["text"], ClampedStatus(r, item, moderates)),
           rows[r].owner, at)

\* POST /incidents/sync: items maps incidents to their pushed content.
Sync(items, u, moderates) ==
  /\ Stamp
  /\ rows' = [r \in Rid |-> IF r \in DOMAIN items \ Skipped(items, u, moderates)
                            THEN Upserted(r, items[r], u, moderates, clock')
                            ELSE rows[r]]
  /\ order' = SetToSeq({r \in DOMAIN items : rows[r].state = "absent"}) \o order
  /\ UNCHANGED patch

\* The incidents that a listing finds, in the order of their creation, and the
\* columns it answers of each.
Matching(since) ==
  LET found == {i \in DOMAIN order : Live(order[i]) /\ rows[order[i]].at > since}
      Place(i) == Cardinality({k \in found : k <= i})
  IN  [p \in 1..Cardinality(found) |-> order[CHOOSE i \in found : Place(i) = p]]

Listed(since) ==
  LET matching == Matching(since)
  IN  [p \in DOMAIN matching |->
         [rid |-> matching[p], content |-> rows[matching[p]].content,
          at |-> rows[matching[p]].at]]

\* Mutant of Page: the offset of the page after.
PageOffByOne(n, since) ==
  SubSeq(Listed(since), n * PageSize + 1, Min({(n + 1) * PageSize, Len(Matching(since))}))

\* GET /incidents?limit&page&since, since = 0 standing for no since: the
\* listing, sliced by offset.
Page(n, since) ==
  SubSeq(Listed(since), (n - 1) * PageSize + 1, Min({n * PageSize, Len(Matching(since))}))

-----------------------------------------------------------------------------
\* Everybody else: web clients, and the desktops of other moderators.
OthersStep ==
  \/ \E r \in Rid, t \in Text : Create(r, t, "neighbor")
  \/ \E r \in Rid, to \in Status : PatchRead("web", r, to)
  \/ PatchCommit("web")
  \/ PatchAnswered("web")
  \/ \E r \in Rid : RemoveIncident(r)
  \/ \E r \in Rid, c \in Content : Live(r) /\ Sync([x \in {r} |-> c], "neighbor", TRUE)

=============================================================================
