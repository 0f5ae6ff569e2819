---------------------------- MODULE IncidentSync ----------------------------
(***************************************************************************)
(* The offline-first incidents of the desktop client: its SQLite table     *)
(* (IncidentRepository.java), the one thread that polls the server         *)
(* (SyncService.java) and the threads of the user's commands               *)
(* (IncidentsView.java, IncidentDetailPane.java, IncidentCreateForm.java). *)
(* A statement on SQLite and a request to the server are one step each, so *)
(* a command of the user may fall between any two steps of a poll.         *)
(***************************************************************************)
EXTENDS IncidentServer

CONSTANTS
  NoContent,   \* a NULL base or remote snapshot
  MaxLocal,    \* bound on the ids of local rows
  MaxPages,    \* MAX_PULL_PAGES
  Roles,       \* the roles the user may have
  Acts         \* the environment's acts that are explored, see Act

LocalId == 1..MaxLocal

Act == {"create", "edit", "status", "delete", "resolve", "others",
        "overlap", "loss", "kill"}

ASSUME SyncAssumption ==
  /\ NoContent \notin Content
  /\ MaxLocal \in Nat /\ MaxPages \in Nat \ {0}
  /\ Roles \subseteq {"moderator", "resident"} /\ Acts \subseteq Act

VARIABLES
  role,        \* of the user, as the access token has it
  state,       \* of a local row: none yet, live, tombstoned or hard-deleted
  remoteId,    \* its remote_id
  inc,         \* its other columns
  pc,          \* the next step of the poll
  batch,       \* the dirty rows it read and has not dealt with, as they were
  syncId,      \* the uuid each of them is pushed under
  skipped,     \* skippedIds of the answer
  page,        \* the page it pulls
  rest,        \* the rows of the page it has still to merge
  lastPage,    \* reachedLastPage
  seen,        \* seenRemoteIds
  newest,      \* newestTs
  since,       \* lastPullTimestamp, 0 for null: a full pull
  ui,          \* the command of the user that waits for the server
  torn,        \* history: rows the user touched in a poll, or that lost their base
  calm         \* history: no other write since the poll began to pull

tableVars == <<state, remoteId, inc>>
pollVars == <<pc, batch, syncId, skipped, page, rest, lastPage, seen, newest>>
vars == <<role, serverVars, tableVars, pollVars, since, ui, torn, calm>>

Columns(content, dirty, conflict, at, base, remote) ==
  [content |-> content, dirty |-> dirty, conflict |-> conflict, at |-> at,
   base |-> base, remote |-> remote]

Blank == Columns(Incident(FirstText, "open"), FALSE, FALSE, 0, NoContent, NoContent)

\* before is the row as the user's view showed it, at the date the command stamped.
Command(do, lid, before, at) == [do |-> do, lid |-> lid, before |-> before, at |-> at]

NoCommand == Command("none", 0, Blank, 0)

Snapshot == Content \cup {NoContent}

LocalRow == [content : Content, dirty : BOOLEAN, conflict : BOOLEAN, at : 0..MaxClock,
             base : Snapshot, remote : Snapshot]

TypeOK ==
  /\ role \in Roles
  /\ ServerTypeOK
  /\ state \in [LocalId -> {"free", "live", "tomb", "gone"}]
  /\ remoteId \in [LocalId -> Rid \cup {NoRid}]
  /\ inc \in [LocalId -> LocalRow]
  /\ pc \in {"idle", "push", "answer", "mark", "base", "fetch", "merge"}
  /\ DOMAIN batch \subseteq LocalId /\ batch \in [DOMAIN batch -> LocalRow]
  /\ syncId \in [LocalId -> Rid \cup {NoRid}]
  /\ skipped \subseteq Rid
  /\ page \in 1..MaxPages
  /\ rest \in Seq([rid : Rid, content : Content, at : 0..MaxClock])
  /\ lastPage \in BOOLEAN
  /\ seen \subseteq Rid
  /\ newest \in 0..MaxClock /\ since \in 0..MaxClock
  /\ ui \in [do : {"none", "patch", "erase"}, lid : 0..MaxLocal,
             before : LocalRow, at : 0..MaxClock]
  /\ torn \subseteq LocalId
  /\ calm \in BOOLEAN

NoBatch == [l \in {} |-> Blank]
NoSyncId == [l \in LocalId |-> NoRid]

Init ==
  /\ ServerInit
  /\ role \in Roles
  /\ state = [l \in LocalId |-> "free"]
  /\ remoteId = NoSyncId
  /\ inc = [l \in LocalId |-> Blank]
  /\ pc = "idle" /\ batch = NoBatch /\ syncId = NoSyncId /\ skipped = {}
  /\ page = 1 /\ rest = <<>> /\ lastPage = FALSE /\ seen = {} /\ newest = 0
  /\ since = 0
  /\ ui = NoCommand
  /\ torn = {} /\ calm = FALSE

\* The poll returns or throws; its variables are local to the method.
EndPoll ==
  /\ pc' = "idle" /\ batch' = NoBatch /\ syncId' = NoSyncId /\ skipped' = {}
  /\ page' = 1 /\ rest' = <<>> /\ lastPage' = FALSE /\ seen' = {} /\ newest' = 0

LiveLocally(l) == state[l] = "live"

\* UPDATE incidents SET ... WHERE id = l, which a hard-deleted row escapes.
Update(l, columns) ==
  inc' = IF state[l] = "gone" THEN inc ELSE [inc EXCEPT ![l] = columns]

Clean(i) == [i EXCEPT !.dirty = FALSE]

\* AUTOINCREMENT: the next id, never one that was used before.
NextId(l) == state[l] = "free" /\ \A k \in LocalId : k < l => state[k] # "free"

-----------------------------------------------------------------------------
(* The poll: push the dirty rows, then pull.                               *)

Moderates == role = "moderator"

\* listDirty
Dirty == {l \in LocalId : LiveLocally(l) /\ inc[l].dirty /\ ~inc[l].conflict}

Unused == {r \in Rid : rows[r].state = "absent" /\ \A l \in LocalId : remoteId[l] # r}

\* The uuids of a push: the remote id of a row, or a new one.
SyncIds == {f \in [LocalId -> Rid \cup {NoRid}] :
              /\ \A l \in LocalId \ Dirty : f[l] = NoRid
              /\ \A l \in Dirty : IF remoteId[l] # NoRid THEN f[l] = remoteId[l]
                                                         ELSE f[l] \in Unused
              /\ \A k, l \in Dirty : f[k] = f[l] => k = l}

\* The poll begins, and reads the rows to push: none, and it pulls.
StartPoll ==
  /\ pc = "idle"
  /\ batch' = [l \in Dirty |-> inc[l]]
  /\ syncId' \in SyncIds
  /\ pc' = IF Dirty = {} THEN "fetch" ELSE "push"
  /\ page' = 1 /\ seen' = {} /\ newest' = since
  /\ torn' = IF ui.do = "none" THEN torn ELSE torn \cup {ui.lid}
  /\ calm' = (ui.do = "none")
  /\ UNCHANGED <<role, serverVars, tableVars, skipped, rest, lastPage, since, ui>>

Pushed == {syncId[l] : l \in DOMAIN batch}

Payload == [r \in Pushed |-> batch[CHOOSE l \in DOMAIN batch : syncId[l] = r].content]

\* POST /incidents/sync
Push ==
  /\ pc = "push"
  /\ Sync(Payload, "me", Moderates)
  /\ skipped' = Skipped(Payload, "me", Moderates)
  /\ pc' = "answer"
  /\ UNCHANGED <<role, tableVars, batch, syncId, page, rest, lastPage, seen, newest, since, ui, torn, calm>>

\* No connection, a timeout, or an answer that is lost: the poll ends there.
GiveUp ==
  /\ "loss" \in Acts
  /\ pc \in {"push", "answer", "fetch"}
  /\ pc = "answer" => \A l \in LocalId : syncId[l] # NoRid => l \in DOMAIN batch
  /\ EndPoll
  /\ calm' = FALSE
  /\ UNCHANGED <<role, serverVars, tableVars, since, ui, torn>>

\* The rows of the batch are dealt with one by one, in the order of their ids.
Turn(l) == l \in DOMAIN batch /\ \A k \in DOMAIN batch : l <= k

Done(l) ==
  /\ batch' = [k \in DOMAIN batch \ {l} |-> batch[k]]
  /\ pc' = IF DOMAIN batch = {l} THEN "fetch" ELSE "answer"

\* A refused row only loses its dirty flag.
DropRefused(l) ==
  /\ pc = "answer" /\ Turn(l)
  /\ syncId[l] \in skipped
  /\ Update(l, Clean(inc[l]))
  /\ Done(l)
  /\ UNCHANGED <<role, serverVars, state, remoteId, syncId, skipped, page, rest, lastPage, seen, newest, since, ui, torn, calm>>

\* assignRemoteId; on a row that had a remote id it changes nothing.
AssignRemoteId(l) ==
  /\ pc = "answer" /\ Turn(l)
  /\ syncId[l] \notin skipped
  /\ remoteId' = IF state[l] = "gone" THEN remoteId ELSE [remoteId EXCEPT ![l] = syncId[l]]
  /\ pc' = "mark"
  /\ UNCHANGED <<role, serverVars, state, inc, batch, syncId, skipped, page, rest, lastPage, seen, newest, since, ui, torn, calm>>

\* markSynced
MarkSynced(l) ==
  /\ pc = "mark" /\ Turn(l)
  /\ Update(l, Clean(inc[l]))
  /\ pc' = "base"
  /\ UNCHANGED <<role, serverVars, state, remoteId, batch, syncId, skipped, page, rest, lastPage, seen, newest, since, ui, torn, calm>>

\* updateBase, with the row as it was read
UpdateBase(l) ==
  /\ pc = "base" /\ Turn(l)
  /\ Update(l, [inc[l] EXCEPT !.base = batch[l].content])
  /\ Done(l)
  /\ UNCHANGED <<role, serverVars, state, remoteId, syncId, skipped, page, rest, lastPage, seen, newest, since, ui, torn, calm>>

\* Mutant of FetchPage: a full page counts as the last one.
FetchPageEarly ==
  /\ pc = "fetch"
  /\ rest' = Page(page, since)
  /\ lastPage' = (Len(rest') <= PageSize)
  /\ pc' = "merge"
  /\ UNCHANGED <<role, serverVars, tableVars, batch, syncId, skipped, page, seen, newest, since, ui, torn, calm>>

\* GET of a page
FetchPage ==
  /\ pc = "fetch"
  /\ rest' = Page(page, since)
  /\ lastPage' = (Len(rest') < PageSize)
  /\ pc' = "merge"
  /\ UNCHANGED <<role, serverVars, tableVars, batch, syncId, skipped, page, seen, newest, since, ui, torn, calm>>

-----------------------------------------------------------------------------
(* upsertFromServer                                                        *)

\* A row without a base: last write wins, and a dirty row waits for its push.
LastWriteWins(i, x) ==
  IF i.dirty \/ x.at <= i.at
  THEN i
  ELSE Columns(x.content, i.dirty, i.conflict, x.at, x.content, i.remote)

FlagConflict(i, x) == Columns(i.content, i.dirty, TRUE, x.at, i.base, x.content)

CleanMerge(i, x) ==
  LET m == Merge(i.base, i.content, x.content)
  IN  Columns(m, FALSE, FALSE, x.at, m, i.remote)

ApplyMerge(i, x) ==
  IF i.base = NoContent THEN LastWriteWins(i, x)
  ELSE IF HasConflict(i.base, i.content, x.content) THEN FlagConflict(i, x)
  ELSE CleanMerge(i, x)

\* Mutant of Known: tombstones are not looked at.
KnownLive(r) == {l \in LocalId : state[l] = "live" /\ remoteId[l] = r}

\* The local rows with that remote id, tombstones included.
Known(r) == {l \in LocalId : state[l] \in {"live", "tomb"} /\ remoteId[l] = r}

InsertFromServer(x) ==
  \E l \in LocalId :
    /\ NextId(l)
    /\ state' = [state EXCEPT ![l] = "live"]
    /\ remoteId' = [remoteId EXCEPT ![l] = x.rid]
    /\ inc' = [inc EXCEPT ![l] = Columns(x.content, FALSE, FALSE, x.at, x.content, NoContent)]

MergeFromServer(x) ==
  \E l \in Known(x.rid) :
    /\ inc' = [inc EXCEPT ![l] = IF LiveLocally(l) THEN ApplyMerge(@, x) ELSE @]
    /\ UNCHANGED <<state, remoteId>>

MergeRow ==
  /\ pc = "merge" /\ rest # <<>>
  /\ LET x == Head(rest)
     IN  /\ IF Known(x.rid) = {} THEN InsertFromServer(x) ELSE MergeFromServer(x)
         /\ seen' = seen \cup {x.rid}
         /\ newest' = IF x.at > newest THEN x.at ELSE newest
  /\ rest' = Tail(rest)
  /\ UNCHANGED <<role, serverVars, pc, batch, syncId, skipped, page, lastPage, since, ui, torn, calm>>

NextPage ==
  /\ pc = "merge" /\ rest = <<>> /\ ~lastPage /\ page < MaxPages
  /\ page' = page + 1
  /\ pc' = "fetch"
  /\ UNCHANGED <<role, serverVars, tableVars, batch, syncId, skipped, rest, lastPage, seen, newest, since, ui, torn, calm>>

\* tombstoneOrphans
Orphan(l) == LiveLocally(l) /\ remoteId[l] # NoRid /\ remoteId[l] \notin seen

CompleteFullPull == since = 0 /\ lastPage /\ seen # {}

FinishPull ==
  /\ pc = "merge" /\ rest = <<>> /\ (lastPage \/ page = MaxPages)
  /\ IF CompleteFullPull
     THEN /\ state' = [l \in LocalId |-> IF Orphan(l) THEN "tomb" ELSE state[l]]
          /\ inc' = [l \in LocalId |-> IF Orphan(l) THEN Clean(inc[l])
                                                     ELSE inc[l]]
     ELSE UNCHANGED <<state, inc>>
  /\ since' = newest
  /\ EndPoll
  /\ calm' = FALSE
  /\ UNCHANGED <<role, serverVars, remoteId, ui, torn>>

PollStep ==
  \/ StartPoll \/ Push \/ GiveUp
  \/ \E l \in LocalId : DropRefused(l) \/ AssignRemoteId(l) \/ MarkSynced(l) \/ UpdateBase(l)
  \/ FetchPage \/ MergeRow \/ NextPage \/ FinishPull

-----------------------------------------------------------------------------
(* The user's commands.  The constant Acts says which of them a run        *)
(* explores, and with "overlap" also while a poll or a command is going on.*)

MayAct(a) == a \in Acts /\ ("overlap" \in Acts \/ (pc = "idle" /\ ui.do = "none"))

\* A write of the user to row l, which overlaps a poll or another command or not.
Touch(l, overlaps) ==
  /\ torn' = IF overlaps THEN torn \cup {l} ELSE torn
  /\ calm' = FALSE

Polling == pc # "idle"
Busy(l) == Polling \/ (ui.do # "none" /\ ui.lid = l)

\* Mutant of NextStatus: a status that the API does not know.
NextStatusClosed(s) == IF s = "open" THEN "in_progress" ELSE "closed"

NextStatus(s) == IF s = "open" THEN "in_progress" ELSE "resolved"

\* insertDirty
CreateLocally(t) ==
  /\ MayAct("create")
  /\ Stamp
  /\ \E l \in LocalId :
       /\ NextId(l)
       /\ state' = [state EXCEPT ![l] = "live"]
       /\ inc' = [inc EXCEPT ![l] =
                    Columns(Incident(t, "open"), TRUE, FALSE, clock', NoContent, NoContent)]
       /\ Touch(l, Busy(l))
  /\ UNCHANGED <<role, rows, order, patch, remoteId, pollVars, since, ui>>

\* updateLocally
EditLocally(l, t) ==
  /\ MayAct("edit")
  /\ LiveLocally(l) /\ t # inc[l].content["text"]
  /\ Stamp
  /\ inc' = [inc EXCEPT ![l] = Columns(Incident(t, @.content["status"]), TRUE, @.conflict,
                                       clock', @.base, @.remote)]
  /\ Touch(l, Busy(l))
  /\ UNCHANGED <<role, rows, order, patch, state, remoteId, pollVars, since, ui>>

\* changeStatus: updateStatusLocally, then the PATCH of a row the server knows.
ChangeStatus(l) ==
  /\ MayAct("status") /\ Moderates /\ ui.do = "none" /\ patch["desktop"].pc = "idle"
  /\ LiveLocally(l) /\ ~inc[l].conflict /\ inc[l].content["status"] # "resolved"
  /\ Stamp
  /\ inc' = [inc EXCEPT ![l] = Columns(Incident(@.content["text"], NextStatus(@.content["status"])),
                                       TRUE, @.conflict, clock', @.base, @.remote)]
  /\ ui' = IF remoteId[l] = NoRid THEN ui ELSE Command("patch", l, inc[l], clock')
  /\ Touch(l, Busy(l))
  /\ UNCHANGED <<role, rows, order, patch, state, remoteId, pollVars, since>>

SendPatch ==
  /\ ui.do = "patch"
  /\ PatchRead("desktop", remoteId[ui.lid], NextStatus(ui.before.content["status"]))
  /\ UNCHANGED <<role, tableVars, pollVars, since, ui, torn, calm>>

CommitPatch ==
  /\ PatchCommit("desktop")
  /\ calm' = FALSE
  /\ UNCHANGED <<role, tableVars, pollVars, since, ui, torn>>

\* No connection, or no answer: the change stays dirty.
LosePatch ==
  /\ "loss" \in Acts
  /\ ui.do = "patch"
  /\ patch' = [patch EXCEPT !["desktop"] = IF @.pc = "read" THEN @ ELSE NoPatch]
  /\ ui' = NoCommand
  /\ Touch(ui.lid, Polling)
  /\ UNCHANGED <<role, rows, order, clock, tableVars, pollVars, since>>

\* The answer to a request that nobody waits for any more.
DropAnswer ==
  /\ ui.do # "patch"
  /\ PatchAnswered("desktop")
  /\ UNCHANGED <<role, tableVars, pollVars, since, ui, torn, calm>>

\* markStatusPushed
PatchAccepted ==
  /\ ui.do = "patch" /\ patch["desktop"].pc = "ok"
  /\ PatchAnswered("desktop")
  /\ LET l == ui.lid IN
     /\ Update(l, IF ~ui.before.dirty /\ inc[l].at = ui.at THEN Clean(inc[l]) ELSE inc[l])
     /\ Touch(l, Polling)
  /\ ui' = NoCommand
  /\ UNCHANGED <<role, state, remoteId, pollVars, since>>

\* revertStatus: of a row that was dirty, a new local change; else the old
\* status, date and a clean flag.
PatchRefused ==
  /\ ui.do = "patch" /\ patch["desktop"].pc = "refused"
  /\ LET l == ui.lid
         old == Incident(inc[l].content["text"], ui.before.content["status"])
     IN  /\ IF ui.before.dirty
            THEN /\ Stamp
                 /\ Update(l, Columns(old, TRUE, inc[l].conflict, clock', inc[l].base, inc[l].remote))
            ELSE /\ Update(l, Columns(old, FALSE, inc[l].conflict, ui.before.at, inc[l].base, inc[l].remote))
                 /\ UNCHANGED clock
         /\ Touch(l, Polling)
  /\ patch' = [patch EXCEPT !["desktop"] = NoPatch]
  /\ ui' = NoCommand
  /\ UNCHANGED <<role, rows, order, state, remoteId, pollVars, since>>

\* deleteIncident: the server first, if the row shown has a remote id; a
\* refusal, or an answer that is lost, leaves the local row.
DeleteIncident(l) ==
  /\ MayAct("delete") /\ Moderates /\ ui.do = "none"
  /\ LiveLocally(l)
  /\ IF remoteId[l] = NoRid
     THEN UNCHANGED serverVars
     ELSE RemoveIncident(remoteId[l])
  /\ ui' \in {Command("erase", l, inc[l], 0)}
             \cup (IF remoteId[l] # NoRid /\ "loss" \in Acts THEN {ui} ELSE {})
  /\ Touch(l, Busy(l))
  /\ UNCHANGED <<role, tableVars, pollVars, since>>

\* deleteByLocalId
EraseLocally ==
  /\ ui.do = "erase"
  /\ LET l == ui.lid IN
     /\ state' = [state EXCEPT ![l] = IF remoteId[l] # NoRid THEN "tomb" ELSE "gone"]
     /\ inc' = [inc EXCEPT ![l] = IF remoteId[l] # NoRid THEN Clean(@) ELSE Blank]
     /\ Touch(l, Polling)
  /\ ui' = NoCommand
  /\ UNCHANGED <<role, serverVars, remoteId, pollVars, since>>

\* resolveConflict
ResolveConflict(l, acceptRemote) ==
  /\ MayAct("resolve")
  /\ LiveLocally(l) /\ inc[l].conflict
  /\ LET kept == IF acceptRemote THEN inc[l].remote ELSE inc[l].content
     IN  inc' = [inc EXCEPT ![l] = Columns(kept, ~acceptRemote, FALSE, @.at, kept, NoContent)]
  /\ Touch(l, Busy(l))
  /\ UNCHANGED <<role, serverVars, state, remoteId, pollVars, since, ui>>

UserStep ==
  \/ \E t \in Text : CreateLocally(t)
  \/ \E l \in LocalId, t \in Text : EditLocally(l, t)
  \/ \E l \in LocalId : ChangeStatus(l) \/ DeleteIncident(l)
  \/ \E l \in LocalId, acceptRemote \in BOOLEAN : ResolveConflict(l, acceptRemote)
  \/ SendPatch \/ CommitPatch \/ LosePatch \/ DropAnswer \/ PatchAccepted \/ PatchRefused
  \/ EraseLocally

-----------------------------------------------------------------------------
\* The app is closed or dies, and starts again on the same SQLite file.
Restart ==
  /\ "kill" \in Acts
  /\ pc # "idle" \/ since # 0 \/ ui.do # "none"
  /\ EndPoll
  /\ since' = 0
  /\ ui' = NoCommand
  /\ patch' = [patch EXCEPT !["desktop"] = IF @.pc = "read" THEN @ ELSE NoPatch]
  /\ torn' = torn \cup (IF pc = "base" THEN {l \in LocalId : Turn(l)} ELSE {})
                    \cup (IF Polling /\ ui.do # "none" THEN {ui.lid} ELSE {})
  /\ calm' = FALSE
  /\ UNCHANGED <<role, rows, order, clock, tableVars>>

Others ==
  /\ "others" \in Acts
  /\ OthersStep
  /\ calm' = FALSE
  /\ UNCHANGED <<role, tableVars, pollVars, since, ui, torn>>

Next == PollStep \/ UserStep \/ Restart \/ Others

Spec == Init /\ [][Next]_vars

-----------------------------------------------------------------------------
\* The status of an incident only follows VALID_TRANSITIONS, whichever of
\* PATCH and sync changes it, and whatever they interleave with
\* (incidents.service.ts:34-38, 248-258, 336-349).
StatusAdvances ==
  [][\A r \in Rid : rows[r].state # "absent" =>
       LET from == rows[r].content["status"]
           to == rows'[r].content["status"]
       IN  from = to \/ Transition(from, to)]_vars

\* No incident has two local rows, although remote_id is not UNIQUE in the
\* SQLite schema: a pull never inserts what a push has just named, or what
\* the user has deleted (IncidentRepository.java:154-174, "never resurrect").
RemoteIdUnique ==
  \A k, l \in LocalId :
    /\ state[k] \in {"live", "tomb"} /\ state[l] \in {"live", "tomb"}
    /\ remoteId[k] # NoRid /\ remoteId[k] = remoteId[l]
    => k = l

\* A pulled row never overwrites a field that the user has changed and that
\* is still to be pushed (ThreeWayMerger.java:51-66, applyLww).
PullKeepsEdits ==
  [][MergeRow =>
       \A l \in LocalId : LiveLocally(l) /\ inc[l].dirty =>
         \A f \in Field :
           \/ inc'[l].content[f] = inc[l].content[f]
           \/ inc[l].base # NoContent /\ inc[l].base[f] = inc[l].content[f]]_vars

\* A complete full pull that nothing disturbed leaves every incident of the
\* server known to a moderator's desktop, and every local row equal to the
\* server's, except conflicts and torn rows: those that the user touched during a poll, and
\* the one the app died on between markSynced and updateBase
\* (SyncService.java:192-209, 245-301).  A resident's refused changes stay.
Converged ==
  /\ \A l \in LocalId \ torn : LiveLocally(l) /\ ~inc[l].conflict =>
       /\ remoteId[l] # NoRid /\ ~inc[l].dirty
       /\ Live(remoteId[l]) /\ rows[remoteId[l]].content = inc[l].content
  /\ \A r \in Rid : Live(r) => Known(r) # {}

FullPullConverges ==
  [][pc = "merge" /\ pc' = "idle" /\ since' # 0 /\ CompleteFullPull /\ calm /\ Moderates
       => Converged']_vars

\* A pull only tombstones incidents that the server has deleted, if none was
\* deleted while its pages were fetched (SyncService.java:254, 292).
OrphansAreDeleted ==
  [][\A l \in LocalId : LiveLocally(l) /\ state'[l] = "tomb" /\ pc = "merge" /\ pc' = "idle" /\ calm
       => ~Live(remoteId[l])]_vars

\* "Items not upserted are reported in skippedIds; the desktop client drops
\* the refused local change and restores the server version on the next pull"
\* (incidents.controller.ts:216, SyncService.java:151-155).  The code does not:
\* the pull does not return the row or merges it as a local change.
RefusedIsRestored ==
  [][pc = "merge" /\ pc' = "idle" /\ since' # 0 /\ calm =>
       \A l \in LocalId \ torn : LiveLocally(l) /\ remoteId[l] \in skipped =>
         rows[remoteId[l]].content["text"] = inc'[l].content["text"]]_vars

=============================================================================
