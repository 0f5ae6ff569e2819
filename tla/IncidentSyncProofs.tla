-------------------------- MODULE IncidentSyncProofs --------------------------
(***************************************************************************)
(* What holds of the merge, of the server's status machine, of the         *)
(* desktop's table and of a pull for any incidents, texts, page sizes,     *)
(* roles and acts.                                                         *)
(***************************************************************************)
EXTENDS IncidentSync, FiniteSetTheorems, SequenceTheorems, TLAPS

(* The merge.                                                              *)

\* A clean merge gives the same incident on both sides, whichever calls itself
\* local (ThreeWayMerger.java:51-66).
LEMMA CleanMergeIsSymmetric ==
  ASSUME NEW base, NEW local, NEW remote, ~HasConflict(base, local, remote)
  PROVE  Merge(base, local, remote) = Merge(base, remote, local)
<1>1. \A f \in Field : ResolveField(base[f], local[f], remote[f])
                         = ResolveField(base[f], remote[f], local[f])
  BY DEF HasConflict, InConflict, ResolveField
<1> QED BY <1>1 DEF Merge

\* A clean merge loses no change: each field that a side changed has its value.
LEMMA CleanMergeKeepsBothEdits ==
  ASSUME NEW base, NEW local, NEW remote, ~HasConflict(base, local, remote),
         NEW f \in Field
  PROVE  /\ local[f] # base[f] => Merge(base, local, remote)[f] = local[f]
         /\ remote[f] # base[f] => Merge(base, local, remote)[f] = remote[f]
BY DEF HasConflict, InConflict, ResolveField, Merge

-----------------------------------------------------------------------------
(* The status machine of the server.                                       *)

\* A PATCH between its two statements carries a legal transition.
PatchInv ==
  /\ DOMAIN rows = Rid
  /\ DOMAIN patch = Client
  /\ \A c \in Client : patch[c].pc = "read" => Transition(patch[c].from, patch[c].to)

\* What a step does to the status of an existing incident.
Advances ==
  \A r \in Rid : rows[r].state # "absent" =>
    \/ rows'[r].content["status"] = rows[r].content["status"]
    \/ Transition(rows[r].content["status"], rows'[r].content["status"])

LEMMA PatchReadAdvances ==
  ASSUME PatchInv, NEW c \in Client, NEW r, NEW to, PatchRead(c, r, to)
  PROVE  PatchInv' /\ Advances
BY DEF PatchInv, Advances, PatchRead, Patch, Stamp

LEMMA PatchCommitAdvances ==
  ASSUME PatchInv, NEW c \in Client, PatchCommit(c)
  PROVE  PatchInv' /\ Advances
<1> DEFINE p == patch[c]
           row == rows[p.rid]
           new == Row("live", Incident(row.content["text"], p.to), row.owner, p.at)
           hit == Live(p.rid) /\ row.content["status"] = p.from
<1>1. rows' = IF hit THEN [rows EXCEPT ![p.rid] = new] ELSE rows
  BY DEF PatchCommit
<1>2. new.content["status"] = p.to
  BY DEF Row, Incident, Field
<1>3. Advances
  <2> SUFFICES ASSUME NEW r \in Rid, rows'[r] # rows[r]
               PROVE  Transition(rows[r].content["status"], rows'[r].content["status"])
    BY DEF Advances
  <2>1. hit /\ r = p.rid /\ rows'[r] = new
    BY <1>1 DEF PatchInv
  <2>2. Transition(p.from, p.to)
    BY DEF PatchCommit, PatchInv
  <2> QED BY <2>1, <2>2, <1>2
<1>4. DOMAIN rows' = Rid
  BY <1>1 DEF PatchInv
<1>5. /\ DOMAIN patch' = Client
      /\ \A d \in Client : patch'[d].pc = "read" => patch'[d] = patch[d]
  BY DEF PatchCommit, PatchInv, Patch
<1> QED BY <1>3, <1>4, <1>5 DEF PatchInv

LEMMA SyncAdvances ==
  ASSUME PatchInv, NEW items, NEW u, NEW m, Sync(items, u, m)
  PROVE  PatchInv' /\ Advances
<1>1. rows' = [r \in Rid |-> IF r \in DOMAIN items \ Skipped(items, u, m)
                             THEN Upserted(r, items[r], u, m, clock') ELSE rows[r]]
  BY DEF Sync
<1>2. ASSUME NEW r \in Rid, rows[r].state # "absent"
      PROVE  Upserted(r, items[r], u, m, clock').content["status"] = ClampedStatus(r, items[r], m)
  BY <1>2 DEF Upserted, Row, Incident, Field
<1>3. Advances
  <2> SUFFICES ASSUME NEW r \in Rid, rows[r].state # "absent", rows'[r] # rows[r]
               PROVE  \/ rows'[r].content["status"] = rows[r].content["status"]
                      \/ Transition(rows[r].content["status"], rows'[r].content["status"])
    BY DEF Advances
  <2>1. rows'[r].content["status"] = ClampedStatus(r, items[r], m)
    BY <1>1, <1>2
  <2> QED BY <2>1 DEF ClampedStatus
<1> QED BY <1>1, <1>3 DEF PatchInv, Sync

\* The other requests leave the status of existing rows, and the PATCHes, alone
\* or end one.
LEMMA RowsKept ==
  ASSUME PatchInv, UNCHANGED rows, DOMAIN patch' = Client,
         \A c \in Client : patch'[c].pc = "read" => patch'[c] = patch[c]
  PROVE  PatchInv' /\ Advances
BY DEF PatchInv, Advances

LEMMA CreateAdvances ==
  ASSUME PatchInv, NEW r \in Rid, NEW t, NEW u, Create(r, t, u)
  PROVE  PatchInv' /\ Advances
BY DEF PatchInv, Advances, Create

LEMMA RemoveAdvances ==
  ASSUME PatchInv, NEW r, RemoveIncident(r)
  PROVE  PatchInv' /\ Advances
<1>1. rows' = [rows EXCEPT ![r] = Row("deleted", rows[r].content, rows[r].owner, clock')]
  BY DEF RemoveIncident
<1>2. Advances
  BY <1>1 DEF Advances, PatchInv, Row
<1> QED BY <1>1, <1>2 DEF PatchInv, RemoveIncident

LEMMA OthersAdvance ==
  ASSUME PatchInv, OthersStep
  PROVE  PatchInv' /\ Advances
<1>1. CASE \E r \in Rid, t \in Text : Create(r, t, "neighbor")
  BY <1>1, CreateAdvances
<1>2. CASE \E r \in Rid, to \in Status : PatchRead("web", r, to)
  BY <1>2, PatchReadAdvances DEF Client
<1>3. CASE PatchCommit("web")
  BY <1>3, PatchCommitAdvances DEF Client
<1>4. CASE PatchAnswered("web")
  BY <1>4, RowsKept DEF PatchAnswered, PatchInv, Patch, NoPatch
<1>5. CASE \E r \in Rid : RemoveIncident(r)
  BY <1>5, RemoveAdvances
<1>6. CASE \E r \in Rid, c \in Content : Live(r) /\ Sync([x \in {r} |-> c], "neighbor", TRUE)
  BY <1>6, SyncAdvances
<1> QED BY <1>1, <1>2, <1>3, <1>4, <1>5, <1>6 DEF OthersStep

LEMMA UserAdvances ==
  ASSUME PatchInv, UserStep
  PROVE  PatchInv' /\ Advances
<1>1. CASE \E t \in Text : CreateLocally(t)
  BY <1>1, RowsKept DEF CreateLocally, PatchInv
<1>2. CASE \E l \in LocalId, t \in Text : EditLocally(l, t)
  BY <1>2, RowsKept DEF EditLocally, PatchInv
<1>3. CASE \E l \in LocalId : ChangeStatus(l)
  BY <1>3, RowsKept DEF ChangeStatus, PatchInv
<1>4. ASSUME NEW l \in LocalId, DeleteIncident(l)
      PROVE  PatchInv' /\ Advances
  <2>1. CASE UNCHANGED serverVars
    BY <2>1, RowsKept DEF serverVars, PatchInv
  <2>2. CASE RemoveIncident(remoteId[l])
    BY <2>2, RemoveAdvances
  <2> QED BY <1>4, <2>1, <2>2 DEF DeleteIncident
<1>5. CASE \E l \in LocalId, acceptRemote \in BOOLEAN : ResolveConflict(l, acceptRemote)
  BY <1>5, RowsKept DEF ResolveConflict, serverVars, PatchInv
<1>6. CASE SendPatch
  BY <1>6, PatchReadAdvances DEF SendPatch, Client
<1>7. CASE CommitPatch
  BY <1>7, PatchCommitAdvances DEF CommitPatch, Client
<1>8. CASE LosePatch
  BY <1>8, RowsKept DEF LosePatch, PatchInv, Patch, NoPatch
<1>9. CASE DropAnswer \/ PatchAccepted
  <2>1. PatchAnswered("desktop")
    BY <1>9 DEF DropAnswer, PatchAccepted
  <2> QED BY <2>1, RowsKept DEF PatchAnswered, PatchInv, Patch, NoPatch
<1>10. CASE PatchRefused
  BY <1>10, RowsKept DEF PatchRefused, PatchInv, Patch, NoPatch
<1>11. CASE EraseLocally
  BY <1>11, RowsKept DEF EraseLocally, serverVars, PatchInv
<1> QED
  BY <1>1, <1>2, <1>3, <1>4, <1>5, <1>6, <1>7, <1>8, <1>9, <1>10, <1>11 DEF UserStep

LEMMA PollAdvances ==
  ASSUME PatchInv, PollStep
  PROVE  PatchInv' /\ Advances
<1>1. CASE Push
  BY <1>1, SyncAdvances DEF Push
<1>2. ASSUME UNCHANGED serverVars
      PROVE  PatchInv' /\ Advances
  BY <1>2, RowsKept DEF serverVars, PatchInv
<1>3. CASE ~Push
  <2>1. UNCHANGED serverVars
    BY <1>3 DEF PollStep, StartPoll, GiveUp, DropRefused, AssignRemoteId, MarkSynced,
                UpdateBase, FetchPage, MergeRow, NextPage, FinishPull
  <2> QED BY <2>1, <1>2
<1> QED BY <1>1, <1>3

LEMMA StepAdvances ==
  ASSUME PatchInv, [Next]_vars
  PROVE  PatchInv' /\ Advances
<1>1. CASE Restart
  BY <1>1, RowsKept DEF Restart, PatchInv, Patch, NoPatch
<1>2. CASE Others
  BY <1>2, OthersAdvance DEF Others
<1>3. CASE UNCHANGED vars
  BY <1>3, RowsKept DEF vars, serverVars, PatchInv
<1> QED BY <1>1, <1>2, <1>3, PollAdvances, UserAdvances DEF Next

\* The status of an incident only follows VALID_TRANSITIONS, for any number of
\* concurrent pushes and PATCHes of the clients.
THEOREM StatusMachineHolds == Spec => StatusAdvances
<1>1. Init => PatchInv
  BY DEF Init, ServerInit, PatchInv, NoPatch, Patch
<1>2. PatchInv /\ [Next]_vars => PatchInv'
  BY StepAdvances
<1>3. PatchInv /\ [Next]_vars =>
        [\A r \in Rid : rows[r].state # "absent" =>
           LET from == rows[r].content["status"]
               to == rows'[r].content["status"]
           IN  from = to \/ Transition(from, to)]_vars
  BY StepAdvances DEF Advances
<1> QED BY <1>1, <1>2, <1>3, PTL DEF Spec, StatusAdvances

-----------------------------------------------------------------------------
(* The desktop's table.                                                    *)

Pushing == {"push", "answer", "mark", "base"}

\* One local row per incident, and remote ids only in rows that are in the table.
IdInv ==
  /\ DOMAIN state = LocalId /\ DOMAIN remoteId = LocalId /\ DOMAIN inc = LocalId
  /\ \A l \in LocalId : remoteId[l] # NoRid => state[l] \in {"live", "tomb"}
  /\ \A k, l \in LocalId : remoteId[k] # NoRid /\ remoteId[k] = remoteId[l] => k = l

\* The uuid a row is pushed under is the row's own, or that of no row.
BatchInv ==
  pc \in Pushing =>
    /\ DOMAIN batch \subseteq LocalId
    /\ \A k \in DOMAIN batch :
         /\ state[k] # "free"
         /\ syncId[k] # NoRid
         /\ remoteId[k] \in {NoRid, syncId[k]}
         /\ \A l \in LocalId \ {k} : remoteId[l] # syncId[k]
    /\ \A k, l \in DOMAIN batch : syncId[k] = syncId[l] => k = l

StateInv == \A l \in LocalId : state[l] \in {"free", "live", "tomb", "gone"}

TableInv == IdInv /\ BatchInv /\ StateInv

\* Steps that neither name a row nor insert or remove one.
LEMMA NamesKept ==
  ASSUME TableInv, UNCHANGED <<state, remoteId>>, DOMAIN inc' = LocalId,
         pc' \in Pushing => pc \in Pushing /\ syncId' = syncId /\ DOMAIN batch' \subseteq DOMAIN batch
  PROVE  TableInv'
<1>1. IdInv' BY DEF TableInv, IdInv
<1>2. StateInv' BY DEF TableInv, StateInv
<1>3. BatchInv'
  <2> SUFFICES ASSUME pc' \in Pushing PROVE BatchInv'
    BY DEF BatchInv
  <2> QED BY DEF TableInv, BatchInv
<1> QED BY <1>1, <1>2, <1>3 DEF TableInv

LEMMA StartPollKeepsTable ==
  ASSUME TableInv, StartPoll
  PROVE  TableInv'
<1> USE DEF StartPoll, tableVars
<1>1. IdInv' /\ StateInv' BY DEF TableInv, IdInv, StateInv
<1>2. BatchInv'
  <2>1. DOMAIN batch' = Dirty /\ Dirty \subseteq LocalId
    BY DEF Dirty
  <2>2. PICK f \in SyncIds : syncId' = f
    OBVIOUS
  <2>3. ASSUME NEW k \in Dirty
        PROVE  /\ state'[k] # "free"
               /\ syncId'[k] # NoRid
               /\ remoteId'[k] \in {NoRid, syncId'[k]}
               /\ \A l \in LocalId \ {k} : remoteId'[l] # syncId'[k]
    <3>1. CASE remoteId[k] # NoRid
      <4>1. f[k] = remoteId[k] BY <2>1, <2>2, <2>3, <3>1 DEF SyncIds
      <4> QED BY <2>1, <2>2, <2>3, <3>1, <4>1 DEF Dirty, LiveLocally, TableInv, IdInv
    <3>2. CASE remoteId[k] = NoRid
      <4>1. f[k] \in Unused BY <2>1, <2>2, <2>3, <3>2 DEF SyncIds
      <4>2. f[k] # NoRid BY <4>1, SyncAssumption, ServerAssumption DEF Unused
      <4> QED BY <2>1, <2>2, <2>3, <3>2, <4>1, <4>2 DEF Dirty, LiveLocally, Unused
    <3> QED BY <3>1, <3>2
  <2>4. \A k, l \in Dirty : syncId'[k] = syncId'[l] => k = l
    BY <2>2 DEF SyncIds
  <2> QED BY <2>1, <2>3, <2>4 DEF BatchInv
<1> QED BY <1>1, <1>2 DEF TableInv

LEMMA AssignKeepsTable ==
  ASSUME TableInv, NEW n \in LocalId, AssignRemoteId(n)
  PROVE  TableInv'
<1> USE DEF AssignRemoteId, TableInv
<1>1. /\ pc \in Pushing /\ n \in DOMAIN batch
      /\ UNCHANGED <<state, batch, syncId, inc>>
  BY DEF Pushing, Turn
<1>2. CASE state[n] = "gone"
  BY <1>1, <1>2, NamesKept DEF IdInv
<1>3. CASE state[n] # "gone"
  <2>1. remoteId' = [remoteId EXCEPT ![n] = syncId[n]]
    BY <1>3
  <2>2. state[n] \in {"live", "tomb"}
    BY <1>1, <1>3 DEF BatchInv, StateInv
  <2>3. \A l \in LocalId : remoteId'[l] = IF l = n THEN syncId[n] ELSE remoteId[l]
    BY <2>1 DEF IdInv
  <2>4. \A l \in LocalId \ {n} : remoteId[l] # syncId[n]
    BY <1>1 DEF BatchInv
  <2>5. IdInv'
    <3>1. DOMAIN state' = LocalId /\ DOMAIN remoteId' = LocalId /\ DOMAIN inc' = LocalId
      BY <1>1, <2>1 DEF IdInv
    <3>2. \A l \in LocalId : remoteId'[l] # NoRid => state'[l] \in {"live", "tomb"}
      BY <1>1, <2>2, <2>3 DEF IdInv
    <3>3. \A k, l \in LocalId : remoteId'[k] # NoRid /\ remoteId'[k] = remoteId'[l] => k = l
      BY <2>3, <2>4 DEF IdInv
    <3> QED BY <3>1, <3>2, <3>3 DEF IdInv
  <2>6. BatchInv'
    <3>1. \A k \in DOMAIN batch : k # n => syncId[k] # syncId[n]
      BY <1>1 DEF BatchInv
    <3>2. DOMAIN batch \subseteq LocalId
      BY <1>1 DEF BatchInv
    <3>3. \A k \in DOMAIN batch :
            /\ state'[k] # "free" /\ syncId'[k] # NoRid
            /\ remoteId'[k] \in {NoRid, syncId'[k]}
      BY <1>1, <2>3, <3>2 DEF BatchInv
    <3>4. \A k \in DOMAIN batch : \A l \in LocalId \ {k} : remoteId'[l] # syncId'[k]
      BY <1>1, <2>3, <3>1, <3>2 DEF BatchInv
    <3> QED BY <1>1, <3>2, <3>3, <3>4 DEF BatchInv
  <2> QED BY <1>1, <2>5, <2>6 DEF StateInv
<1> QED BY <1>2, <1>3

\* A pull inserts an incident that no local row has.
LEMMA MergeKeepsTable ==
  ASSUME TableInv, MergeRow
  PROVE  TableInv'
<1> DEFINE x == Head(rest)
<1>1. pc \notin Pushing /\ pc' = pc
  BY DEF MergeRow, Pushing
<1>2. CASE Known(x.rid) # {}
  <2>1. PICK l \in LocalId : /\ inc' = [inc EXCEPT ![l] = IF LiveLocally(l) THEN ApplyMerge(@, x) ELSE @]
                             /\ UNCHANGED <<state, remoteId>>
    BY <1>2 DEF MergeRow, MergeFromServer, Known
  <2> QED BY <1>1, <2>1, NamesKept DEF TableInv, IdInv
<1>3. CASE Known(x.rid) = {}
  <2>1. PICK n \in LocalId :
          /\ NextId(n)
          /\ state' = [state EXCEPT ![n] = "live"]
          /\ remoteId' = [remoteId EXCEPT ![n] = x.rid]
          /\ inc' = [inc EXCEPT ![n] = Columns(x.content, FALSE, FALSE, x.at, x.content, NoContent)]
    BY <1>3 DEF MergeRow, InsertFromServer
  <2>2. \A l \in LocalId : x.rid # NoRid => remoteId[l] # x.rid
    BY <1>3 DEF Known, TableInv, IdInv
  <2>3. \A l \in LocalId : /\ remoteId'[l] = IF l = n THEN x.rid ELSE remoteId[l]
                           /\ state'[l] = IF l = n THEN "live" ELSE state[l]
    BY <2>1 DEF TableInv, IdInv
  <2>4. IdInv'
    <3>1. DOMAIN state' = LocalId /\ DOMAIN remoteId' = LocalId /\ DOMAIN inc' = LocalId
      BY <2>1 DEF TableInv, IdInv
    <3>2. \A l \in LocalId : remoteId'[l] # NoRid => state'[l] \in {"live", "tomb"}
      BY <2>3 DEF TableInv, IdInv
    <3>3. \A k, l \in LocalId : remoteId'[k] # NoRid /\ remoteId'[k] = remoteId'[l] => k = l
      BY <2>2, <2>3 DEF TableInv, IdInv
    <3> QED BY <3>1, <3>2, <3>3 DEF IdInv
  <2>5. StateInv'
    BY <2>3 DEF TableInv, StateInv
  <2> QED BY <1>1, <2>4, <2>5 DEF TableInv, BatchInv
<1> QED BY <1>2, <1>3

\* A row is deleted from the table only if it has no remote id.
LEMMA StateKept ==
  ASSUME TableInv, UNCHANGED <<remoteId, batch, syncId>>, DOMAIN inc' = LocalId, DOMAIN state' = LocalId,
         pc' \in Pushing => pc \in Pushing,
         \A l \in LocalId : \/ state'[l] = state[l]
                            \/ state'[l] \in {"live", "tomb"}
                            \/ state'[l] = "gone" /\ remoteId[l] = NoRid
  PROVE  TableInv'
<1>1. IdInv' BY DEF TableInv, IdInv
<1>2. StateInv' BY DEF TableInv, StateInv
<1>3. BatchInv'
  <2> SUFFICES ASSUME pc' \in Pushing PROVE BatchInv'
    BY DEF BatchInv
  <2>1. \A l \in LocalId : state[l] # "free" => state'[l] # "free"
    OBVIOUS
  <2> QED BY <2>1 DEF TableInv, BatchInv
<1> QED BY <1>1, <1>2, <1>3 DEF TableInv

LEMMA FinishPullKeepsTable ==
  ASSUME TableInv, FinishPull
  PROVE  TableInv'
<1>1. pc' \notin Pushing /\ UNCHANGED remoteId
  BY DEF FinishPull, EndPoll, Pushing
<1>2. DOMAIN state' = LocalId /\ DOMAIN inc' = LocalId
  BY DEF FinishPull, TableInv, IdInv
<1>3. \A l \in LocalId : state'[l] \in {state[l], "tomb"}
  BY DEF FinishPull
<1>4. IdInv'
  BY <1>1, <1>2, <1>3 DEF TableInv, IdInv
<1>5. StateInv'
  BY <1>3 DEF TableInv, StateInv
<1> QED BY <1>1, <1>4, <1>5 DEF TableInv, BatchInv

LEMMA PollKeepsTable ==
  ASSUME TableInv, PollStep
  PROVE  TableInv'
<1>1. CASE StartPoll BY <1>1, StartPollKeepsTable
<1>2. CASE Push
  BY <1>2, NamesKept DEF Push, tableVars, TableInv, IdInv, Pushing
<1>3. CASE GiveUp
  BY <1>3, NamesKept DEF GiveUp, EndPoll, tableVars, TableInv, IdInv, Pushing
<1>4. ASSUME NEW l \in LocalId, DropRefused(l) \/ UpdateBase(l)
      PROVE  TableInv'
  <2>1. /\ UNCHANGED <<state, remoteId, syncId>>
        /\ pc \in Pushing
        /\ Done(l)
    BY <1>4 DEF DropRefused, UpdateBase, Pushing
  <2>2. DOMAIN batch' \subseteq DOMAIN batch
    BY <2>1 DEF Done
  <2>3. DOMAIN inc' = LocalId
    BY <1>4 DEF DropRefused, UpdateBase, Update, TableInv, IdInv
  <2> QED BY <2>1, <2>2, <2>3, NamesKept
<1>5. ASSUME NEW l \in LocalId, AssignRemoteId(l)
      PROVE  TableInv'
  BY <1>5, AssignKeepsTable
<1>6. ASSUME NEW l \in LocalId, MarkSynced(l)
      PROVE  TableInv'
  <2>1. DOMAIN inc' = LocalId
    BY <1>6 DEF MarkSynced, Update, TableInv, IdInv
  <2> QED BY <1>6, <2>1, NamesKept DEF MarkSynced, Pushing
<1>7. CASE FetchPage \/ NextPage
  BY <1>7, NamesKept DEF FetchPage, NextPage, tableVars, TableInv, IdInv, Pushing
<1>8. CASE MergeRow BY <1>8, MergeKeepsTable
<1>9. CASE FinishPull BY <1>9, FinishPullKeepsTable
<1> QED BY <1>1, <1>2, <1>3, <1>4, <1>5, <1>6, <1>7, <1>8, <1>9 DEF PollStep

LEMMA UserKeepsTable ==
  ASSUME TableInv, UserStep
  PROVE  TableInv'
<1>1. ASSUME NEW t \in Text, CreateLocally(t)
      PROVE  TableInv'
  <2>1. PICK n \in LocalId :
          /\ state' = [state EXCEPT ![n] = "live"]
          /\ inc' = [inc EXCEPT ![n] = Columns(Incident(t, "open"), TRUE, FALSE, clock', NoContent, NoContent)]
    BY <1>1 DEF CreateLocally
  <2>2. /\ DOMAIN state' = LocalId /\ DOMAIN inc' = LocalId
        /\ \A l \in LocalId : state'[l] \in {state[l], "live"}
    BY <2>1 DEF TableInv, IdInv
  <2> QED BY <1>1, <2>2, StateKept DEF CreateLocally, pollVars
<1>2. CASE EraseLocally
  <2>1. /\ DOMAIN state' = LocalId /\ DOMAIN inc' = LocalId
        /\ \A l \in LocalId : \/ state'[l] = state[l]
                              \/ state'[l] = "tomb"
                              \/ state'[l] = "gone" /\ remoteId[l] = NoRid
    <3>1. /\ state' = [state EXCEPT ![ui.lid] = IF remoteId[ui.lid] # NoRid THEN "tomb" ELSE "gone"]
          /\ DOMAIN inc' = DOMAIN inc
      BY <1>2 DEF EraseLocally
    <3> QED BY <3>1 DEF TableInv, IdInv
  <2>2. UNCHANGED <<remoteId, batch, syncId, pc>>
    BY <1>2 DEF EraseLocally, pollVars
  <2> QED BY <2>1, <2>2, StateKept
<1>3. ASSUME UNCHANGED <<state, remoteId, pollVars>>, DOMAIN inc' = LocalId
      PROVE  TableInv'
  BY <1>3, NamesKept DEF pollVars
<1>4. ASSUME NEW l \in LocalId, NEW t \in Text, EditLocally(l, t)
      PROVE  TableInv'
  BY <1>4, <1>3 DEF EditLocally, TableInv, IdInv
<1>5. ASSUME NEW l \in LocalId, ChangeStatus(l)
      PROVE  TableInv'
  BY <1>5, <1>3 DEF ChangeStatus, TableInv, IdInv
<1>6. ASSUME NEW l \in LocalId, DeleteIncident(l)
      PROVE  TableInv'
  BY <1>6, <1>3 DEF DeleteIncident, tableVars, TableInv, IdInv
<1>7. ASSUME NEW l \in LocalId, NEW a \in BOOLEAN, ResolveConflict(l, a)
      PROVE  TableInv'
  BY <1>7, <1>3 DEF ResolveConflict, TableInv, IdInv
<1>8. CASE SendPatch \/ CommitPatch \/ LosePatch \/ DropAnswer
  BY <1>8, <1>3 DEF SendPatch, CommitPatch, LosePatch, DropAnswer, tableVars, TableInv, IdInv
<1>9. CASE PatchAccepted
  BY <1>9, <1>3 DEF PatchAccepted, Update, TableInv, IdInv
<1>10. CASE PatchRefused
  BY <1>10, <1>3 DEF PatchRefused, Update, TableInv, IdInv
<1> QED
  BY <1>1, <1>2, <1>4, <1>5, <1>6, <1>7, <1>8, <1>9, <1>10 DEF UserStep

LEMMA StepKeepsTable ==
  ASSUME TableInv, [Next]_vars
  PROVE  TableInv'
<1>1. CASE Restart
  BY <1>1, NamesKept DEF Restart, EndPoll, tableVars, TableInv, IdInv, Pushing
<1>2. CASE Others
  BY <1>2, NamesKept DEF Others, tableVars, pollVars, TableInv, IdInv
<1>3. CASE UNCHANGED vars
  BY <1>3, NamesKept DEF vars, tableVars, pollVars, TableInv, IdInv
<1> QED BY <1>1, <1>2, <1>3, PollKeepsTable, UserKeepsTable DEF Next

LEMMA TableInvariant == Spec => []TableInv
<1>1. Init => TableInv
  BY DEF Init, TableInv, IdInv, BatchInv, StateInv, Pushing, NoSyncId
<1>2. TableInv /\ [Next]_vars => TableInv'
  BY StepKeepsTable
<1> QED BY <1>1, <1>2, PTL DEF Spec

\* No incident ever has two local rows.
THEOREM OneRowPerIncident == Spec => []RemoteIdUnique
<1>1. TableInv => RemoteIdUnique
  BY DEF TableInv, IdInv, RemoteIdUnique
<1> QED BY <1>1, TableInvariant, PTL

-----------------------------------------------------------------------------
\* One pulled row against one dirty row of the table.
LEMMA ApplyMergeKeepsEdit ==
  ASSUME NEW i, NEW x, i.dirty, NEW f \in Field
  PROVE  \/ ApplyMerge(i, x).content[f] = i.content[f]
         \/ i.base # NoContent /\ i.base[f] = i.content[f]
<1>1. CASE i.base = NoContent
  BY <1>1 DEF ApplyMerge, LastWriteWins
<1>2. CASE i.base # NoContent /\ HasConflict(i.base, i.content, x.content)
  BY <1>2 DEF ApplyMerge, FlagConflict, Columns
<1>3. CASE i.base # NoContent /\ ~HasConflict(i.base, i.content, x.content)
  <2>1. ApplyMerge(i, x).content = Merge(i.base, i.content, x.content)
    BY <1>3 DEF ApplyMerge, CleanMerge, Columns
  <2> QED BY <1>3, <2>1, CleanMergeKeepsBothEdits
<1> QED BY <1>1, <1>2, <1>3

\* A pulled row never overwrites a field that the user has changed and that is
\* still to be pushed.
THEOREM PullKeepsUnsentEdits == Spec => PullKeepsEdits
<1> DEFINE Kept == \A l \in LocalId : LiveLocally(l) /\ inc[l].dirty =>
                     \A f \in Field :
                       \/ inc'[l].content[f] = inc[l].content[f]
                       \/ inc[l].base # NoContent /\ inc[l].base[f] = inc[l].content[f]
<1>1. ASSUME TableInv, MergeRow
      PROVE  Kept
  <2> SUFFICES ASSUME NEW l \in LocalId, LiveLocally(l), inc[l].dirty, NEW f \in Field,
                      inc'[l] # inc[l]
               PROVE  \/ inc'[l].content[f] = inc[l].content[f]
                      \/ inc[l].base # NoContent /\ inc[l].base[f] = inc[l].content[f]
    OBVIOUS
  <2>1. inc'[l] = ApplyMerge(inc[l], Head(rest))
    <3>1. CASE Known(Head(rest).rid) = {}
      BY <1>1, <3>1 DEF MergeRow, InsertFromServer, NextId, LiveLocally, TableInv, IdInv
    <3>2. CASE Known(Head(rest).rid) # {}
      BY <1>1, <3>2 DEF MergeRow, MergeFromServer, Known, TableInv, IdInv
    <3> QED BY <3>1, <3>2
  <2> QED BY <2>1, ApplyMergeKeepsEdit
<1>2. TableInv /\ [Next]_vars => [MergeRow => Kept]_vars
  BY <1>1
<1> QED BY <1>2, TableInvariant, PTL DEF Spec, PullKeepsEdits

-----------------------------------------------------------------------------
(* Lists, listings and pages.                                              *)

\* A finite set listed as a sequence: its elements, and all of them.
LEMMA SetToSeqLists ==
  ASSUME NEW S, IsFiniteSet(S)
  PROVE  /\ SetToSeq(S) \in Seq(S)
         /\ \A x \in S : \E i \in 1..Len(SetToSeq(S)) : SetToSeq(S)[i] = x
<1> DEFINE n == Cardinality(S)
           f == SetToSeq(S)
<1>1. n \in Nat /\ ExistsBijection(1..n, S)
  BY FS_CardinalityType
<1>2. \E g \in [1..n -> S] : IsInjective(g)
  BY <1>1 DEF ExistsBijection, Bijection, Injection, IsInjective
<1>3. f \in [1..n -> S] /\ IsInjective(f)
  BY <1>2 DEF SetToSeq
<1>4. f \in Injection(1..n, S)
  BY <1>3 DEF Injection, IsInjective
<1>5. Cardinality(1..n) = n
  BY <1>1, FS_Interval
<1>6. f \in Surjection(1..n, S)
  BY <1>4, <1>5, FS_Injection
<1>7. f \in Seq(S)
  BY <1>1, <1>3
<1>8. Len(f) = n
  BY <1>1, <1>3
<1> QED BY <1>6, <1>7, <1>8 DEF Surjection

LEMMA MinOfTwo ==
  ASSUME NEW a \in Int, NEW b \in Int
  PROVE  Min({a, b}) = IF a <= b THEN a ELSE b
<1> DEFINE m == IF a <= b THEN a ELSE b
<1>1. m \in {a, b} /\ \A y \in {a, b} : m <= y
  OBVIOUS
<1>2. Min({a, b}) \in {a, b} /\ \A y \in {a, b} : Min({a, b}) <= y
  BY <1>1 DEF Min
<1> QED BY <1>1, <1>2

\* A listing has the incidents that it finds, and all of them.
LEMMA MatchingLists ==
  ASSUME order \in Seq(Rid), NEW since0
  PROVE  /\ Matching(since0) \in Seq({r \in Rid : Live(r) /\ rows[r].at > since0})
         /\ \A i \in 1..Len(order) :
              Live(order[i]) /\ rows[order[i]].at > since0
                => \E p \in 1..Len(Matching(since0)) : Matching(since0)[p] = order[i]
<1> DEFINE found == {i \in DOMAIN order : Live(order[i]) /\ rows[order[i]].at > since0}
           Upto(i) == {k \in found : k <= i}
           Place(i) == Cardinality(Upto(i))
           n == Cardinality(found)
           T == {r \in Rid : Live(r) /\ rows[r].at > since0}
<1>1. IsFiniteSet(found) /\ n \in Nat
  <2>1. IsFiniteSet(1..Len(order))
    BY FS_Interval
  <2>2. found \in SUBSET (1..Len(order))
    OBVIOUS
  <2>3. IsFiniteSet(found)
    BY <2>1, <2>2, FS_Subset
  <2> QED BY <2>3, FS_CardinalityType
<1>2. \A i \in found : order[i] \in T /\ i \in Int
  OBVIOUS
<1>3. ASSUME NEW i \in found PROVE Place(i) \in 1..n
  <2>1. Upto(i) \in SUBSET found
    OBVIOUS
  <2>2. IsFiniteSet(Upto(i)) /\ Place(i) <= n
    BY <1>1, <2>1, FS_Subset
  <2>3. Place(i) \in Nat
    BY <2>2, FS_CardinalityType
  <2>4. i \in Upto(i)
    BY <1>2, <1>3
  <2>5. Place(i) # 0
    BY <2>2, <2>4, FS_EmptySet
  <2> HIDE DEF Upto, found
  <2> QED BY <1>1, <2>2, <2>3, <2>5
<1>15. \A i \in found : Place(i) \in Int
  <2> HIDE DEF Place, found
  <2> QED BY <1>3, <1>1
<1>4. ASSUME NEW i \in found, NEW j \in found, i < j PROVE Place(i) < Place(j)
  <2>1. Upto(i) \in SUBSET Upto(j) /\ j \in Upto(j) /\ j \notin Upto(i)
    BY <1>2, <1>4
  <2>2. Upto(j) \in SUBSET found
    OBVIOUS
  <2>3. IsFiniteSet(Upto(j))
    BY <1>1, <2>2, FS_Subset
  <2>4. Place(i) <= Place(j) /\ (Place(j) = Place(i) => Upto(j) = Upto(i))
    BY <2>1, <2>3, FS_Subset
  <2>5. Place(i) \in Int /\ Place(j) \in Int
    BY <1>15
  <2> HIDE DEF Upto, found
  <2> QED BY <2>1, <2>4, <2>5
<1>5. ASSUME NEW i \in found, NEW j \in found, Place(i) = Place(j) PROVE i = j
  <2>1. Place(i) \in Int
    BY <1>15
  <2>2. i \in Int /\ j \in Int /\ (i < j \/ j < i \/ i = j)
    BY <1>2
  <2> HIDE DEF Place, found
  <2>3. ~(i < j) /\ ~(j < i)
    BY <1>4, <1>5, <2>1
  <2> QED BY <2>2, <2>3
<1> DEFINE place == [i \in found |-> Place(i)]
<1>6. place \in Injection(found, 1..n)
  BY <1>3, <1>5 DEF Injection, IsInjective
<1>7. IsFiniteSet(1..n) /\ Cardinality(1..n) = n
  BY <1>1, FS_Interval
<1>8. place \in Surjection(found, 1..n)
  BY <1>6, <1>7, FS_Injection
<1>9. \A p \in 1..n : \E i \in found : Place(i) = p
  BY <1>8 DEF Surjection
<1> DEFINE At(p) == CHOOSE i \in found : Place(i) = p
<1>10. \A p \in 1..n : At(p) \in found /\ Place(At(p)) = p
  BY <1>9
<1>11. Matching(since0) = [p \in 1..n |-> order[At(p)]]
  BY DEF Matching
<1>12. \A p \in 1..n : order[At(p)] \in T
  BY <1>2, <1>10
<1> HIDE DEF At, Place, found, T
<1>13. Matching(since0) \in Seq(T) /\ Len(Matching(since0)) = n
  BY <1>1, <1>11, <1>12
<1>14. ASSUME NEW i \in found PROVE \E p \in 1..n : Matching(since0)[p] = order[i]
  <2>1. Place(i) \in 1..n
    BY <1>3
  <2>2. At(Place(i)) = i
    BY <1>5, <1>10, <2>1
  <2> QED BY <1>11, <2>1, <2>2
<1> QED BY <1>13, <1>14 DEF found, T
\* The incidents a listing is about, and what it answers of one.
Found(s) == {r \in Rid : Live(r) /\ rows[r].at > s}

Answered(r) == [rid |-> r, content |-> rows[r].content, at |-> rows[r].at]

\* A page has its part of the listing, and a page that is not full is the last.
LEMMA PageLists ==
  ASSUME order \in Seq(Rid), NEW s, NEW n \in Nat \ {0}
  PROVE  /\ Page(n, s) \in Seq({Answered(r) : r \in Found(s)})
         /\ \A p \in 1..Len(Matching(s)) :
              (n - 1) * PageSize < p /\ p <= n * PageSize
                => \E j \in 1..Len(Page(n, s)) : Page(n, s)[j].rid = Matching(s)[p]
         /\ Len(Page(n, s)) < PageSize => Len(Matching(s)) <= n * PageSize
<1> DEFINE M == Matching(s)
           N == Len(M)
           lo == (n - 1) * PageSize
           top == n * PageSize
           hi == Min({top, N})
           T == {Answered(r) : r \in Found(s)}
<1>1. M \in Seq(Found(s)) /\ N \in Nat /\ DOMAIN M = 1..N
  BY MatchingLists DEF Found
<1>2. Listed(s) = [p \in 1..N |-> Answered(M[p])]
  BY <1>1 DEF Listed, Answered
<1>3. /\ lo \in Nat /\ top \in Nat /\ top = lo + PageSize
      /\ PageSize \in Nat
  BY ServerAssumption
<1>4. hi = IF top <= N THEN top ELSE N
  BY <1>1, <1>3, MinOfTwo
<1> HIDE DEF M, N, lo, top, hi
<1>5. \A p \in 1..N : M[p] \in Found(s)
  BY <1>1
<1>6. hi \in Int /\ lo + 1 \in Int
  BY <1>1, <1>3, <1>4
<1>7. \A p \in (lo + 1)..hi : p \in 1..N
  BY <1>1, <1>3, <1>4
<1>8. \A p \in (lo + 1)..hi : Listed(s)[p] \in T
  BY <1>2, <1>5, <1>7
<1>9. Page(n, s) = SubSeq(Listed(s), lo + 1, hi)
  BY DEF Page, lo, hi, top, N, M
<1> HIDE DEF T
<1>10. /\ Page(n, s) \in Seq(T)
       /\ Len(Page(n, s)) = IF lo + 1 <= hi THEN hi - (lo + 1) + 1 ELSE 0
       /\ \A i \in 1..(hi - (lo + 1) + 1) : Page(n, s)[i] = Listed(s)[(lo + 1) + i - 1]
  BY <1>6, <1>8, <1>9, SubSeqProperties
<1>11. ASSUME NEW p \in 1..N, lo < p, p <= top
       PROVE  \E j \in 1..Len(Page(n, s)) : Page(n, s)[j].rid = M[p]
  <2>1. p - lo \in 1..(hi - (lo + 1) + 1) /\ lo + 1 <= hi
    BY <1>1, <1>3, <1>4, <1>11
  <2>2. p - lo \in 1..Len(Page(n, s)) /\ (lo + 1) + (p - lo) - 1 = p
    <3>1. Len(Page(n, s)) = hi - (lo + 1) + 1
      BY <1>10, <2>1
    <3> QED BY <1>1, <1>3, <2>1, <3>1
  <2>3. Page(n, s)[p - lo] = Listed(s)[p]
    BY <1>10, <2>1, <2>2
  <2>4. Listed(s)[p].rid = M[p]
    BY <1>2 DEF Answered
  <2> QED BY <2>2, <2>3, <2>4
<1>12. Len(Page(n, s)) < PageSize => N <= top
  BY <1>1, <1>3, <1>4, <1>10
<1> QED BY <1>10, <1>11, <1>12 DEF T, M, N, lo, top
-----------------------------------------------------------------------------
(* Types.                                                                  *)

LEMMA IncidentType ==
  /\ \A t \in Text, s \in Status : Incident(t, s) \in Content
  /\ \A c \in Content : c["text"] \in Text /\ c["status"] \in Status
BY DEF Incident, Content, Field

LEMMA MergeType ==
  ASSUME NEW base \in Content, NEW local \in Content, NEW remote \in Content
  PROVE  Merge(base, local, remote) \in Content
<1>1. /\ Merge(base, local, remote)["text"] \in Text
      /\ Merge(base, local, remote)["status"] \in Status
  BY IncidentType DEF Merge, ResolveField, Field
<1>2. Merge(base, local, remote) \in [Field -> Text \cup Status]
  BY DEF Merge, ResolveField, Content
<1> QED BY <1>1, <1>2 DEF Content

ServerRow == [state : {"absent", "live", "deleted"}, content : Content, owner : User,
              at : 0..MaxClock]

PatchRow == [pc : {"idle", "read", "ok", "refused"}, rid : Rid \cup {NoRid},
             from : Status, to : Status, at : 0..MaxClock]

LEMMA StampType ==
  ASSUME ServerTypeOK, Stamp
  PROVE  clock' \in 0..MaxClock /\ clock' >= 1
BY ServerAssumption DEF ServerTypeOK, Stamp

LEMMA CreateTypes ==
  ASSUME ServerTypeOK, NEW r \in Rid, NEW t \in Text, NEW u \in User, Create(r, t, u)
  PROVE  ServerTypeOK'
<1>1. clock' \in 0..MaxClock
  BY StampType DEF Create
<1>2. Row("live", Incident(t, "open"), u, clock') \in ServerRow
  BY <1>1, IncidentType DEF Row, ServerRow, Status
<1>3. rows' \in [Rid -> ServerRow]
  BY <1>2 DEF Create, ServerTypeOK, ServerRow
<1>4. order' \in Seq(Rid)
  BY DEF Create, ServerTypeOK
<1> QED BY <1>1, <1>3, <1>4 DEF ServerTypeOK, ServerRow, Create

LEMMA PatchReadTypes ==
  ASSUME ServerTypeOK, NEW c \in Client, NEW r \in Rid \cup {NoRid}, NEW to \in Status,
         PatchRead(c, r, to)
  PROVE  ServerTypeOK'
<1>1. clock' \in 0..MaxClock
  BY StampType DEF PatchRead, ServerTypeOK
<1>2. patch'[c] \in PatchRow
  <2>1. CASE Live(r) /\ Transition(rows[r].content["status"], to)
    <3>1. patch'[c] = Patch("read", r, rows[r].content["status"], to, clock')
      BY <2>1 DEF PatchRead, ServerTypeOK
    <3>2. rows[r].content["status"] \in Status
      BY <2>1 DEF Transition, Status
    <3> QED BY <1>1, <3>1, <3>2 DEF Patch, PatchRow
  <2>2. CASE ~(Live(r) /\ Transition(rows[r].content["status"], to))
    <3>1. patch'[c] = Patch("refused", r, "open", to, 0)
      BY <2>2 DEF PatchRead, ServerTypeOK
    <3> QED BY <3>1, ServerAssumption DEF Patch, PatchRow, Status
  <2> QED BY <2>1, <2>2
<1>3. patch' = [patch EXCEPT ![c] = patch'[c]]
  BY DEF PatchRead, ServerTypeOK
<1>4. patch' \in [Client -> PatchRow]
  BY <1>2, <1>3 DEF ServerTypeOK, PatchRow
<1> QED BY <1>1, <1>4 DEF ServerTypeOK, PatchRow, PatchRead

LEMMA PatchCommitTypes ==
  ASSUME ServerTypeOK, NEW c \in Client, PatchCommit(c)
  PROVE  ServerTypeOK'
<1> DEFINE p == patch[c]
           new == Row("live", Incident(rows[p.rid].content["text"], p.to), rows[p.rid].owner, p.at)
           hit == Live(p.rid) /\ rows[p.rid].content["status"] = p.from
<1>1. p \in PatchRow
  BY DEF ServerTypeOK, PatchRow
<1>2. rows' = IF hit THEN [rows EXCEPT ![p.rid] = new] ELSE rows
  BY DEF PatchCommit
<1>3. patch' = [patch EXCEPT ![c] =
                  Patch(IF hit THEN "ok" ELSE "refused", p.rid, p.from, p.to, p.at)]
  BY DEF PatchCommit
<1>4. patch' \in [Client -> PatchRow]
  BY <1>1, <1>3 DEF ServerTypeOK, PatchRow, Patch
<1>5. p.rid \in Rid => new \in ServerRow
  <2> SUFFICES ASSUME p.rid \in Rid PROVE new \in ServerRow
    OBVIOUS
  <2>1. rows[p.rid] \in ServerRow
    BY DEF ServerTypeOK, ServerRow
  <2>2. Incident(rows[p.rid].content["text"], p.to) \in Content
    BY <1>1, <2>1, IncidentType DEF ServerRow, PatchRow
  <2> QED BY <1>1, <2>1, <2>2 DEF Row, ServerRow, PatchRow
<1>6. rows' \in [Rid -> ServerRow]
  <2>1. rows \in [Rid -> ServerRow]
    BY DEF ServerTypeOK, ServerRow
  <2> HIDE DEF new, hit
  <2> QED BY <1>2, <1>5, <2>1
<1> QED BY <1>4, <1>6 DEF ServerTypeOK, ServerRow, PatchRow, PatchCommit

LEMMA PatchAnsweredTypes ==
  ASSUME ServerTypeOK, NEW c \in Client, PatchAnswered(c)
  PROVE  ServerTypeOK'
<1>1. NoPatch \in PatchRow
  BY ServerAssumption DEF NoPatch, Patch, PatchRow, Status
<1>2. patch' \in [Client -> PatchRow]
  BY <1>1 DEF PatchAnswered, ServerTypeOK, PatchRow
<1> QED BY <1>2 DEF ServerTypeOK, PatchRow, PatchAnswered

LEMMA RemoveTypes ==
  ASSUME ServerTypeOK, NEW r \in Rid, RemoveIncident(r)
  PROVE  ServerTypeOK'
<1>1. clock' \in 0..MaxClock
  BY StampType DEF RemoveIncident
<1>2. rows' \in [Rid -> ServerRow]
  BY <1>1 DEF RemoveIncident, ServerTypeOK, ServerRow, Row
<1> QED BY <1>1, <1>2 DEF RemoveIncident, ServerTypeOK, ServerRow

\* A push lists what it inserts, all of it, before what was listed.
LEMMA SyncTypes ==
  ASSUME ServerTypeOK, NEW items, NEW u \in User, NEW m \in BOOLEAN, Sync(items, u, m),
         DOMAIN items \subseteq Rid, IsFiniteSet(DOMAIN items),
         \A r \in DOMAIN items : items[r] \in Content
  PROVE  /\ ServerTypeOK'
         /\ \A r \in Rid : /\ rows[r].state # "absent" => rows'[r].state = rows[r].state
                           /\ rows[r].state = "absent" /\ rows'[r].state # "absent"
                                => \E i \in 1..Len(order') : order'[i] = r
         /\ \A i \in 1..Len(order) : \E j \in 1..Len(order') : order'[j] = order[i]
<1>1. clock' \in 0..MaxClock
  BY StampType DEF Sync
<1> DEFINE new == {r \in DOMAIN items : rows[r].state = "absent"}
<1>2. /\ SetToSeq(new) \in Seq(new)
      /\ \A r \in new : \E i \in 1..Len(SetToSeq(new)) : SetToSeq(new)[i] = r
  <2>1. IsFiniteSet(new)
    BY FS_Subset
  <2> QED BY <2>1, SetToSeqLists
<1>3. SetToSeq(new) \in Seq(Rid) /\ order \in Seq(Rid)
  BY <1>2 DEF ServerTypeOK
<1>4. order' = SetToSeq(new) \o order
  BY DEF Sync
<1>5. /\ order' \in Seq(Rid)
      /\ \A r \in new : \E i \in 1..Len(order') : order'[i] = r
      /\ \A i \in 1..Len(order) : \E j \in 1..Len(order') : order'[j] = order[i]
  <2> DEFINE first == SetToSeq(new)
             k == Len(first)
             n == Len(order)
  <2>1. k \in Nat /\ n \in Nat
    BY <1>3
  <2> HIDE DEF first, k, n
  <2>2. /\ order' \in Seq(Rid)
        /\ Len(order') = k + n
        /\ \A i \in 1..(k + n) : order'[i] = IF i <= k THEN first[i] ELSE order[i - k]
    BY <1>3, <1>4, ConcatProperties DEF first, k, n
  <2>3. \A i \in 1..k : i \in 1..(k + n) /\ order'[i] = first[i]
    BY <2>1, <2>2
  <2>4. \A i \in 1..n : i + k \in 1..(k + n) /\ order'[i + k] = order[i]
    BY <2>1, <2>2
  <2>5. \A r \in new : \E i \in 1..k : first[i] = r
    BY <1>2 DEF first, k
  <2> HIDE DEF new
  <2>6. \A r \in new : \E i \in 1..(k + n) : order'[i] = r
    BY <2>3, <2>5
  <2>7. \A i \in 1..n : \E j \in 1..(k + n) : order'[j] = order[i]
    BY <2>4
  <2> QED BY <2>2, <2>6, <2>7 DEF n
<1>6. \A r \in DOMAIN items : Upserted(r, items[r], u, m, clock') \in ServerRow
  <2> SUFFICES ASSUME NEW r \in DOMAIN items
               PROVE  Upserted(r, items[r], u, m, clock') \in ServerRow
    OBVIOUS
  <2>1. rows[r] \in ServerRow /\ items[r]["text"] \in Text /\ items[r]["status"] \in Status
    BY IncidentType DEF ServerTypeOK, ServerRow
  <2>2. NewStatus(items[r], m) \in Status /\ ClampedStatus(r, items[r], m) \in Status
    BY <2>1, IncidentType DEF NewStatus, ClampedStatus, Status, ServerRow
  <2>3. /\ Incident(items[r]["text"], NewStatus(items[r], m)) \in Content
        /\ Incident(items[r]["text"], ClampedStatus(r, items[r], m)) \in Content
    BY <2>1, <2>2, IncidentType
  <2> QED BY <1>1, <2>1, <2>3 DEF Upserted, Row, ServerRow
<1>7. \A r \in Rid : rows'[r] = IF r \in DOMAIN items \ Skipped(items, u, m)
                                THEN Upserted(r, items[r], u, m, clock') ELSE rows[r]
  BY DEF Sync
<1>8. rows' \in [Rid -> ServerRow]
  BY <1>6, <1>7 DEF Sync, ServerTypeOK, ServerRow
<1>9. \A r \in Rid : /\ rows[r].state # "absent" => rows'[r].state = rows[r].state
                     /\ rows[r].state = "absent" /\ rows'[r].state # "absent" => r \in new
  <2> SUFFICES ASSUME NEW r \in Rid
               PROVE  /\ rows[r].state # "absent" => rows'[r].state = rows[r].state
                      /\ rows[r].state = "absent" /\ rows'[r].state # "absent" => r \in new
    OBVIOUS
  <2>1. CASE rows'[r] = rows[r]
    BY <2>1
  <2>2. CASE rows'[r] = Upserted(r, items[r], u, m, clock') /\ r \in DOMAIN items
    BY <2>2 DEF Upserted, Row
  <2> QED BY <1>7, <2>1, <2>2
<1> QED BY <1>1, <1>5, <1>8, <1>9 DEF ServerTypeOK, ServerRow, Sync

LEMMA OthersTypes ==
  ASSUME ServerTypeOK, OthersStep
  PROVE  ServerTypeOK'
<1>1. ASSUME NEW r \in Rid, NEW c \in Content, Sync([x \in {r} |-> c], "neighbor", TRUE)
      PROVE  ServerTypeOK'
  <2> DEFINE items == [x \in {r} |-> c]
  <2>1. DOMAIN items = {r} /\ items[r] = c
    OBVIOUS
  <2>2. IsFiniteSet({r})
    BY FS_Singleton
  <2>3. Sync(items, "neighbor", TRUE)
    BY <1>1
  <2> HIDE DEF items
  <2> QED BY <2>1, <2>2, <2>3, SyncTypes DEF User
<1>2. CASE PatchCommit("web")
  BY <1>2, PatchCommitTypes DEF Client
<1>3. CASE PatchAnswered("web")
  BY <1>3, PatchAnsweredTypes DEF Client
<1>4. ASSUME NEW r \in Rid, NEW to \in Status, PatchRead("web", r, to)
      PROVE  ServerTypeOK'
  BY <1>4, PatchReadTypes DEF Client
<1>5. ASSUME NEW r \in Rid, NEW t \in Text, Create(r, t, "neighbor")
      PROVE  ServerTypeOK'
  BY <1>5, CreateTypes DEF User
<1>6. ASSUME NEW r \in Rid, RemoveIncident(r)
      PROVE  ServerTypeOK'
  BY <1>6, RemoveTypes
<1> QED BY <1>1, <1>2, <1>3, <1>4, <1>5, <1>6 DEF OthersStep

LEMMA PayloadType ==
  ASSUME TypeOK, TableInv, pc = "push"
  PROVE  /\ DOMAIN Payload \subseteq Rid /\ IsFiniteSet(DOMAIN Payload)
         /\ \A r \in DOMAIN Payload : Payload[r] \in Content
<1>1. /\ DOMAIN batch \subseteq LocalId
      /\ \A l \in DOMAIN batch : syncId[l] # NoRid
  BY DEF TableInv, BatchInv, Pushing
<1>2. DOMAIN Payload = Pushed
  BY DEF Payload
<1>3. Pushed \subseteq Rid
  BY <1>1 DEF Pushed, TypeOK
<1>4. IsFiniteSet(Pushed)
  <2>1. IsFiniteSet(LocalId)
    BY FS_Interval, SyncAssumption DEF LocalId
  <2>2. IsFiniteSet(DOMAIN batch)
    BY <1>1, <2>1, FS_Subset
  <2>3. [l \in DOMAIN batch |-> syncId[l]] \in Surjection(DOMAIN batch, Pushed)
    BY DEF Surjection, Pushed
  <2> QED BY <2>2, <2>3, FS_Surjection
<1>5. ASSUME NEW r \in Pushed PROVE Payload[r] \in Content
  <2>1. \E l \in DOMAIN batch : syncId[l] = r
    BY DEF Pushed
  <2> DEFINE k == CHOOSE l \in DOMAIN batch : syncId[l] = r
  <2>2. k \in DOMAIN batch
    BY <2>1
  <2>3. Payload[r] = batch[k].content
    BY DEF Payload
  <2> HIDE DEF k
  <2> QED BY <2>2, <2>3 DEF TypeOK, LocalRow
<1> QED BY <1>2, <1>3, <1>4, <1>5

\* A row in conflict has the server's version beside its own.
ConflictInv == \A l \in LocalId : inc[l].conflict => inc[l].remote # NoContent

\* A command under way is about a row.
CommandInv == ui.do # "none" => ui.lid \in LocalId

TypeInv == TypeOK /\ ConflictInv /\ CommandInv

\* The variables of the poll, and those of the table and the user.
PollTypeOK ==
  /\ pc \in {"idle", "push", "answer", "mark", "base", "fetch", "merge"}
  /\ DOMAIN batch \subseteq LocalId /\ batch \in [DOMAIN batch -> LocalRow]
  /\ syncId \in [LocalId -> Rid \cup {NoRid}]
  /\ skipped \subseteq Rid
  /\ page \in 1..MaxPages
  /\ rest \in Seq([rid : Rid, content : Content, at : 0..MaxClock])
  /\ lastPage \in BOOLEAN
  /\ seen \subseteq Rid
  /\ newest \in 0..MaxClock

TableTypeOK ==
  /\ state \in [LocalId -> {"free", "live", "tomb", "gone"}]
  /\ remoteId \in [LocalId -> Rid \cup {NoRid}]
  /\ inc \in [LocalId -> LocalRow]
  /\ ConflictInv

DeskTypeOK ==
  /\ role \in Roles
  /\ since \in 0..MaxClock
  /\ ui \in [do : {"none", "patch", "erase"}, lid : 0..MaxLocal,
             before : LocalRow, at : 0..MaxClock]
  /\ torn \subseteq LocalId
  /\ calm \in BOOLEAN
  /\ CommandInv

LEMMA TypeParts ==
  /\ TypeInv <=> ServerTypeOK /\ TableTypeOK /\ PollTypeOK /\ DeskTypeOK
  /\ TypeInv' <=> ServerTypeOK' /\ TableTypeOK' /\ PollTypeOK' /\ DeskTypeOK'
BY DEF TypeInv, TypeOK, TableTypeOK, PollTypeOK, DeskTypeOK

LEMMA LeastValues == 0 \in 0..MaxClock /\ 1 \in 1..MaxPages /\ 0 \in 0..MaxLocal
BY ServerAssumption, SyncAssumption

LEMMA ColumnsType ==
  ASSUME NEW c \in Content, NEW d \in BOOLEAN, NEW f \in BOOLEAN, NEW a \in 0..MaxClock,
         NEW b \in Snapshot, NEW r \in Snapshot
  PROVE  Columns(c, d, f, a, b, r) \in LocalRow
BY DEF Columns, LocalRow

LEMMA BlankType == Blank \in LocalRow /\ NoCommand \in [do : {"none", "patch", "erase"},
                     lid : 0..MaxLocal, before : LocalRow, at : 0..MaxClock]
<1>1. Blank \in LocalRow
  BY ColumnsType, IncidentType, ServerAssumption, LeastValues DEF Blank, Snapshot, Status
<1> QED BY <1>1, LeastValues DEF NoCommand, Command

\* A write of one row, or of none.
LEMMA RowTypes ==
  ASSUME TableTypeOK, UNCHANGED <<state, remoteId>>, NEW l, NEW i \in LocalRow,
         i.conflict => i.remote # NoContent,
         inc' = inc \/ inc' = [inc EXCEPT ![l] = i]
  PROVE  TableTypeOK'
BY DEF TableTypeOK, ConflictInv

LEMMA UpdateTypes ==
  ASSUME TableTypeOK, UNCHANGED <<state, remoteId>>, NEW l, NEW i \in LocalRow,
         i.conflict => i.remote # NoContent, Update(l, i)
  PROVE  TableTypeOK'
BY RowTypes DEF Update

LEMMA EndPollTypes ==
  ASSUME EndPoll
  PROVE  PollTypeOK'
BY LeastValues, EmptySeq DEF EndPoll, PollTypeOK, NoBatch, NoSyncId

LEMMA InitTypes == Init => TypeInv
<1> SUFFICES ASSUME Init PROVE TypeInv
  OBVIOUS
<1> USE ServerAssumption, SyncAssumption DEF Init
<1>1. ServerTypeOK
  <2>1. rows \in [Rid -> ServerRow]
    BY IncidentType DEF ServerInit, ServerRow, Row, Absent, User, Status
  <2>2. order \in Seq(Rid)
    BY SetToSeqLists DEF ServerInit
  <2>3. patch \in [Client -> PatchRow]
    BY DEF ServerInit, PatchRow, NoPatch, Patch, Status
  <2> QED BY <2>1, <2>2, <2>3 DEF ServerInit, ServerTypeOK, ServerRow, PatchRow
<1>2. PollTypeOK
  BY LeastValues, EmptySeq DEF PollTypeOK, NoBatch, NoSyncId
<1>3. TableTypeOK
  BY BlankType DEF TableTypeOK, ConflictInv, NoSyncId, Blank, Columns
<1>4. DeskTypeOK
  BY BlankType, LeastValues DEF DeskTypeOK, CommandInv, NoCommand, Command
<1> QED BY <1>1, <1>2, <1>3, <1>4, TypeParts

LEMMA MergedType ==
  ASSUME NEW i \in LocalRow, NEW x \in [rid : Rid, content : Content, at : 0..MaxClock],
         i.conflict => i.remote # NoContent
  PROVE  LET m == ApplyMerge(i, x)
         IN  m \in LocalRow /\ (m.conflict => m.remote # NoContent)
<1>1. /\ x.content \in Content /\ x.content \in Snapshot /\ x.content # NoContent
      /\ x.at \in 0..MaxClock
  BY SyncAssumption DEF Snapshot
<1>2. /\ i.content \in Content /\ i.dirty \in BOOLEAN /\ i.conflict \in BOOLEAN
      /\ i.at \in 0..MaxClock /\ i.base \in Snapshot /\ i.remote \in Snapshot
  BY DEF LocalRow
<1>3. CASE i.base = NoContent
  <2>1. ApplyMerge(i, x) = LastWriteWins(i, x)
    BY <1>3 DEF ApplyMerge
  <2>2. Columns(x.content, i.dirty, i.conflict, x.at, x.content, i.remote) \in LocalRow
    BY <1>1, <1>2, ColumnsType
  <2> QED BY <2>1, <2>2 DEF LastWriteWins, Columns
<1>4. CASE i.base # NoContent /\ HasConflict(i.base, i.content, x.content)
  <2>1. ApplyMerge(i, x) = Columns(i.content, i.dirty, TRUE, x.at, i.base, x.content)
    BY <1>4 DEF ApplyMerge, FlagConflict
  <2>2. ApplyMerge(i, x) \in LocalRow
    BY <1>1, <1>2, <2>1 DEF Columns, LocalRow
  <2> QED BY <1>1, <2>1, <2>2 DEF Columns
<1>5. CASE i.base # NoContent /\ ~HasConflict(i.base, i.content, x.content)
  <2> DEFINE m == Merge(i.base, i.content, x.content)
  <2>1. ApplyMerge(i, x) = Columns(m, FALSE, FALSE, x.at, m, i.remote)
    BY <1>5 DEF ApplyMerge, CleanMerge
  <2>2. m \in Content /\ m \in Snapshot
    BY <1>1, <1>2, <1>5, MergeType DEF Snapshot
  <2> HIDE DEF m
  <2>3. ApplyMerge(i, x) \in LocalRow
    BY <1>1, <1>2, <2>1, <2>2 DEF Columns, LocalRow
  <2> QED BY <2>1, <2>3 DEF Columns
<1> QED BY <1>3, <1>4, <1>5

LEMMA StartPollTypes ==
  ASSUME TypeInv, StartPoll
  PROVE  TypeInv'
<1> USE TypeParts DEF StartPoll
<1>1. DOMAIN batch' \subseteq LocalId /\ batch' \in [DOMAIN batch' -> LocalRow]
  BY DEF Dirty, TableTypeOK
<1>2. syncId' \in [LocalId -> Rid \cup {NoRid}]
  BY DEF SyncIds
<1>3. PollTypeOK'
  <2>1. pc' \in {"fetch", "push"} /\ page' = 1 /\ seen' = {} /\ newest' = since
    OBVIOUS
  <2> QED BY <1>1, <1>2, <2>1, LeastValues DEF PollTypeOK, DeskTypeOK, CommandInv
<1>4. DeskTypeOK'
  <2>1. torn' \subseteq LocalId
    BY DEF DeskTypeOK, CommandInv
  <2> QED BY <2>1 DEF DeskTypeOK, CommandInv
<1>5. ServerTypeOK' /\ TableTypeOK'
  BY DEF serverVars, tableVars, ServerTypeOK, TableTypeOK, ConflictInv
<1> QED BY <1>3, <1>4, <1>5

LEMMA PushTypes ==
  ASSUME TypeInv, TableInv, Push
  PROVE  TypeInv'
<1>1. /\ DOMAIN Payload \subseteq Rid /\ IsFiniteSet(DOMAIN Payload)
      /\ \A r \in DOMAIN Payload : Payload[r] \in Content
  BY PayloadType DEF Push, TypeInv
<1>2. ServerTypeOK
  BY TypeParts
<1>3. Sync(Payload, "me", Moderates) /\ "me" \in User /\ Moderates \in BOOLEAN
  BY DEF Push, User, Moderates
<1>4. ServerTypeOK'
  BY <1>1, <1>2, <1>3, SyncTypes
<1>5. skipped' \subseteq Rid
  BY <1>1 DEF Push, Skipped
<1>6. PollTypeOK'
  BY <1>5, TypeParts DEF Push, PollTypeOK
<1>7. TableTypeOK' /\ DeskTypeOK'
  BY TypeParts DEF Push, tableVars, TableTypeOK, ConflictInv, DeskTypeOK, CommandInv
<1> QED BY <1>4, <1>6, <1>7, TypeParts

\* The steps that deal with one row of the batch.
LEMMA AnswerTypes ==
  ASSUME TypeInv, NEW l \in LocalId,
         DropRefused(l) \/ AssignRemoteId(l) \/ MarkSynced(l) \/ UpdateBase(l)
  PROVE  TypeInv'
<1> USE TypeParts
<1>1. ServerTypeOK' /\ DeskTypeOK'
  BY DEF DropRefused, AssignRemoteId, MarkSynced, UpdateBase, serverVars, ServerTypeOK, DeskTypeOK, CommandInv
<1>2. Done(l) => pc' \in {"fetch", "answer"} /\ DOMAIN batch' \subseteq LocalId
                 /\ batch' \in [DOMAIN batch' -> LocalRow]
  BY DEF Done, PollTypeOK
<1>3. PollTypeOK'
  BY <1>2 DEF DropRefused, AssignRemoteId, MarkSynced, UpdateBase, PollTypeOK
<1>4. TableTypeOK'
  <2>1. inc[l] \in LocalRow /\ (inc[l].conflict => inc[l].remote # NoContent)
    BY DEF TableTypeOK, ConflictInv
  <2>2. ASSUME DropRefused(l) \/ MarkSynced(l)
        PROVE  TableTypeOK'
    <3>1. Clean(inc[l]) \in LocalRow /\ (Clean(inc[l]).conflict => Clean(inc[l]).remote # NoContent)
      BY <2>1 DEF Clean, LocalRow
    <3> QED BY <2>2, <3>1, UpdateTypes DEF DropRefused, MarkSynced
  <2>3. ASSUME UpdateBase(l)
        PROVE  TableTypeOK'
    <3> DEFINE i == [inc[l] EXCEPT !.base = batch[l].content]
    <3>1. batch[l].content \in Snapshot
      BY <2>3 DEF UpdateBase, Turn, PollTypeOK, LocalRow, Snapshot
    <3>2. i \in LocalRow /\ (i.conflict => i.remote # NoContent)
      BY <2>1, <3>1 DEF LocalRow
    <3> HIDE DEF i
    <3>3. Update(l, i) /\ UNCHANGED <<state, remoteId>>
      BY <2>3 DEF UpdateBase, i
    <3> QED BY <3>2, <3>3, UpdateTypes
  <2>4. ASSUME AssignRemoteId(l)
        PROVE  TableTypeOK'
    BY <2>4 DEF AssignRemoteId, TableTypeOK, ConflictInv, PollTypeOK
  <2> QED BY <2>2, <2>3, <2>4
<1> QED BY <1>1, <1>3, <1>4

LEMMA FetchPageTypes ==
  ASSUME TypeInv, FetchPage
  PROVE  TypeInv'
<1> USE TypeParts
<1>1. Page(page, since) \in Seq({Answered(r) : r \in Found(since)})
  <2>1. order \in Seq(Rid) /\ page \in Nat \ {0}
    BY SyncAssumption DEF ServerTypeOK, PollTypeOK
  <2> QED BY <2>1, PageLists
<1>2. {Answered(r) : r \in Found(since)} \subseteq [rid : Rid, content : Content, at : 0..MaxClock]
  BY DEF Answered, Found, ServerTypeOK
<1>3. rest' \in Seq([rid : Rid, content : Content, at : 0..MaxClock])
  BY <1>1, <1>2, SeqMonotonic DEF FetchPage
<1>4. PollTypeOK'
  BY <1>3 DEF FetchPage, PollTypeOK
<1>5. ServerTypeOK' /\ TableTypeOK' /\ DeskTypeOK'
  BY DEF FetchPage, serverVars, tableVars, ServerTypeOK, TableTypeOK, ConflictInv, DeskTypeOK, CommandInv
<1> QED BY <1>4, <1>5

LEMMA MergeRowTypes ==
  ASSUME TypeInv, MergeRow
  PROVE  TypeInv'
<1> USE TypeParts
<1> DEFINE x == Head(rest)
<1>1. /\ x \in [rid : Rid, content : Content, at : 0..MaxClock]
      /\ rest' \in Seq([rid : Rid, content : Content, at : 0..MaxClock])
  BY HeadTailProperties DEF MergeRow, PollTypeOK
<1>2. PollTypeOK'
  <2>1. seen' = seen \cup {x.rid} /\ newest' \in {x.at, newest}
    BY DEF MergeRow
  <2> HIDE DEF x
  <2>2. seen' \subseteq Rid /\ newest' \in 0..MaxClock
    BY <1>1, <2>1 DEF PollTypeOK
  <2> QED BY <1>1, <2>2 DEF MergeRow, PollTypeOK
<1>3. TableTypeOK'
  <2>1. CASE Known(x.rid) = {}
    <3>1. PICK l \in LocalId :
            /\ state' = [state EXCEPT ![l] = "live"]
            /\ remoteId' = [remoteId EXCEPT ![l] = x.rid]
            /\ inc' = [inc EXCEPT ![l] = Columns(x.content, FALSE, FALSE, x.at, x.content, NoContent)]
      BY <2>1 DEF MergeRow, InsertFromServer
    <3> HIDE DEF x
    <3>2. Columns(x.content, FALSE, FALSE, x.at, x.content, NoContent) \in LocalRow
      BY <1>1, ColumnsType DEF Snapshot
    <3> QED BY <1>1, <3>1, <3>2 DEF TableTypeOK, ConflictInv, Columns
  <2>2. CASE Known(x.rid) # {}
    <3>1. PICK l \in LocalId :
            /\ inc' = [inc EXCEPT ![l] = IF LiveLocally(l) THEN ApplyMerge(inc[l], x) ELSE inc[l]]
            /\ UNCHANGED <<state, remoteId>>
      BY <2>2 DEF MergeRow, MergeFromServer, Known
    <3> HIDE DEF x
    <3>2. inc[l] \in LocalRow /\ (inc[l].conflict => inc[l].remote # NoContent)
      BY DEF TableTypeOK, ConflictInv
    <3>3. ApplyMerge(inc[l], x) \in LocalRow
          /\ (ApplyMerge(inc[l], x).conflict => ApplyMerge(inc[l], x).remote # NoContent)
      BY <1>1, <3>2, MergedType
    <3>4. CASE LiveLocally(l)
      BY <3>1, <3>3, <3>4, RowTypes
    <3>5. CASE ~LiveLocally(l)
      BY <3>1, <3>2, <3>5, RowTypes
    <3> QED BY <3>4, <3>5
  <2> QED BY <2>1, <2>2
<1>4. ServerTypeOK' /\ DeskTypeOK'
  BY DEF MergeRow, serverVars, ServerTypeOK, DeskTypeOK, CommandInv
<1> QED BY <1>2, <1>3, <1>4

LEMMA FinishPullTypes ==
  ASSUME TypeInv, FinishPull
  PROVE  TypeInv'
<1> USE TypeParts
<1>1. PollTypeOK'
  BY EndPollTypes DEF FinishPull
<1>2. TableTypeOK'
  <2>1. CASE CompleteFullPull
    <3>1. /\ state' = [l \in LocalId |-> IF Orphan(l) THEN "tomb" ELSE state[l]]
          /\ inc' = [l \in LocalId |-> IF Orphan(l) THEN Clean(inc[l]) ELSE inc[l]]
          /\ remoteId' = remoteId
      BY <2>1 DEF FinishPull
    <3>2. \A l \in LocalId : /\ Clean(inc[l]) \in LocalRow
                             /\ Clean(inc[l]).conflict => Clean(inc[l]).remote # NoContent
      BY DEF Clean, LocalRow, TableTypeOK, ConflictInv
    <3> HIDE TypeParts
    <3>3. inc' \in [LocalId -> LocalRow] /\ state' \in [LocalId -> {"free", "live", "tomb", "gone"}]
      BY <3>1, <3>2, TypeParts DEF TableTypeOK
    <3>4. ConflictInv'
      BY <3>1, <3>2, TypeParts DEF TableTypeOK, ConflictInv
    <3> QED BY <3>1, <3>3, <3>4, TypeParts DEF TableTypeOK
  <2>2. CASE ~CompleteFullPull
    BY <2>2 DEF FinishPull, TableTypeOK, ConflictInv
  <2> QED BY <2>1, <2>2
<1>3. ServerTypeOK'
  BY DEF FinishPull, serverVars, ServerTypeOK
<1>4. DeskTypeOK'
  BY DEF FinishPull, DeskTypeOK, PollTypeOK, CommandInv
<1> QED BY <1>1, <1>2, <1>3, <1>4

LEMMA PollTypes ==
  ASSUME TypeInv, TableInv, PollStep
  PROVE  TypeInv'
<1>1. CASE GiveUp
  <2>1. PollTypeOK'
    BY <1>1, EndPollTypes DEF GiveUp
  <2>2. ServerTypeOK' /\ TableTypeOK' /\ DeskTypeOK'
    BY <1>1, TypeParts DEF GiveUp, serverVars, tableVars, ServerTypeOK, TableTypeOK, ConflictInv, DeskTypeOK, CommandInv
  <2> QED BY <2>1, <2>2, TypeParts
<1>2. CASE NextPage
  <2>1. page' \in 1..MaxPages
    BY <1>2, TypeParts, SyncAssumption DEF NextPage, PollTypeOK
  <2>2. PollTypeOK'
    BY <1>2, <2>1, TypeParts DEF NextPage, PollTypeOK
  <2>3. ServerTypeOK' /\ TableTypeOK' /\ DeskTypeOK'
    BY <1>2, TypeParts DEF NextPage, serverVars, tableVars, ServerTypeOK, TableTypeOK, ConflictInv, DeskTypeOK, CommandInv
  <2> QED BY <2>2, <2>3, TypeParts
<1> QED
  BY <1>1, <1>2, StartPollTypes, PushTypes, AnswerTypes, FetchPageTypes, MergeRowTypes,
     FinishPullTypes DEF PollStep

LEMMA TypesKept ==
  /\ ServerTypeOK /\ UNCHANGED serverVars => ServerTypeOK'
  /\ TableTypeOK /\ UNCHANGED tableVars => TableTypeOK'
  /\ PollTypeOK /\ UNCHANGED pollVars => PollTypeOK'
BY DEF serverVars, ServerTypeOK, tableVars, TableTypeOK, ConflictInv, pollVars, PollTypeOK

LEMMA NextStatusType ==
  ASSUME NEW s PROVE NextStatus(s) \in Status
BY DEF NextStatus, Status

\* What a command and a Touch leave of the user's variables.
LEMMA DeskTypes ==
  ASSUME DeskTypeOK, UNCHANGED <<role, since>>, NEW l \in LocalId, NEW o,
         \/ Touch(l, o)
         \/ UNCHANGED torn /\ calm' \in {calm, FALSE},
         \/ ui' \in {ui, NoCommand}
         \/ \E do \in {"patch", "erase"}, i \in LocalRow, t \in 0..MaxClock :
              ui' = Command(do, l, i, t)
  PROVE  DeskTypeOK'
<1>1. torn' \subseteq LocalId /\ calm' \in BOOLEAN
  BY DEF Touch, DeskTypeOK
<1>2. l \in 0..MaxLocal
  BY SyncAssumption DEF LocalId
<1>3. CASE ui' \in {ui, NoCommand}
  BY <1>1, <1>3, BlankType DEF DeskTypeOK, CommandInv, NoCommand, Command
<1>4. ASSUME NEW do \in {"patch", "erase"}, NEW i \in LocalRow, NEW t \in 0..MaxClock,
             ui' = Command(do, l, i, t)
      PROVE  DeskTypeOK'
  BY <1>1, <1>2, <1>4 DEF DeskTypeOK, CommandInv, Command
<1> QED BY <1>3, <1>4

LEMMA CreateLocallyTypes ==
  ASSUME TypeInv, NEW t \in Text, CreateLocally(t)
  PROVE  TypeInv'
<1> USE TypeParts
<1>1. clock' \in 0..MaxClock
  BY StampType DEF CreateLocally
<1>2. PICK l \in LocalId :
        /\ state' = [state EXCEPT ![l] = "live"]
        /\ inc' = [inc EXCEPT ![l] =
                     Columns(Incident(t, "open"), TRUE, FALSE, clock', NoContent, NoContent)]
        /\ Touch(l, Busy(l))
  BY DEF CreateLocally
<1>3. Incident(t, "open") \in Content
  BY IncidentType DEF Status
<1>4. TableTypeOK'
  <2>1. Columns(Incident(t, "open"), TRUE, FALSE, clock', NoContent, NoContent) \in LocalRow
    BY <1>1, <1>3 DEF Columns, LocalRow, Snapshot
  <2> QED BY <1>2, <2>1 DEF CreateLocally, TableTypeOK, ConflictInv, Columns
<1>5. DeskTypeOK'
  BY <1>2, DeskTypes DEF CreateLocally
<1>6. ServerTypeOK' /\ PollTypeOK'
  BY <1>1, TypesKept DEF CreateLocally, ServerTypeOK
<1> QED BY <1>4, <1>5, <1>6

LEMMA EditTypes ==
  ASSUME TypeInv, NEW l \in LocalId,
         \/ \E t \in Text : EditLocally(l, t)
         \/ ChangeStatus(l)
  PROVE  TypeInv'
<1> USE TypeParts
<1> DEFINE i == inc[l]
<1>1. clock' \in 0..MaxClock
  BY StampType DEF EditLocally, ChangeStatus
<1>2. i \in LocalRow /\ (i.conflict => i.remote # NoContent)
  BY DEF TableTypeOK, ConflictInv
<1>3. PICK c \in Content : inc' = [inc EXCEPT ![l] = Columns(c, TRUE, i.conflict, clock', i.base, i.remote)]
  <2>1. i.content["text"] \in Text /\ i.content["status"] \in Status
    BY <1>2, IncidentType DEF LocalRow
  <2>2. ASSUME NEW t \in Text, EditLocally(l, t)
        PROVE  \E c \in Content : inc' = [inc EXCEPT ![l] = Columns(c, TRUE, i.conflict, clock', i.base, i.remote)]
    <3>1. Incident(t, i.content["status"]) \in Content
      BY <2>1, IncidentType
    <3> QED BY <2>2, <3>1 DEF EditLocally
  <2>3. ASSUME ChangeStatus(l)
        PROVE  \E c \in Content : inc' = [inc EXCEPT ![l] = Columns(c, TRUE, i.conflict, clock', i.base, i.remote)]
    <3>1. Incident(i.content["text"], NextStatus(i.content["status"])) \in Content
      BY <2>1, IncidentType, NextStatusType
    <3> QED BY <2>3, <3>1 DEF ChangeStatus
  <2> QED BY <2>2, <2>3
<1>4. TableTypeOK'
  <2>1. Columns(c, TRUE, i.conflict, clock', i.base, i.remote) \in LocalRow
    BY <1>1, <1>2 DEF Columns, LocalRow
  <2> QED BY <1>2, <1>3, <2>1 DEF EditLocally, ChangeStatus, TableTypeOK, ConflictInv, Columns
<1>5. DeskTypeOK'
  <2>1. Touch(l, Busy(l)) /\ UNCHANGED <<role, since>>
    BY DEF EditLocally, ChangeStatus
  <2>2. ui' = ui \/ ui' = Command("patch", l, inc[l], clock')
    BY DEF EditLocally, ChangeStatus
  <2>3. inc[l] \in LocalRow
    BY <1>2
  <2> QED BY <1>1, <2>1, <2>2, <2>3, DeskTypes
<1>6. ServerTypeOK' /\ PollTypeOK'
  BY <1>1, TypesKept DEF EditLocally, ChangeStatus, ServerTypeOK
<1> QED BY <1>4, <1>5, <1>6

LEMMA PatchTypes ==
  ASSUME TypeInv, SendPatch \/ CommitPatch \/ DropAnswer \/ LosePatch
  PROVE  TypeInv'
<1> USE TypeParts
<1>1. ServerTypeOK'
  <2>1. ASSUME SendPatch PROVE ServerTypeOK'
    <3>1. remoteId[ui.lid] \in Rid \cup {NoRid}
      BY <2>1 DEF SendPatch, DeskTypeOK, CommandInv, TableTypeOK
    <3> QED BY <2>1, <3>1, NextStatusType, PatchReadTypes DEF SendPatch, Client
  <2>2. ASSUME CommitPatch PROVE ServerTypeOK'
    BY <2>2, PatchCommitTypes DEF CommitPatch, Client
  <2>3. ASSUME DropAnswer PROVE ServerTypeOK'
    BY <2>3, PatchAnsweredTypes DEF DropAnswer, Client
  <2>4. ASSUME LosePatch PROVE ServerTypeOK'
    <3>1. NoPatch \in PatchRow
      BY LeastValues DEF NoPatch, Patch, PatchRow, Status
    <3>2. patch' \in [Client -> PatchRow]
      BY <2>4, <3>1 DEF LosePatch, ServerTypeOK, PatchRow
    <3> QED BY <2>4, <3>2 DEF LosePatch, ServerTypeOK, PatchRow
  <2> QED BY <2>1, <2>2, <2>3, <2>4
<1>2. DeskTypeOK'
  <2>1. ASSUME LosePatch PROVE DeskTypeOK'
    BY <2>1, DeskTypes DEF LosePatch, DeskTypeOK, CommandInv
  <2>2. ASSUME ~LosePatch PROVE DeskTypeOK'
    BY <2>2 DEF SendPatch, CommitPatch, DropAnswer, DeskTypeOK, CommandInv
  <2> QED BY <2>1, <2>2
<1>3. TableTypeOK' /\ PollTypeOK'
  BY TypesKept DEF SendPatch, CommitPatch, DropAnswer, LosePatch
<1> QED BY <1>1, <1>2, <1>3

LEMMA AnsweredTypes ==
  ASSUME TypeInv, PatchAccepted \/ PatchRefused
  PROVE  TypeInv'
<1> USE TypeParts
<1> DEFINE l == ui.lid
           i == inc[l]
           old == Incident(i.content["text"], ui.before.content["status"])
<1>1. l \in LocalId
  BY DEF PatchAccepted, PatchRefused, DeskTypeOK, CommandInv
<1>2. i \in LocalRow /\ (i.conflict => i.remote # NoContent) /\ ui.before \in LocalRow
  BY <1>1 DEF TableTypeOK, ConflictInv, DeskTypeOK
<1>3. DeskTypeOK'
  BY <1>1, DeskTypes DEF PatchAccepted, PatchRefused
<1>4. PollTypeOK'
  BY TypesKept DEF PatchAccepted, PatchRefused
<1>5. ASSUME PatchAccepted PROVE ServerTypeOK' /\ TableTypeOK'
  <2>1. ServerTypeOK'
    BY <1>5, PatchAnsweredTypes DEF PatchAccepted, Client
  <2>2. Clean(i) \in LocalRow /\ (Clean(i).conflict => Clean(i).remote # NoContent)
    BY <1>2 DEF Clean, LocalRow
  <2>3. TableTypeOK'
    <3> HIDE DEF i
    <3>1. Update(l, Clean(i)) \/ Update(l, i)
      BY <1>5 DEF PatchAccepted, i
    <3> QED BY <1>2, <1>5, <2>2, <3>1, UpdateTypes DEF PatchAccepted
  <2> QED BY <2>1, <2>3
<1>6. ASSUME PatchRefused PROVE ServerTypeOK' /\ TableTypeOK'
  <2>1. ui.before.dirty => Stamp
    BY <1>6 DEF PatchRefused
  <2>2. clock' \in 0..MaxClock
    BY <1>6, <2>1, StampType DEF PatchRefused, ServerTypeOK
  <2>3. NoPatch \in PatchRow
    BY LeastValues DEF NoPatch, Patch, PatchRow, Status
  <2>4. patch' \in [Client -> PatchRow]
    BY <1>6, <2>3 DEF PatchRefused, ServerTypeOK, PatchRow
  <2>5. ServerTypeOK'
    BY <1>6, <2>2, <2>4 DEF PatchRefused, ServerTypeOK, PatchRow
  <2>6. old \in Content
    BY <1>2, IncidentType DEF LocalRow
  <2>7. PICK d \in BOOLEAN, t \in 0..MaxClock :
          Update(l, Columns(old, d, i.conflict, t, i.base, i.remote))
    <3>1. ui.before.at \in 0..MaxClock
      BY <1>2 DEF LocalRow
    <3> QED BY <1>6, <2>2, <3>1 DEF PatchRefused
  <2> DEFINE new == Columns(old, d, i.conflict, t, i.base, i.remote)
  <2>8. new \in LocalRow /\ (new.conflict => new.remote # NoContent)
    BY <1>2, <2>6 DEF Columns, LocalRow
  <2> HIDE DEF new
  <2>9. Update(l, new) /\ UNCHANGED <<state, remoteId>>
    BY <1>6, <2>7 DEF PatchRefused, new
  <2>10. TableTypeOK'
    BY <2>8, <2>9, UpdateTypes
  <2> QED BY <2>5, <2>10
<1> QED BY <1>3, <1>4, <1>5, <1>6

LEMMA DeleteTypes ==
  ASSUME TypeInv, NEW l \in LocalId, DeleteIncident(l)
  PROVE  TypeInv'
<1> USE TypeParts
<1>1. ServerTypeOK'
  <2>1. CASE remoteId[l] = NoRid
    BY <2>1, TypesKept DEF DeleteIncident
  <2>2. CASE remoteId[l] # NoRid
    BY <2>2, RemoveTypes DEF DeleteIncident, TableTypeOK
  <2> QED BY <2>1, <2>2
<1>2. DeskTypeOK'
  <2>1. ui' = ui \/ ui' = Command("erase", l, inc[l], 0)
    BY DEF DeleteIncident
  <2>2. inc[l] \in LocalRow
    BY DEF TableTypeOK
  <2>3. Touch(l, Busy(l)) /\ UNCHANGED <<role, since>>
    BY DEF DeleteIncident
  <2> QED BY <2>1, <2>2, <2>3, DeskTypes, LeastValues
<1>3. TableTypeOK' /\ PollTypeOK'
  BY TypesKept DEF DeleteIncident
<1> QED BY <1>1, <1>2, <1>3

LEMMA EraseTypes ==
  ASSUME TypeInv, EraseLocally
  PROVE  TypeInv'
<1> USE TypeParts
<1>1. ui.lid \in LocalId
  BY DEF EraseLocally, DeskTypeOK, CommandInv
<1>2. DeskTypeOK'
  BY <1>1, DeskTypes DEF EraseLocally
<1>3. TableTypeOK'
  <2>1. PICK i \in {Clean(inc[ui.lid]), Blank}, s \in {"tomb", "gone"} :
          inc' = [inc EXCEPT ![ui.lid] = i] /\ state' = [state EXCEPT ![ui.lid] = s]
    BY DEF EraseLocally
  <2>2. i \in LocalRow /\ (i.conflict => i.remote # NoContent)
    <3>1. /\ inc[ui.lid] \in LocalRow
          /\ inc[ui.lid].conflict => inc[ui.lid].remote # NoContent
      BY <1>1 DEF TableTypeOK, ConflictInv
    <3>2. /\ Clean(inc[ui.lid]) \in LocalRow
          /\ Clean(inc[ui.lid]).conflict => Clean(inc[ui.lid]).remote # NoContent
      BY <3>1 DEF Clean, LocalRow
    <3>3. Blank \in LocalRow /\ ~Blank.conflict
      BY BlankType DEF Blank, Columns
    <3> QED BY <2>1, <3>2, <3>3
  <2>3. inc' \in [LocalId -> LocalRow]
    BY <2>1, <2>2 DEF TableTypeOK
  <2>4. state' \in [LocalId -> {"free", "live", "tomb", "gone"}]
    BY <2>1 DEF TableTypeOK
  <2>5. ConflictInv'
    BY <2>1, <2>2 DEF TableTypeOK, ConflictInv
  <2> QED BY <2>3, <2>4, <2>5 DEF EraseLocally, TableTypeOK
<1>4. ServerTypeOK' /\ PollTypeOK'
  BY TypesKept DEF EraseLocally
<1> QED BY <1>2, <1>3, <1>4

LEMMA ResolveTypes ==
  ASSUME TypeInv, NEW l \in LocalId, NEW a \in BOOLEAN, ResolveConflict(l, a)
  PROVE  TypeInv'
<1> USE TypeParts
<1> DEFINE i == inc[l]
           kept == IF a THEN i.remote ELSE i.content
           new == Columns(kept, ~a, FALSE, i.at, kept, NoContent)
<1>1. i \in LocalRow /\ (i.conflict => i.remote # NoContent)
  BY DEF TableTypeOK, ConflictInv
<1>2. kept \in Content
  BY <1>1 DEF ResolveConflict, LocalRow, Snapshot
<1>3. new \in LocalRow /\ ~new.conflict
  <2> HIDE DEF kept
  <2> QED BY <1>1, <1>2 DEF Columns, LocalRow, Snapshot
<1>4. inc' = [inc EXCEPT ![l] = new] /\ UNCHANGED <<state, remoteId>>
  BY DEF ResolveConflict
<1>5. TableTypeOK'
  <2> HIDE DEF new
  <2> QED BY <1>3, <1>4, RowTypes
<1>6. DeskTypeOK'
  BY DeskTypes DEF ResolveConflict
<1>7. ServerTypeOK' /\ PollTypeOK'
  BY TypesKept DEF ResolveConflict
<1> QED BY <1>5, <1>6, <1>7

LEMMA UserTypes ==
  ASSUME TypeInv, UserStep
  PROVE  TypeInv'
BY CreateLocallyTypes, EditTypes, PatchTypes, AnsweredTypes, DeleteTypes, EraseTypes, ResolveTypes
   DEF UserStep

LEMMA StepTypes ==
  ASSUME TypeInv, TableInv, [Next]_vars
  PROVE  TypeInv'
<1>1. CASE Restart
  <2>1. PollTypeOK'
    BY <1>1, EndPollTypes DEF Restart
  <2>2. DeskTypeOK'
    <3>1. torn' \subseteq LocalId
      BY <1>1, TypeParts DEF Restart, DeskTypeOK, CommandInv
    <3> QED BY <1>1, <3>1, TypeParts, LeastValues, BlankType
            DEF Restart, DeskTypeOK, CommandInv, NoCommand, Command
  <2>3. ServerTypeOK'
    <3>1. NoPatch \in PatchRow
      BY LeastValues DEF NoPatch, Patch, PatchRow, Status
    <3>2. patch' \in [Client -> PatchRow]
      BY <1>1, <3>1, TypeParts DEF Restart, ServerTypeOK, PatchRow
    <3> QED BY <1>1, <3>2, TypeParts DEF Restart, ServerTypeOK, PatchRow
  <2>4. TableTypeOK'
    BY <1>1, TypesKept, TypeParts DEF Restart
  <2> QED BY <2>1, <2>2, <2>3, <2>4, TypeParts
<1>2. CASE Others
  <2>1. ServerTypeOK'
    BY <1>2, OthersTypes, TypeParts DEF Others
  <2>2. DeskTypeOK'
    BY <1>2, TypeParts DEF Others, DeskTypeOK, CommandInv
  <2>3. TableTypeOK' /\ PollTypeOK'
    BY <1>2, TypesKept, TypeParts DEF Others
  <2> QED BY <2>1, <2>2, <2>3, TypeParts
<1>3. CASE UNCHANGED vars
  BY <1>3, TypesKept, TypeParts DEF vars, DeskTypeOK, CommandInv
<1> QED BY <1>1, <1>2, <1>3, PollTypes, UserTypes DEF Next

\* Every value of the table, of a poll, of a command and of the server has its
\* type: no status is stored that the API does not know, and a text of the
\* server is what replaces a text.
THEOREM TypeCorrect == Spec => []TypeOK
<1>1. Init => TypeInv
  BY InitTypes
<1>2. TypeInv /\ TableInv /\ [Next]_vars => TypeInv'
  BY StepTypes
<1>3. TypeInv => TypeOK
  BY DEF TypeInv
<1> QED BY <1>1, <1>2, <1>3, TableInvariant, PTL DEF Spec
-----------------------------------------------------------------------------
(* A pull.                                                                 *)

\* A live incident is dated and listed.
ServerInv ==
  /\ clock >= 1
  /\ \A c \in Client : patch[c].pc = "read" => patch[c].at >= 1
  /\ \A r \in Rid : rows[r].state # "absent" => rows[r].at >= 1
  /\ \A r \in Rid : rows[r].state # "absent" => \E i \in 1..Len(order) : order[i] = r

\* The incidents on the first n pages of a full pull, and those still to merge.
Pulled(n) == {Matching(0)[p] : p \in {q \in 1..Len(Matching(0)) : q <= n * PageSize}}

Coming == {rest[j].rid : j \in 1..Len(rest)}

Pulling == {"fetch", "merge"}

\* A full pull that nothing has disturbed has merged, or has still to merge,
\* every incident on the pages it fetched, and the last page ends the listing.
PageInv ==
  /\ seen \subseteq Found(0)
  /\ pc = "fetch" => Pulled(page - 1) \subseteq seen
  /\ pc = "merge" =>
       /\ rest \in Seq({Answered(r) : r \in Found(0)})
       /\ Pulled(page) \subseteq seen \cup Coming
       /\ lastPage => Found(0) \subseteq Pulled(page)

PullInv ==
  /\ pc \in Pushing => page = 1 /\ seen = {}
  /\ calm /\ since = 0 /\ pc \in Pulling => PageInv

-----------------------------------------------------------------------------
LEMMA InitServer == Init => ServerInv
<1> SUFFICES ASSUME Init PROVE ServerInv
  OBVIOUS
<1>1. /\ SetToSeq(Seeded) \in Seq(Seeded)
      /\ \A x \in Seeded : \E i \in 1..Len(SetToSeq(Seeded)) : SetToSeq(Seeded)[i] = x
  BY SetToSeqLists, ServerAssumption
<1>2. /\ order = SetToSeq(Seeded) /\ clock = 1
      /\ \A c \in Client : patch[c].pc = "idle"
  BY DEF Init, ServerInit, NoPatch, Patch
<1>3. \A r \in Rid : rows[r].state # "absent" => r \in Seeded /\ rows[r].at = 1
  BY DEF Init, ServerInit, Row, Absent
<1> QED BY <1>1, <1>2, <1>3 DEF ServerInv

\* Writes that neither insert a row nor date one before the clock.
LEMMA ServerKept ==
  ASSUME ServerInv, UNCHANGED order, clock' >= 1,
         \A c \in Client : patch'[c].pc = "read" => patch'[c].at >= 1,
         \A r \in Rid : \/ rows'[r] = rows[r]
                        \/ rows[r].state # "absent" /\ rows'[r].at >= 1
  PROVE  ServerInv'
BY DEF ServerInv

LEMMA PatchesServer ==
  ASSUME ServerTypeOK, ServerInv, NEW c \in Client,
         \/ \E r \in Rid \cup {NoRid}, to \in Status : PatchRead(c, r, to)
         \/ PatchCommit(c) \/ PatchAnswered(c)
  PROVE  ServerInv'
<1>1. ASSUME NEW r \in Rid \cup {NoRid}, NEW to \in Status, PatchRead(c, r, to)
      PROVE  ServerInv'
  <2>1. clock' >= 1
    BY <1>1, StampType DEF PatchRead, ServerInv
  <2>2. \A d \in Client : patch'[d].pc = "read" => patch'[d].at >= 1
    BY <1>1, <2>1 DEF PatchRead, Patch, ServerInv, ServerTypeOK
  <2> QED BY <1>1, <2>1, <2>2, ServerKept DEF PatchRead
<1>2. ASSUME PatchCommit(c)
      PROVE  ServerInv'
  <2> DEFINE p == patch[c]
             hit == Live(p.rid) /\ rows[p.rid].content["status"] = p.from
  <2>1. p.at >= 1 /\ UNCHANGED <<order, clock>>
    BY <1>2 DEF PatchCommit, ServerInv
  <2>2. rows' = IF hit
                THEN [rows EXCEPT ![p.rid] =
                        Row("live", Incident(rows[p.rid].content["text"], p.to), rows[p.rid].owner, p.at)]
                ELSE rows
    BY <1>2 DEF PatchCommit
  <2>3. \A r \in Rid : \/ rows'[r] = rows[r]
                       \/ rows[r].state # "absent" /\ rows'[r].at >= 1
    BY <2>1, <2>2 DEF ServerTypeOK, Row, Live
  <2>4. \A d \in Client : patch'[d].pc = "read" => patch'[d].at >= 1
    BY <1>2 DEF PatchCommit, Patch, ServerInv, ServerTypeOK
  <2>5. clock' >= 1
    BY <2>1 DEF ServerInv
  <2> QED BY <2>1, <2>3, <2>4, <2>5, ServerKept
<1>3. ASSUME PatchAnswered(c)
      PROVE  ServerInv'
  <2>1. \A d \in Client : patch'[d].pc = "read" => patch'[d].at >= 1
    BY <1>3 DEF PatchAnswered, NoPatch, Patch, ServerInv, ServerTypeOK
  <2> QED BY <1>3, <2>1, ServerKept DEF PatchAnswered, ServerInv
<1> QED BY <1>1, <1>2, <1>3

LEMMA RemoveServer ==
  ASSUME ServerTypeOK, ServerInv, NEW r \in Rid, RemoveIncident(r)
  PROVE  ServerInv'
<1>1. clock' >= 1
  BY StampType DEF RemoveIncident
<1>2. \A s \in Rid : \/ rows'[s] = rows[s]
                     \/ rows[s].state # "absent" /\ rows'[s].at >= 1
  BY <1>1 DEF RemoveIncident, Row, Live, ServerTypeOK
<1> QED BY <1>1, <1>2, ServerKept DEF RemoveIncident, ServerInv

LEMMA CreateServer ==
  ASSUME ServerTypeOK, ServerInv, NEW r \in Rid, NEW t, NEW u, Create(r, t, u)
  PROVE  ServerInv'
<1>1. clock' >= 1
  BY StampType DEF Create
<1>2. \A s \in Rid : rows'[s] = IF s = r THEN Row("live", Incident(t, "open"), u, clock') ELSE rows[s]
  BY DEF Create, ServerTypeOK
<1> DEFINE n == Len(order)
<1>3. n \in Nat /\ order \in Seq(Rid) /\ <<r>> \in Seq(Rid) /\ Len(<<r>>) = 1 /\ <<r>>[1] = r
  BY DEF ServerTypeOK
<1>4. order' = <<r>> \o order
  BY DEF Create
<1>5. /\ Len(order') = 1 + n
      /\ \A i \in 1..(1 + n) : order'[i] = IF i <= 1 THEN <<r>>[i] ELSE order[i - 1]
  BY <1>3, <1>4, ConcatProperties
<1> HIDE DEF n
<1>6. /\ 1 \in 1..(1 + n) /\ order'[1] = r
      /\ \A i \in 1..n : i + 1 \in 1..(1 + n) /\ order'[i + 1] = order[i]
  BY <1>3, <1>5
<1>7. \A s \in Rid : rows[s].state # "absent" => \E i \in 1..n : order[i] = s
  BY DEF ServerInv, n
<1>8. \A s \in Rid : rows'[s].state # "absent" => \E i \in 1..(1 + n) : order'[i] = s
  BY <1>2, <1>6, <1>7
<1>9. \A s \in Rid : rows'[s].state # "absent" => rows'[s].at >= 1
  BY <1>1, <1>2 DEF ServerInv, Row
<1>10. \A c \in Client : patch'[c].pc = "read" => patch'[c].at >= 1
  BY DEF Create, ServerInv
<1> QED BY <1>1, <1>5, <1>8, <1>9, <1>10 DEF ServerInv

LEMMA SyncServer ==
  ASSUME ServerTypeOK, ServerInv, NEW items, NEW u \in User, NEW m \in BOOLEAN, Sync(items, u, m),
         DOMAIN items \subseteq Rid, IsFiniteSet(DOMAIN items),
         \A r \in DOMAIN items : items[r] \in Content
  PROVE  ServerInv'
<1>1. clock' >= 1
  BY StampType DEF Sync
<1>2. /\ \A r \in Rid : /\ rows[r].state # "absent" => rows'[r].state = rows[r].state
                        /\ rows[r].state = "absent" /\ rows'[r].state # "absent"
                             => \E i \in 1..Len(order') : order'[i] = r
      /\ \A i \in 1..Len(order) : \E j \in 1..Len(order') : order'[j] = order[i]
  BY SyncTypes
<1>3. \A r \in Rid : rows'[r].state # "absent" => \E i \in 1..Len(order') : order'[i] = r
  BY <1>2 DEF ServerInv
<1>4. \A r \in Rid : rows'[r] = rows[r] \/ rows'[r] = Upserted(r, items[r], u, m, clock')
  BY DEF Sync
<1>5. \A r \in Rid : rows'[r].state # "absent" => rows'[r].at >= 1
  <2> SUFFICES ASSUME NEW r \in Rid, rows'[r].state # "absent"
               PROVE  rows'[r].at >= 1
    OBVIOUS
  <2>1. CASE rows'[r] = rows[r]
    BY <2>1 DEF ServerInv
  <2>2. CASE rows'[r] = Upserted(r, items[r], u, m, clock')
    BY <1>1, <2>2 DEF Upserted, Row
  <2> QED BY <1>4, <2>1, <2>2
<1>6. \A c \in Client : patch'[c].pc = "read" => patch'[c].at >= 1
  BY DEF Sync, ServerInv
<1> QED BY <1>1, <1>3, <1>5, <1>6 DEF ServerInv

LEMMA OthersServer ==
  ASSUME ServerTypeOK, ServerInv, OthersStep
  PROVE  ServerInv'
<1>1. ASSUME NEW r \in Rid, NEW c \in Content, Sync([x \in {r} |-> c], "neighbor", TRUE)
      PROVE  ServerInv'
  <2> DEFINE items == [x \in {r} |-> c]
  <2>1. DOMAIN items = {r} /\ items[r] = c
    OBVIOUS
  <2>2. IsFiniteSet({r})
    BY FS_Singleton
  <2>3. Sync(items, "neighbor", TRUE)
    BY <1>1
  <2> HIDE DEF items
  <2> QED BY <2>1, <2>2, <2>3, SyncServer DEF User
<1>2. ASSUME NEW r \in Rid, NEW to \in Status, PatchRead("web", r, to)
      PROVE  ServerInv'
  BY <1>2, PatchesServer DEF Client
<1>3. CASE PatchCommit("web") \/ PatchAnswered("web")
  BY <1>3, PatchesServer DEF Client
<1>4. ASSUME NEW r \in Rid, NEW t \in Text, Create(r, t, "neighbor")
      PROVE  ServerInv'
  BY <1>4, CreateServer
<1>5. ASSUME NEW r \in Rid, RemoveIncident(r)
      PROVE  ServerInv'
  BY <1>5, RemoveServer
<1> QED BY <1>1, <1>2, <1>3, <1>4, <1>5 DEF OthersStep

LEMMA StepServer ==
  ASSUME TypeInv, TableInv, ServerInv, [Next]_vars
  PROVE  ServerInv'
<1>1. ServerTypeOK /\ TableTypeOK /\ DeskTypeOK
  BY TypeParts
<1>2. ASSUME UNCHANGED serverVars PROVE ServerInv'
  BY <1>2 DEF serverVars, ServerInv
<1>3. ASSUME UNCHANGED <<rows, order>>, clock' >= 1, DOMAIN patch' = Client,
             \A c \in Client : patch'[c].pc = "read" => patch'[c] = patch[c]
      PROVE  ServerInv'
  BY <1>3, ServerKept DEF ServerInv
<1>4. CASE Push
  <2>1. /\ DOMAIN Payload \subseteq Rid /\ IsFiniteSet(DOMAIN Payload)
        /\ \A r \in DOMAIN Payload : Payload[r] \in Content
    BY <1>4, PayloadType DEF Push, TypeInv
  <2> QED BY <1>1, <1>4, <2>1, SyncServer DEF Push, User, Moderates
<1>5. CASE PollStep /\ ~Push
  <2>1. UNCHANGED serverVars
    BY <1>5 DEF PollStep, StartPoll, GiveUp, DropRefused, AssignRemoteId, MarkSynced,
                UpdateBase, FetchPage, MergeRow, NextPage, FinishPull
  <2> QED BY <2>1, <1>2
<1>6. CASE UserStep
  <2>1. ASSUME Stamp \/ UNCHANGED clock PROVE clock' >= 1
    BY <1>1, <2>1, StampType DEF ServerInv
  <2>2. CASE \/ \E t \in Text : CreateLocally(t)
             \/ \E l \in LocalId, t \in Text : EditLocally(l, t)
             \/ \E l \in LocalId : ChangeStatus(l)
    <3>1. UNCHANGED <<rows, order, patch>> /\ Stamp
      BY <2>2 DEF CreateLocally, EditLocally, ChangeStatus
    <3> QED BY <1>1, <1>3, <2>1, <3>1 DEF ServerTypeOK
  <2>3. ASSUME NEW l \in LocalId, DeleteIncident(l)
        PROVE  ServerInv'
    <3>1. CASE remoteId[l] = NoRid
      BY <1>2, <2>3, <3>1 DEF DeleteIncident
    <3>2. CASE remoteId[l] # NoRid
      BY <1>1, <2>3, <3>2, RemoveServer DEF DeleteIncident, TableTypeOK
    <3> QED BY <3>1, <3>2
  <2>4. CASE \/ \E l \in LocalId, a \in BOOLEAN : ResolveConflict(l, a)
             \/ EraseLocally
    BY <1>2, <2>4 DEF ResolveConflict, EraseLocally
  <2>5. CASE SendPatch
    <3>1. remoteId[ui.lid] \in Rid \cup {NoRid}
      BY <1>1, <2>5 DEF SendPatch, DeskTypeOK, CommandInv, TableTypeOK
    <3> QED BY <1>1, <2>5, <3>1, NextStatusType, PatchesServer DEF SendPatch, Client
  <2>6. CASE CommitPatch \/ DropAnswer \/ PatchAccepted
    BY <1>1, <2>6, PatchesServer DEF CommitPatch, DropAnswer, PatchAccepted, Client
  <2>7. CASE LosePatch \/ PatchRefused
    <3>1. /\ UNCHANGED <<rows, order>>
          /\ DOMAIN patch' = Client
          /\ \A c \in Client : patch'[c].pc = "read" => patch'[c] = patch[c]
      <4>1. ~("idle" = "read") /\ NoPatch.pc = "idle"
        BY DEF NoPatch, Patch
      <4>2. DOMAIN patch = Client
        BY <1>1 DEF ServerTypeOK
      <4>3. CASE LosePatch
        BY <4>1, <4>2, <4>3 DEF LosePatch
      <4>4. CASE PatchRefused
        BY <4>1, <4>2, <4>4 DEF PatchRefused
      <4> QED BY <2>7, <4>3, <4>4
    <3>2. Stamp \/ UNCHANGED clock
      BY <2>7 DEF LosePatch, PatchRefused
    <3> QED BY <1>3, <2>1, <3>1, <3>2
  <2> QED BY <1>6, <2>2, <2>3, <2>4, <2>5, <2>6, <2>7 DEF UserStep
<1>7. CASE Restart
  <2>1. /\ UNCHANGED <<rows, order, clock>>
        /\ DOMAIN patch' = Client
        /\ \A c \in Client : patch'[c].pc = "read" => patch'[c] = patch[c]
    BY <1>1, <1>7 DEF Restart, ServerTypeOK, NoPatch, Patch
  <2> QED BY <1>3, <2>1 DEF ServerInv
<1>8. CASE Others
  BY <1>1, <1>8, OthersServer DEF Others
<1>9. CASE UNCHANGED vars
  BY <1>2, <1>9 DEF vars, serverVars
<1> QED BY <1>4, <1>5, <1>6, <1>7, <1>8, <1>9 DEF Next
-----------------------------------------------------------------------------
\* The n-th page has what the first n pages have and the pages before have not;
\* a page that is not full ends the listing.
LEMMA PagePulls ==
  ASSUME ServerTypeOK, ServerInv, NEW n \in Nat \ {0}
  PROVE  /\ Page(n, 0) \in Seq({Answered(r) : r \in Found(0)})
         /\ Pulled(n) \subseteq Pulled(n - 1) \cup {Page(n, 0)[j].rid : j \in 1..Len(Page(n, 0))}
         /\ Len(Page(n, 0)) < PageSize => Found(0) \subseteq Pulled(n)
<1> DEFINE M == Matching(0)
           lo == (n - 1) * PageSize
           top == n * PageSize
           N == Len(M)
           got == {Page(n, 0)[j].rid : j \in 1..Len(Page(n, 0))}
<1>1. order \in Seq(Rid) /\ lo \in Nat /\ top \in Nat
  BY ServerAssumption DEF ServerTypeOK
<1>2. /\ Page(n, 0) \in Seq({Answered(r) : r \in Found(0)})
      /\ \A p \in 1..N : lo < p /\ p <= top
           => \E j \in 1..Len(Page(n, 0)) : Page(n, 0)[j].rid = M[p]
      /\ Len(Page(n, 0)) < PageSize => N <= top
  BY <1>1, PageLists
<1>3. /\ N \in Nat
      /\ \A i \in 1..Len(order) : Live(order[i]) /\ rows[order[i]].at > 0
                                    => \E p \in 1..N : M[p] = order[i]
  <2>1. /\ M \in Seq({r \in Rid : Live(r) /\ rows[r].at > 0})
        /\ \A i \in 1..Len(order) : Live(order[i]) /\ rows[order[i]].at > 0
                                      => \E p \in 1..N : M[p] = order[i]
    BY <1>1, MatchingLists
  <2> HIDE DEF M
  <2>2. N \in Nat
    BY <2>1
  <2> QED BY <2>1, <2>2
<1>4. /\ Pulled(n) = {M[p] : p \in {q \in 1..N : q <= top}}
      /\ Pulled(n - 1) = {M[p] : p \in {q \in 1..N : q <= lo}}
  BY DEF Pulled
<1> HIDE DEF M, N, lo, top
<1>5. Pulled(n) \subseteq Pulled(n - 1) \cup got
  <2> SUFFICES ASSUME NEW p \in 1..N, p <= top, ~(p <= lo)
               PROVE  M[p] \in got
    BY <1>4
  <2>1. lo < p
    BY <1>1, <1>3
  <2> QED BY <1>2, <2>1
<1>6. ASSUME Len(Page(n, 0)) < PageSize, NEW r \in Found(0)
      PROVE  r \in Pulled(n)
  <2>1. Live(r) /\ rows[r].at > 0 /\ r \in Rid
    BY DEF Found
  <2>2. PICK i \in 1..Len(order) : order[i] = r
    BY <2>1 DEF ServerInv, Live
  <2>3. PICK p \in 1..N : M[p] = r
    BY <1>3, <2>1, <2>2
  <2>4. p <= top
    BY <1>1, <1>2, <1>3, <1>6
  <2> QED BY <1>4, <2>3, <2>4
<1> QED BY <1>2, <1>5, <1>6

\* A step that leaves the rows and the poll alone.
LEMMA PullKept ==
  ASSUME PullInv, UNCHANGED <<rows, order, pollVars, since>>, calm' => calm
  PROVE  PullInv'
<1>1. Matching(0)' = Matching(0) /\ Found(0)' = Found(0)
  BY DEF Matching, Found, Live
<1>2. {Answered(r) : r \in Found(0)}' = {Answered(r) : r \in Found(0)}
  BY DEF Answered, Found, Live
<1>3. \A n \in {page, page - 1} : Pulled(n)' = Pulled(n)
  BY <1>1 DEF Pulled
<1>4. PageInv => PageInv'
  BY <1>1, <1>2, <1>3 DEF PageInv, Coming, pollVars
<1> QED BY <1>4 DEF PullInv, pollVars

LEMMA FetchPagePulls ==
  ASSUME TypeInv, ServerInv, PullInv, FetchPage
  PROVE  PullInv'
<1>1. ServerTypeOK /\ page \in Nat \ {0}
  BY TypeParts, SyncAssumption DEF PollTypeOK
<1>2. /\ UNCHANGED <<rows, order, since, seen, page, calm>> /\ pc' = "merge" /\ pc = "fetch"
      /\ rest' = Page(page, since) /\ lastPage' = (Len(rest') < PageSize)
  BY DEF FetchPage, serverVars
<1>3. ASSUME calm, since = 0 PROVE PageInv'
  <2>1. seen \subseteq Found(0) /\ Pulled(page - 1) \subseteq seen
    BY <1>2, <1>3 DEF PullInv, PageInv, Pulling
  <2>2. /\ rest' \in Seq({Answered(r) : r \in Found(0)})
        /\ Pulled(page) \subseteq seen \cup {rest'[j].rid : j \in 1..Len(rest')}
        /\ lastPage' => Found(0) \subseteq Pulled(page)
    <3>1. rest' = Page(page, 0)
      BY <1>2, <1>3
    <3>2. ServerInv
      OBVIOUS
    <3>3. /\ Page(page, 0) \in Seq({Answered(r) : r \in Found(0)})
          /\ Pulled(page) \subseteq Pulled(page - 1) \cup {Page(page, 0)[j].rid : j \in 1..Len(Page(page, 0))}
          /\ Len(Page(page, 0)) < PageSize => Found(0) \subseteq Pulled(page)
      BY <1>1, <3>2, PagePulls
    <3> QED BY <1>2, <2>1, <3>1, <3>3
  <2>3. Matching(0)' = Matching(0) /\ Found(0)' = Found(0)
    BY <1>2 DEF Matching, Found, Live
  <2>4. {Answered(r) : r \in Found(0)}' = {Answered(r) : r \in Found(0)}
    BY <1>2 DEF Answered, Found, Live
  <2>5. Pulled(page)' = Pulled(page)
    BY <1>2, <2>3 DEF Pulled
  <2> QED BY <1>2, <2>1, <2>2, <2>3, <2>4, <2>5 DEF PageInv, Coming
<1> QED BY <1>2, <1>3 DEF PullInv, Pushing

LEMMA MergeRowPulls ==
  ASSUME TypeInv, PullInv, MergeRow
  PROVE  PullInv'
<1>1. /\ UNCHANGED <<rows, order, since, page, pc, lastPage, calm>> /\ pc = "merge"
      /\ rest # <<>> /\ rest' = Tail(rest) /\ seen' = seen \cup {Head(rest).rid}
  BY DEF MergeRow, serverVars
<1>2. ASSUME calm, since = 0 PROVE PageInv'
  <2> DEFINE T == {Answered(r) : r \in Found(0)}
  <2>1. PageInv
    BY <1>1, <1>2 DEF PullInv, Pulling
  <2>2. rest \in Seq(T)
    BY <1>1, <2>1 DEF PageInv
  <2>3. Head(rest) \in T
    BY <1>1, <2>2
  <2>4. Head(rest).rid \in Found(0)
    <3>1. PICK r \in Found(0) : Head(rest) = Answered(r)
      BY <2>3
    <3> QED BY <3>1 DEF Answered
  <2> HIDE DEF T
  <2>5. /\ rest' \in Seq(T) /\ Len(rest') = Len(rest) - 1 /\ Len(rest) \in Nat
        /\ \A j \in 1..Len(rest') : rest'[j] = rest[j + 1]
    BY <1>1, <2>2
  <2>6. Coming \subseteq Coming' \cup {Head(rest).rid}
    <3> SUFFICES ASSUME NEW j \in 1..Len(rest), rest[j].rid # Head(rest).rid
                 PROVE  \E k \in 1..Len(rest') : rest'[k].rid = rest[j].rid
      BY DEF Coming
    <3>1. j # 1
      BY <1>1
    <3>2. j - 1 \in 1..Len(rest') /\ rest'[j - 1] = rest[j]
      BY <2>5, <3>1
    <3> QED BY <3>2
  <2>7. Matching(0)' = Matching(0) /\ Found(0)' = Found(0)
    BY <1>1 DEF Matching, Found, Live
  <2>8. {Answered(r) : r \in Found(0)}' = {Answered(r) : r \in Found(0)}
    BY <1>1 DEF Answered, Found, Live
  <2>9. Pulled(page)' = Pulled(page)
    BY <1>1, <2>7 DEF Pulled
  <2>10. seen' \subseteq Found(0) /\ Pulled(page) \subseteq seen' \cup Coming'
    BY <1>1, <2>1, <2>4, <2>6 DEF PageInv
  <2> QED BY <1>1, <2>1, <2>5, <2>7, <2>8, <2>9, <2>10 DEF PageInv, T
<1> QED BY <1>1, <1>2 DEF PullInv, Pushing

LEMMA NextPagePulls ==
  ASSUME TypeInv, PullInv, NextPage
  PROVE  PullInv'
<1>1. /\ UNCHANGED <<rows, order, since, seen, calm>> /\ pc = "merge" /\ pc' = "fetch"
      /\ rest = <<>> /\ page' = page + 1 /\ page \in Nat
  BY TypeParts, SyncAssumption DEF NextPage, serverVars, PollTypeOK
<1>2. ASSUME calm, since = 0 PROVE PageInv'
  <2>1. PageInv
    BY <1>1, <1>2 DEF PullInv, Pulling
  <2>2. Coming = {}
    BY <1>1 DEF Coming
  <2>3. Pulled(page) \subseteq seen /\ seen \subseteq Found(0)
    BY <1>1, <2>1, <2>2 DEF PageInv
  <2>4. Matching(0)' = Matching(0) /\ Found(0)' = Found(0)
    BY <1>1 DEF Matching, Found, Live
  <2>5. Pulled(page' - 1) = Pulled(page)
    BY <1>1
  <2>6. Pulled(page - 1)' = Pulled(page)
    BY <1>1, <2>4, <2>5 DEF Pulled
  <2> QED BY <1>1, <2>3, <2>4, <2>6 DEF PageInv
<1> QED BY <1>1, <1>2 DEF PullInv, Pushing

\* A poll begins to pull with the first page and nothing seen.
LEMMA PullBegins ==
  ASSUME ServerAssumption, PageSize \in Nat, page' = 1, seen' = {}, pc' = "fetch"
  PROVE  PullInv'
<1>1. Pulled(page - 1)' = {}
  <2>1. page' - 1 = 0
    OBVIOUS
  <2>2. \A q \in 1..Len(Matching(0)') : ~(q <= 0 * PageSize)
    OBVIOUS
  <2> QED BY <2>1, <2>2 DEF Pulled
<1> QED BY <1>1 DEF PullInv, PageInv, Pushing

LEMMA StepPulls ==
  ASSUME TypeInv, TableInv, ServerInv, PullInv, [Next]_vars
  PROVE  PullInv'
<1>1. PageSize \in Nat
  BY ServerAssumption
<1>2. ASSUME calm' = FALSE, pc' \in Pushing => pc \in Pushing /\ UNCHANGED <<page, seen>>
      PROVE  PullInv'
  BY <1>2 DEF PullInv
<1>3. CASE StartPoll
  <2>1. page' = 1 /\ seen' = {} /\ pc' \in {"fetch", "push"}
    BY <1>3 DEF StartPoll
  <2>2. CASE pc' = "fetch"
    BY <1>1, <2>1, <2>2, PullBegins, ServerAssumption
  <2>3. CASE pc' = "push"
    BY <2>1, <2>3 DEF PullInv, Pulling
  <2> QED BY <2>1, <2>2, <2>3
<1>4. ASSUME Push \/ \E l \in LocalId : DropRefused(l) \/ AssignRemoteId(l) \/ MarkSynced(l) \/ UpdateBase(l)
      PROVE  PullInv'
  <2>1. pc \in Pushing /\ UNCHANGED <<page, seen>> /\ pc' \in {"answer", "mark", "base", "fetch"}
    BY <1>4 DEF Push, DropRefused, AssignRemoteId, MarkSynced, UpdateBase, Done, Pushing
  <2>2. page = 1 /\ seen = {}
    BY <2>1 DEF PullInv
  <2>3. CASE pc' = "fetch"
    BY <1>1, <2>1, <2>2, <2>3, PullBegins, ServerAssumption
  <2>4. CASE pc' # "fetch"
    BY <2>1, <2>2, <2>4 DEF PullInv, Pulling
  <2> QED BY <2>3, <2>4
<1>5. CASE GiveUp \/ FinishPull \/ Restart
  BY <1>2, <1>5 DEF GiveUp, FinishPull, Restart, EndPoll, Pushing
<1>6. CASE FetchPage \/ MergeRow \/ NextPage
  BY <1>6, FetchPagePulls, MergeRowPulls, NextPagePulls
<1>7. CASE UserStep
  <2>1. CASE SendPatch \/ DropAnswer
    BY <2>1, PullKept DEF SendPatch, PatchRead, DropAnswer, PatchAnswered
  <2>2. CASE ~(SendPatch \/ DropAnswer)
    <3>1. calm' = FALSE /\ UNCHANGED pollVars
      BY <1>7, <2>2 DEF UserStep, CreateLocally, EditLocally, ChangeStatus, DeleteIncident,
         ResolveConflict, CommitPatch, LosePatch, PatchAccepted, PatchRefused, EraseLocally, Touch
    <3> QED BY <1>2, <3>1 DEF pollVars
  <2> QED BY <2>1, <2>2
<1>8. CASE Others
  BY <1>2, <1>8 DEF Others, pollVars
<1>9. CASE UNCHANGED vars
  BY <1>9, PullKept DEF vars, serverVars
<1> QED BY <1>3, <1>4, <1>5, <1>6, <1>7, <1>8, <1>9 DEF Next, PollStep

LEMMA PullInvariant == Spec => [](TypeInv /\ TableInv /\ ServerInv /\ PullInv)
<1>1. Init => TypeInv /\ ServerInv /\ PullInv
  BY InitTypes, InitServer DEF Init, PullInv, Pushing
<1>2. TypeInv /\ TableInv /\ ServerInv /\ PullInv /\ [Next]_vars
        => TypeInv' /\ ServerInv' /\ PullInv'
  BY StepTypes, StepServer, StepPulls
<1> QED BY <1>1, <1>2, TableInvariant, PTL DEF Spec

\* A complete full pull that nothing disturbed has seen every incident of the
\* server: a pull only tombstones incidents that the server has deleted.
THEOREM OrphansOnly == Spec => OrphansAreDeleted
<1> DEFINE Gone == \A l \in LocalId :
                     LiveLocally(l) /\ state'[l] = "tomb" /\ pc = "merge" /\ pc' = "idle" /\ calm
                       => ~Live(remoteId[l])
<1>1. ASSUME TypeInv, ServerInv, PullInv, [Next]_vars
      PROVE  Gone
  <2> SUFFICES ASSUME NEW l \in LocalId, LiveLocally(l), state'[l] = "tomb",
                      pc = "merge", pc' = "idle", calm
               PROVE  ~Live(remoteId[l])
    OBVIOUS
  <2>1. state' # state
    BY DEF LiveLocally
  <2>2. FinishPull
    BY <1>1, <2>1 DEF Next, PollStep, StartPoll, Push, GiveUp, DropRefused, AssignRemoteId, MarkSynced,
       UpdateBase, FetchPage, MergeRow, NextPage, UserStep, CreateLocally, EditLocally, ChangeStatus,
       DeleteIncident, ResolveConflict, SendPatch, CommitPatch, LosePatch, DropAnswer, PatchAccepted,
       PatchRefused, EraseLocally, Restart, Others, vars, tableVars, pollVars
  <2>3. CompleteFullPull /\ Orphan(l)
    BY <2>1, <2>2 DEF FinishPull, LiveLocally
  <2>4. PageInv /\ rest = <<>> /\ lastPage
    BY <1>1, <2>2, <2>3 DEF FinishPull, CompleteFullPull, PullInv, Pulling
  <2>5. Coming = {}
    BY <2>4 DEF Coming
  <2>6. Found(0) \subseteq seen
    BY <2>4, <2>5 DEF PageInv
  <2>7. remoteId[l] \in Rid /\ remoteId[l] \notin seen
    BY <2>3, TypeParts, <1>1 DEF Orphan, TableTypeOK
  <2>8. Live(remoteId[l]) => rows[remoteId[l]].at > 0
    BY <1>1, <2>7, TypeParts DEF ServerInv, Live, ServerTypeOK
  <2> QED BY <2>6, <2>7, <2>8 DEF Found
<1>2. TypeInv /\ TableInv /\ ServerInv /\ PullInv /\ [Next]_vars => [Gone]_vars
  BY <1>1
<1> QED BY <1>2, PullInvariant, PTL DEF Spec, OrphansAreDeleted

-----------------------------------------------------------------------------
(* A full pull.                                                            *)

\* t is a later status than s, or s itself.
Later(s, t) == (s = "open" /\ t \in {"in_progress", "resolved"}) \/ (s = "in_progress" /\ t = "resolved")

Within(s, t) == s = t \/ Later(s, t)

\* What a row without unsent edits is to its base and to the status that the
\* server has: a change of status that the server took is not in the base.
Tracks(i, status) ==
  /\ i.base # NoContent
  /\ i.content["text"] = i.base["text"]
  /\ \/ i.content["status"] = i.base["status"]
     \/ /\ Later(i.base["status"], i.content["status"])
        /\ Within(i.content["status"], status)

\* A row in conflict stays in conflict until the user resolves it: the server
\* went on to the last status.
Stuck(i, status) ==
  /\ i.base # NoContent
  /\ i.base["status"] = "open" /\ i.content["status"] = "in_progress" /\ status = "resolved"

StatusOf(r) == rows[r].content["status"]

Steady(l) == l \notin torn /\ LiveLocally(l)

\* The row between markSynced and updateBase.
Halfway(l) == pc = "base" /\ Turn(l)

Unsent(l) == pc \in Pushing /\ l \in DOMAIN batch

\* A row of the table by what it has still to learn from the server, or to send:
\* in conflict, clean, or dirty; and during a push, as the push read it.
RowInv(l) ==
  Steady(l) =>
    /\ inc[l].conflict => remoteId[l] # NoRid /\ Stuck(inc[l], StatusOf(remoteId[l]))
    /\ ~inc[l].conflict /\ ~inc[l].dirty /\ ~Halfway(l)
         => remoteId[l] # NoRid /\ Tracks(inc[l], StatusOf(remoteId[l]))
    /\ ~inc[l].conflict /\ inc[l].dirty /\ pc # "idle" => Unsent(l)
    /\ Unsent(l) => /\ ~inc[l].conflict /\ inc[l].content = batch[l].content
                    /\ inc[l].dirty <=> ~Halfway(l)
                    /\ pc \in {"mark", "base"} /\ Turn(l) => remoteId[l] # NoRid

\* The page to merge is as old as its fetch, and no status was behind it then.
RestInv ==
  pc = "merge" => \A j \in 1..Len(rest) :
    /\ Within(rest[j].content["status"], StatusOf(rest[j].rid))
    /\ \A k \in 1..Len(rest) : rest[k].rid = rest[j].rid => rest[k] = rest[j]
    /\ \A l \in LocalId : Steady(l) /\ remoteId[l] = rest[j].rid =>
         IF inc[l].conflict THEN Stuck(inc[l], rest[j].content["status"])
                            ELSE Tracks(inc[l], rest[j].content["status"])

\* A change of status that waits for the server, on a row that nothing else touched.
Waits(l, was, to, sent) ==
  /\ pc = "idle"
  /\ remoteId[l] # NoRid
  /\ ~was.conflict /\ was.content["status"] # "resolved"
  /\ inc[l] = Columns(Incident(was.content["text"], to), TRUE, FALSE, ui.at, was.base, was.remote)
  /\ ~was.dirty => Tracks(was, StatusOf(remoteId[l]))
  /\ sent.pc \in {"read", "ok"} => sent.rid = remoteId[l] /\ sent.to = to
  /\ sent.pc = "ok" => Within(to, StatusOf(remoteId[l]))

WaitInv ==
  ui.do = "patch" /\ ui.lid \notin torn =>
    Waits(ui.lid, ui.before, NextStatus(ui.before.content["status"]), patch["desktop"])

OpenInv == \A r \in Rid : rows[r].state = "absent" => StatusOf(r) = "open"

\* What an undisturbed full pull has merged is as the server has it.
MergedInv ==
  calm /\ since = 0 /\ pc \in Pulling => \A r \in seen :
    /\ Known(r) # {}
    /\ \A l \in LocalId : Steady(l) /\ ~inc[l].conflict /\ remoteId[l] = r
         => inc[l].content = rows[r].content

SteadyInv ==
  /\ skipped = {}
  /\ \A l \in LocalId : RowInv(l)
  /\ RestInv
  /\ WaitInv

ConvInv == Moderates => SteadyInv /\ MergedInv

\* The statuses are in an order, which the server follows.
LEMMA Aging ==
  ASSUME NEW s, NEW t, NEW u, Within(s, t), Within(t, u)
  PROVE  Within(s, u)
BY DEF Within, Later

LEMMA TracksOn ==
  ASSUME NEW i, NEW s, NEW t, Within(s, t)
  PROVE  /\ Tracks(i, s) => Tracks(i, t)
         /\ Stuck(i, s) => Stuck(i, t)
BY Aging DEF Tracks, Stuck, Within, Later

\* A pulled row against a row that tracks the server: the row becomes the pulled
\* one, or the user's status and the server's are two steps apart.
LEMMA TracksMerge ==
  ASSUME NEW i \in LocalRow, NEW x \in [rid : Rid, content : Content, at : 0..MaxClock],
         Tracks(i, x.content["status"])
  PROVE  LET m == ApplyMerge(i, x)
         IN  \/ m.conflict /\ Stuck(m, x.content["status"])
             \/ ~m.conflict /\ ~m.dirty /\ m.content = x.content /\ m.base = x.content
<1> DEFINE m == Merge(i.base, i.content, x.content)
           s == x.content["status"]
<1>1. i.base # NoContent /\ i.base \in Content /\ i.content \in Content /\ x.content \in Content
  BY DEF Tracks, LocalRow, Snapshot
<1>2. CASE HasConflict(i.base, i.content, x.content)
  <2>1. InConflict(i.base["status"], i.content["status"], s)
    BY <1>2 DEF HasConflict, InConflict, Field, Tracks
  <2>2. Stuck(i, s)
    BY <1>1, <2>1 DEF InConflict, Stuck, Tracks, Within, Later
  <2>3. ApplyMerge(i, x) = Columns(i.content, i.dirty, TRUE, x.at, i.base, x.content)
    BY <1>1, <1>2 DEF ApplyMerge, FlagConflict
  <2> QED BY <2>2, <2>3 DEF Columns, Stuck
<1>3. CASE ~HasConflict(i.base, i.content, x.content)
  <2>1. ApplyMerge(i, x) = Columns(m, FALSE, FALSE, x.at, m, i.remote)
    BY <1>1, <1>3 DEF ApplyMerge, CleanMerge
  <2>2. m["text"] = x.content["text"]
    BY DEF Merge, ResolveField, Field, Tracks
  <2>3. ~InConflict(i.base["status"], i.content["status"], s)
    BY <1>3 DEF HasConflict, Field
  <2>4. m["status"] = s
    BY <2>3 DEF Merge, ResolveField, Field, Tracks, InConflict, Within, Later
  <2>5. m = x.content
    <3>1. DOMAIN m = Field /\ DOMAIN x.content = Field
      BY <1>1 DEF Merge, Content
    <3>2. m = [f \in Field |-> m[f]] /\ x.content = [f \in Field |-> x.content[f]]
      BY <1>1, <3>1 DEF Merge, Content
    <3>3. \A f \in Field : m[f] = x.content[f]
      BY <2>2, <2>4 DEF Field
    <3> HIDE DEF m
    <3> QED BY <3>2, <3>3
  <2> HIDE DEF m
  <2> QED BY <2>1, <2>5 DEF Columns
<1> QED BY <1>2, <1>3

LEMMA StuckMerge ==
  ASSUME NEW i, NEW x, Stuck(i, x.content["status"])
  PROVE  LET m == ApplyMerge(i, x)
         IN  m.conflict /\ Stuck(m, x.content["status"])
<1>1. HasConflict(i.base, i.content, x.content)
  BY DEF Stuck, HasConflict, InConflict, Field
<1>2. ApplyMerge(i, x) = Columns(i.content, i.dirty, TRUE, x.at, i.base, x.content)
  BY <1>1 DEF Stuck, ApplyMerge, FlagConflict
<1> QED BY <1>2 DEF Columns, Stuck

-----------------------------------------------------------------------------
\* An incident that does not exist yet is open for what a desktop may know of it.
LEMMA StepOpens ==
  ASSUME ServerTypeOK, [Next]_vars
  PROVE  \A r \in Rid : rows'[r].state = "absent" => rows'[r] = rows[r]
<1> DEFINE Kept == \A r \in Rid : rows'[r].state = "absent" => rows'[r] = rows[r]
<1>1. ASSUME NEW r, NEW t, NEW u, Create(r, t, u)
      PROVE  Kept
  BY <1>1 DEF Create, Row, ServerTypeOK
<1>2. ASSUME NEW c, PatchCommit(c)
      PROVE  Kept
  <2> DEFINE p == patch[c]
             hit == Live(p.rid) /\ rows[p.rid].content["status"] = p.from
  <2>1. rows' = IF hit
                THEN [rows EXCEPT ![p.rid] =
                        Row("live", Incident(rows[p.rid].content["text"], p.to), rows[p.rid].owner, p.at)]
                ELSE rows
    BY <1>2 DEF PatchCommit
  <2> HIDE DEF hit
  <2> QED BY <2>1 DEF Row, ServerTypeOK
<1>3. ASSUME NEW r, RemoveIncident(r)
      PROVE  Kept
  BY <1>3 DEF RemoveIncident, Row, ServerTypeOK
<1>4. ASSUME NEW items, NEW u, NEW m, Sync(items, u, m)
      PROVE  Kept
  <2> SUFFICES ASSUME NEW r \in Rid, rows'[r].state = "absent"
               PROVE  rows'[r] = rows[r]
    OBVIOUS
  <2>1. rows'[r] = rows[r] \/ rows'[r] = Upserted(r, items[r], u, m, clock')
    BY <1>4 DEF Sync
  <2>2. CASE rows'[r] = Upserted(r, items[r], u, m, clock')
    BY <2>2 DEF Upserted, Row
  <2> QED BY <2>1, <2>2
<1>5. CASE rows' = rows
  BY <1>5
<1>6. CASE Push
  BY <1>4, <1>6 DEF Push
<1>7. CASE PollStep /\ ~Push
  <2>1. UNCHANGED serverVars
    BY <1>7 DEF PollStep, StartPoll, GiveUp, DropRefused, AssignRemoteId, MarkSynced,
                UpdateBase, FetchPage, MergeRow, NextPage, FinishPull
  <2> QED BY <1>5, <2>1 DEF serverVars
<1>8. CASE UserStep
  <2>1. CASE CommitPatch
    BY <1>2, <2>1 DEF CommitPatch
  <2>2. ASSUME NEW l \in LocalId, DeleteIncident(l)
        PROVE  Kept
    BY <1>3, <1>5, <2>2 DEF DeleteIncident, serverVars
  <2>3. CASE ~CommitPatch /\ ~(\E l \in LocalId : DeleteIncident(l))
    <3>1. rows' = rows
      BY <1>8, <2>3 DEF UserStep, CreateLocally, EditLocally, ChangeStatus, ResolveConflict,
         SendPatch, PatchRead, LosePatch, DropAnswer, PatchAccepted, PatchAnswered, PatchRefused,
         EraseLocally, serverVars
    <3> QED BY <1>5, <3>1
  <2> QED BY <2>1, <2>2, <2>3
<1>9. CASE Restart \/ UNCHANGED vars
  BY <1>5, <1>9 DEF Restart, vars, serverVars
<1>10. CASE Others
  <2>1. CASE \E r \in Rid, to \in Status : PatchRead("web", r, to)
    BY <1>5, <2>1 DEF PatchRead
  <2>2. CASE PatchAnswered("web")
    BY <1>5, <2>2 DEF PatchAnswered
  <2>3. CASE \E r \in Rid, t \in Text : Create(r, t, "neighbor")
    BY <1>1, <2>3
  <2>4. CASE \E r \in Rid, c \in Content : Live(r) /\ Sync([x \in {r} |-> c], "neighbor", TRUE)
    BY <1>4, <2>4
  <2> QED BY <1>2, <1>3, <1>10, <2>1, <2>2, <2>3, <2>4 DEF Others, OthersStep
<1> QED BY <1>6, <1>7, <1>8, <1>9, <1>10 DEF Next

LEMMA StepAges ==
  ASSUME ServerTypeOK, ServerTypeOK', PatchInv, OpenInv, [Next]_vars
  PROVE  /\ OpenInv'
         /\ \A r \in Rid : Within(StatusOf(r), rows'[r].content["status"])
<1>1. OpenInv'
  BY StepOpens DEF OpenInv, StatusOf
<1>2. ASSUME NEW r \in Rid
      PROVE  Within(StatusOf(r), rows'[r].content["status"])
  <2>1. CASE rows[r].state # "absent"
    BY <2>1, StepAdvances DEF Advances, Within, Later, StatusOf, Transition
  <2>2. CASE rows[r].state = "absent"
    <3>1. StatusOf(r) = "open"
      BY <2>2 DEF OpenInv
    <3>2. rows'[r].content["status"] \in Status
      BY IncidentType DEF ServerTypeOK
    <3> QED BY <3>1, <3>2 DEF Within, Later, Status
  <2> QED BY <2>1, <2>2
<1> QED BY <1>1, <1>2
-----------------------------------------------------------------------------
(* The rows of the table.                                                  *)

\* The server's statuses are those before the step, or later ones.
Aged == \A r \in Rid : Within(StatusOf(r), rows'[r].content["status"])

LEMMA Untouched ==
  ASSUME UNCHANGED rows
  PROVE  Aged
BY DEF Aged, StatusOf, Within

\* A step that does not write the row, and that leaves it in the batch or out of it.
LEMMA RowKept ==
  ASSUME TableTypeOK, NEW l \in LocalId, RowInv(l), Aged,
         state'[l] = state[l], inc'[l] = inc[l], remoteId'[l] = remoteId[l], torn \subseteq torn',
         Halfway(l) => Halfway(l)' \/ l \in torn',
         pc' # "idle" => pc # "idle" /\ (Unsent(l) => Unsent(l)'),
         Unsent(l)' => /\ Unsent(l) /\ batch'[l] = batch[l]
                       /\ Halfway(l)' => Halfway(l)
                       /\ pc' \in {"mark", "base"} /\ Turn(l)' => pc \in {"mark", "base"} /\ Turn(l)
  PROVE  RowInv(l)'
<1> SUFFICES ASSUME Steady(l)' PROVE RowInv(l)'
  BY DEF RowInv
<1>1. Steady(l)
  BY DEF Steady, LiveLocally
<1>2. l \notin torn'
  BY DEF Steady
<1> DEFINE s == StatusOf(remoteId[l])
           t == rows'[remoteId[l]].content["status"]
<1>3. StatusOf(remoteId[l])' = t
  BY DEF StatusOf
<1>4. remoteId[l] # NoRid => Within(s, t)
  BY DEF Aged, TableTypeOK
<1>5. inc[l].conflict => remoteId[l] # NoRid /\ Stuck(inc[l], t)
  BY <1>1, <1>4, TracksOn DEF RowInv
<1>6. ~inc[l].conflict /\ ~inc[l].dirty /\ ~Halfway(l) => remoteId[l] # NoRid /\ Tracks(inc[l], t)
  BY <1>1, <1>4, TracksOn DEF RowInv
<1>7. (inc[l].conflict => remoteId[l] # NoRid /\ Stuck(inc[l], StatusOf(remoteId[l])))'
  BY <1>3, <1>5
<1>8. (~inc[l].conflict /\ ~inc[l].dirty /\ ~Halfway(l)
         => remoteId[l] # NoRid /\ Tracks(inc[l], StatusOf(remoteId[l])))'
  BY <1>2, <1>3, <1>6
<1>9. (~inc[l].conflict /\ inc[l].dirty /\ pc # "idle" => Unsent(l))'
  BY <1>1 DEF RowInv
<1>10. (Unsent(l) => /\ ~inc[l].conflict /\ inc[l].content = batch[l].content
                     /\ inc[l].dirty <=> ~Halfway(l)
                     /\ pc \in {"mark", "base"} /\ Turn(l) => remoteId[l] # NoRid)'
  BY <1>1, <1>2 DEF RowInv
<1> QED BY <1>7, <1>8, <1>9, <1>10 DEF RowInv

\* A row that the user touched while a poll was going on.
LEMMA RowTorn ==
  ASSUME NEW l, l \in torn' \/ state'[l] # "live"
  PROVE  RowInv(l)'
BY DEF RowInv, Steady, LiveLocally

\* A row outside a poll: in conflict, dirty, or tracking the server.
LEMMA RowIdle ==
  ASSUME NEW l, pc' = "idle",
         inc'[l].conflict => remoteId'[l] # NoRid /\ Stuck(inc'[l], rows'[remoteId'[l]].content["status"]),
         ~inc'[l].conflict /\ ~inc'[l].dirty
           => remoteId'[l] # NoRid /\ Tracks(inc'[l], rows'[remoteId'[l]].content["status"])
  PROVE  RowInv(l)'
<1>1. ~Unsent(l)' /\ ~Halfway(l)'
  BY DEF Unsent, Halfway, Pushing
<1>2. (inc[l].conflict => remoteId[l] # NoRid /\ Stuck(inc[l], StatusOf(remoteId[l])))'
  BY DEF StatusOf
<1>3. (~inc[l].conflict /\ ~inc[l].dirty
         => remoteId[l] # NoRid /\ Tracks(inc[l], StatusOf(remoteId[l])))'
  BY DEF StatusOf
<1> QED BY <1>1, <1>2, <1>3 DEF RowInv

LEMMA OneTurn ==
  ASSUME DOMAIN batch \subseteq LocalId, NEW k, NEW l, Turn(k), Turn(l)
  PROVE  k = l
<1>1. k \in Int /\ l \in Int /\ k <= l /\ l <= k
  BY DEF Turn, LocalId
<1> QED BY <1>1

LEMMA StartPollRows ==
  ASSUME TypeInv, NEW l \in LocalId, RowInv(l), StartPoll
  PROVE  RowInv(l)'
<1>1. /\ UNCHANGED <<rows, state, inc, remoteId>> /\ pc = "idle" /\ torn \subseteq torn'
      /\ batch' = [k \in Dirty |-> inc[k]] /\ pc' = IF Dirty = {} THEN "fetch" ELSE "push"
  BY DEF StartPoll, serverVars, tableVars
<1>2. ~Halfway(l) /\ ~Halfway(l)'
  BY <1>1 DEF Halfway
<1>3. Unsent(l)' <=> l \in Dirty
  BY <1>1 DEF Unsent, Pushing
<1> SUFFICES ASSUME Steady(l)' PROVE RowInv(l)'
  BY DEF RowInv
<1>4. Steady(l)
  BY <1>1 DEF Steady, LiveLocally
<1>5. l \in Dirty <=> inc[l].dirty /\ ~inc[l].conflict
  BY <1>4 DEF Dirty, Steady
<1>6. l \in Dirty => batch'[l] = inc[l]
  BY <1>1
<1>7. StatusOf(remoteId[l])' = StatusOf(remoteId[l])
  BY <1>1 DEF StatusOf
<1>8. (inc[l].conflict => remoteId[l] # NoRid /\ Stuck(inc[l], StatusOf(remoteId[l])))'
  BY <1>1, <1>4, <1>7 DEF RowInv
<1>9. (~inc[l].conflict /\ ~inc[l].dirty
         => remoteId[l] # NoRid /\ Tracks(inc[l], StatusOf(remoteId[l])))'
  BY <1>1, <1>2, <1>4, <1>7 DEF RowInv
<1>10. (~inc[l].conflict /\ inc[l].dirty /\ pc # "idle" => Unsent(l))'
  BY <1>1, <1>3, <1>5
<1>11. (Unsent(l) => /\ ~inc[l].conflict /\ inc[l].content = batch[l].content
                     /\ inc[l].dirty <=> ~Halfway(l)
                     /\ pc \in {"mark", "base"} /\ Turn(l) => remoteId[l] # NoRid)'
  BY <1>1, <1>2, <1>3, <1>5, <1>6
<1> QED BY <1>8, <1>9, <1>10, <1>11 DEF RowInv

LEMMA PushRows ==
  ASSUME TypeInv, NEW l \in LocalId, RowInv(l), Aged, Push \/ FetchPage \/ NextPage
  PROVE  RowInv(l)'
<1>1. TableTypeOK /\ UNCHANGED <<state, inc, remoteId, torn, batch>>
  BY TypeParts DEF Push, FetchPage, NextPage, tableVars
<1>2. ~Halfway(l) /\ ~Halfway(l)' /\ (Unsent(l)' <=> Unsent(l)) /\ pc # "idle" /\ pc' \notin {"mark", "base"}
  BY DEF Push, FetchPage, NextPage, Halfway, Unsent, Pushing
<1> QED BY <1>1, <1>2, RowKept

LEMMA EndsRows ==
  ASSUME TypeInv, NEW l \in LocalId, RowInv(l), GiveUp \/ FinishPull \/ Restart
  PROVE  RowInv(l)'
<1>1. TableTypeOK
  BY TypeParts
<1>2. UNCHANGED <<rows, remoteId>> /\ pc' = "idle" /\ torn \subseteq torn'
  BY DEF GiveUp, FinishPull, Restart, EndPoll, serverVars, tableVars
<1>3. Halfway(l) => l \in torn'
  BY <1>1 DEF GiveUp, FinishPull, Restart, Halfway
<1>4. ~Unsent(l)'
  BY <1>2 DEF Unsent, Pushing
<1>5. CASE state'[l] = state[l] /\ inc'[l] = inc[l]
  BY <1>1, <1>2, <1>3, <1>4, <1>5, RowKept, Untouched
<1>6. CASE ~(state'[l] = state[l] /\ inc'[l] = inc[l])
  <2>1. state'[l] = "tomb"
    BY <1>1, <1>6 DEF GiveUp, FinishPull, Restart, tableVars, TableTypeOK
  <2> QED BY <2>1, RowTorn
<1> QED BY <1>5, <1>6
\* A row that the step of another row of the batch does not write.
LEMMA AnswerOtherRows ==
  ASSUME TypeInv, NEW l \in LocalId, RowInv(l), NEW k \in LocalId, k # l,
         AssignRemoteId(k) \/ MarkSynced(k) \/ UpdateBase(k)
  PROVE  RowInv(l)'
<1>1. TableTypeOK /\ DOMAIN batch \subseteq LocalId
  BY TypeParts DEF PollTypeOK
<1>2. UNCHANGED <<rows, torn>> /\ Turn(k) /\ pc \in Pushing
  BY DEF AssignRemoteId, MarkSynced, UpdateBase, serverVars, Pushing
<1>3. state'[l] = state[l] /\ inc'[l] = inc[l] /\ remoteId'[l] = remoteId[l]
  BY <1>1 DEF AssignRemoteId, MarkSynced, UpdateBase, Update, TableTypeOK
<1>4. ~Turn(l)
  BY <1>1, <1>2, OneTurn
<1>5. ASSUME AssignRemoteId(k) \/ MarkSynced(k)
      PROVE  batch' = batch /\ pc' \in {"mark", "base"}
  BY <1>5 DEF AssignRemoteId, MarkSynced
<1>6. ASSUME UpdateBase(k)
      PROVE  /\ pc' \in {"fetch", "answer"}
             /\ DOMAIN batch' = DOMAIN batch \ {k}
             /\ l \in DOMAIN batch => l \in DOMAIN batch' /\ batch'[l] = batch[l] /\ pc' = "answer"
  BY <1>6 DEF UpdateBase, Done
<1>7. /\ ~Halfway(l)
      /\ pc' # "idle" => pc # "idle" /\ (Unsent(l) => Unsent(l)')
      /\ Unsent(l)' => /\ Unsent(l) /\ batch'[l] = batch[l] /\ ~Halfway(l)'
                       /\ ~(pc' \in {"mark", "base"} /\ Turn(l)')
  <2>1. CASE AssignRemoteId(k) \/ MarkSynced(k)
    <3>1. ~Turn(l)'
      BY <1>4, <1>5, <2>1 DEF Turn
    <3> QED BY <1>2, <1>4, <1>5, <2>1, <3>1 DEF Halfway, Unsent, Pushing
  <2>2. CASE UpdateBase(k)
    BY <1>2, <1>4, <1>6, <2>2 DEF Halfway, Unsent, Pushing
  <2> QED BY <2>1, <2>2
<1> QED BY <1>1, <1>2, <1>3, <1>7, RowKept, Untouched

LEMMA AnswerRow ==
  ASSUME TypeInv, TableInv, NEW l \in LocalId, RowInv(l),
         AssignRemoteId(l) \/ MarkSynced(l) \/ UpdateBase(l)
  PROVE  RowInv(l)'
<1> SUFFICES ASSUME Steady(l)' PROVE RowInv(l)'
  BY DEF RowInv
<1>1. TableTypeOK /\ DOMAIN batch \subseteq LocalId /\ batch \in [DOMAIN batch -> LocalRow]
  BY TypeParts DEF PollTypeOK
<1>2. /\ UNCHANGED <<rows, state, torn>> /\ Turn(l) /\ l \in DOMAIN batch /\ pc \in Pushing
      /\ pc \in {"answer", "mark", "base"}
  BY DEF AssignRemoteId, MarkSynced, UpdateBase, serverVars, Pushing, Turn
<1>3. Steady(l) /\ state[l] = "live" /\ Unsent(l)
  BY <1>2 DEF Steady, LiveLocally, Unsent
<1>4. /\ ~inc[l].conflict /\ inc[l].content = batch[l].content
      /\ inc[l].dirty <=> pc # "base"
      /\ pc \in {"mark", "base"} => remoteId[l] # NoRid
  BY <1>2, <1>3 DEF RowInv, Halfway
<1>5. CASE AssignRemoteId(l)
  <2>1. /\ pc = "answer" /\ pc' = "mark" /\ UNCHANGED <<inc, batch>>
        /\ remoteId' = [remoteId EXCEPT ![l] = syncId[l]]
    BY <1>3, <1>5 DEF AssignRemoteId
  <2>2. remoteId'[l] # NoRid
    BY <1>1, <1>2, <2>1 DEF TableInv, BatchInv, TableTypeOK
  <2>3. Unsent(l)' /\ ~Halfway(l)'
    BY <1>2, <2>1 DEF Unsent, Halfway, Pushing
  <2> QED BY <1>4, <2>1, <2>2, <2>3 DEF RowInv
<1>6. CASE MarkSynced(l)
  <2>1. /\ pc = "mark" /\ pc' = "base" /\ UNCHANGED <<remoteId, batch>>
        /\ inc' = [inc EXCEPT ![l] = Clean(inc[l])]
    BY <1>3, <1>6 DEF MarkSynced, Update
  <2>2. inc'[l].content = inc[l].content /\ ~inc'[l].dirty /\ inc'[l].conflict = inc[l].conflict
    BY <1>1, <2>1 DEF Clean, TableTypeOK, LocalRow
  <2>3. Unsent(l)' /\ Halfway(l)' /\ remoteId'[l] # NoRid
    BY <1>2, <1>4, <2>1 DEF Unsent, Halfway, Pushing, Turn
  <2> QED BY <1>4, <2>1, <2>2, <2>3 DEF RowInv
<1>7. CASE UpdateBase(l)
  <2>1. /\ pc = "base" /\ UNCHANGED remoteId /\ pc' \in {"fetch", "answer"}
        /\ inc' = [inc EXCEPT ![l] = [inc[l] EXCEPT !.base = batch[l].content]]
        /\ l \notin DOMAIN batch'
    BY <1>3, <1>7 DEF UpdateBase, Update, Done
  <2>2. /\ inc'[l].content = inc[l].content /\ inc'[l].base = inc[l].content
        /\ inc'[l].dirty = inc[l].dirty /\ inc'[l].conflict = inc[l].conflict
    BY <1>1, <1>4, <2>1 DEF TableTypeOK, LocalRow
  <2>3. inc[l].content # NoContent
    BY <1>1, SyncAssumption DEF TableTypeOK, LocalRow
  <2>4. remoteId'[l] # NoRid /\ \A s : Tracks(inc'[l], s)
    BY <1>4, <2>1, <2>2, <2>3 DEF Tracks
  <2>5. ~Unsent(l)'
    BY <2>1 DEF Unsent
  <2>6. ~inc'[l].conflict /\ ~inc'[l].dirty
    BY <1>4, <2>1, <2>2
  <2>7. Tracks(inc[l], StatusOf(remoteId[l]))'
    BY <2>4
  <2> QED BY <2>4, <2>5, <2>6, <2>7 DEF RowInv
<1> QED BY <1>5, <1>6, <1>7

LEMMA AnswerRows ==
  ASSUME TypeInv, TableInv, skipped = {}, NEW l \in LocalId, RowInv(l), NEW k \in LocalId,
         DropRefused(k) \/ AssignRemoteId(k) \/ MarkSynced(k) \/ UpdateBase(k)
  PROVE  RowInv(l)'
<1>1. ~DropRefused(k)
  BY DEF DropRefused
<1> QED BY <1>1, AnswerOtherRows, AnswerRow
\* What a pulled row leaves in the table: the one row it is merged into, or
\* inserted as, is the pulled one or in conflict with it.
MergedAs(n, x) ==
  /\ \A k \in LocalId \ {n} : /\ state'[k] = state[k] /\ inc'[k] = inc[k] /\ remoteId'[k] = remoteId[k]
                              /\ remoteId[k] # x.rid
  /\ remoteId'[n] = x.rid /\ state'[n] \in {"live", "tomb"}
  /\ state[n] \in {"live", "tomb"} => remoteId[n] = x.rid
  /\ Steady(n)' => IF inc'[n].conflict
                   THEN Stuck(inc'[n], x.content["status"])
                   ELSE /\ ~inc'[n].dirty /\ inc'[n].base # NoContent
                        /\ inc'[n].base = x.content /\ inc'[n].content = x.content

LEMMA MergeRowMerges ==
  ASSUME TypeInv, TableInv, RestInv, MergeRow, NEW x, x = Head(rest)
  PROVE  /\ x \in [rid : Rid, content : Content, at : 0..MaxClock]
         /\ \E n \in LocalId : MergedAs(n, x)
<1>1. TableTypeOK /\ pc = "merge" /\ rest # <<>> /\ rest \in Seq([rid : Rid, content : Content, at : 0..MaxClock])
  BY TypeParts DEF MergeRow, PollTypeOK
<1>2. x \in [rid : Rid, content : Content, at : 0..MaxClock] /\ x = rest[1] /\ 1 \in 1..Len(rest)
  <2> DEFINE T == [rid : Rid, content : Content, at : 0..MaxClock]
  <2>1. rest \in Seq(T) /\ rest # <<>>
    BY <1>1
  <2> HIDE DEF T
  <2>2. x = rest[1] /\ 1 \in 1..Len(rest)
    BY <2>1
  <2>3. x \in T
    BY <2>1, <2>2
  <2> QED BY <2>2, <2>3 DEF T
<1>3. x.rid \in Rid /\ x.rid # NoRid /\ x.content \in Content /\ x.content # NoContent
  BY <1>2, ServerAssumption, SyncAssumption
<1>4. UNCHANGED torn
  BY DEF MergeRow
<1>5. \A l \in LocalId : remoteId[l] = x.rid => l \in Known(x.rid)
  BY <1>3 DEF Known, TableInv, IdInv
<1>6. CASE Known(x.rid) = {}
  <2>1. PICK n \in LocalId :
          /\ state[n] = "free"
          /\ state' = [state EXCEPT ![n] = "live"]
          /\ remoteId' = [remoteId EXCEPT ![n] = x.rid]
          /\ inc' = [inc EXCEPT ![n] = Columns(x.content, FALSE, FALSE, x.at, x.content, NoContent)]
    BY <1>6 DEF MergeRow, InsertFromServer, NextId
  <2>2. state'[n] = "live" /\ remoteId'[n] = x.rid
        /\ inc'[n] = Columns(x.content, FALSE, FALSE, x.at, x.content, NoContent)
    BY <1>1, <2>1 DEF TableTypeOK
  <2>3. \A k \in LocalId \ {n} : /\ state'[k] = state[k] /\ inc'[k] = inc[k] /\ remoteId'[k] = remoteId[k]
                                 /\ remoteId[k] # x.rid
    BY <1>1, <1>5, <1>6, <2>1 DEF TableTypeOK
  <2>4. MergedAs(n, x)
    BY <1>3, <2>1, <2>2, <2>3 DEF MergedAs, Columns
  <2> QED BY <1>2, <2>4
<1>7. CASE Known(x.rid) # {}
  <2>1. PICK n \in Known(x.rid) :
          /\ inc' = [inc EXCEPT ![n] = IF LiveLocally(n) THEN ApplyMerge(inc[n], x) ELSE inc[n]]
          /\ UNCHANGED <<state, remoteId>>
    BY <1>7 DEF MergeRow, MergeFromServer
  <2>2. n \in LocalId /\ remoteId[n] = x.rid /\ state[n] \in {"live", "tomb"}
    BY DEF Known
  <2>3. \A k \in LocalId \ {n} : /\ state'[k] = state[k] /\ inc'[k] = inc[k] /\ remoteId'[k] = remoteId[k]
                                 /\ remoteId[k] # x.rid
    BY <1>1, <1>3, <2>1, <2>2 DEF TableTypeOK, TableInv, IdInv
  <2>4. ASSUME Steady(n)'
        PROVE  IF inc'[n].conflict
               THEN Stuck(inc'[n], x.content["status"])
               ELSE /\ ~inc'[n].dirty /\ inc'[n].base # NoContent
                    /\ inc'[n].base = x.content /\ inc'[n].content = x.content
    <3>1. Steady(n)
      BY <1>4, <2>1, <2>4 DEF Steady, LiveLocally
    <3>2. inc'[n] = ApplyMerge(inc[n], x)
      BY <1>1, <2>1, <2>2, <3>1 DEF TableTypeOK, Steady
    <3>3. IF inc[n].conflict THEN Stuck(inc[n], x.content["status"])
                             ELSE Tracks(inc[n], x.content["status"])
      BY <1>1, <1>2, <2>2, <3>1 DEF RestInv
    <3>4. inc[n] \in LocalRow
      BY <1>1, <2>2 DEF TableTypeOK
    <3>5. CASE inc[n].conflict
      BY <3>2, <3>3, <3>5, StuckMerge
    <3>6. CASE ~inc[n].conflict
      BY <1>2, <1>3, <3>2, <3>3, <3>4, <3>6, TracksMerge
    <3> QED BY <3>5, <3>6
  <2>5. MergedAs(n, x)
    BY <2>1, <2>2, <2>3, <2>4 DEF MergedAs
  <2> QED BY <1>2, <2>2, <2>5
<1> QED BY <1>6, <1>7

LEMMA MergeRowRows ==
  ASSUME TypeInv, TableInv, RestInv, NEW l \in LocalId, RowInv(l), MergeRow
  PROVE  RowInv(l)'
<1> DEFINE x == Head(rest)
<1>1. PICK n \in LocalId : MergedAs(n, x)
  BY MergeRowMerges
<1>2. x.rid \in Rid /\ x.rid # NoRid
  BY MergeRowMerges, ServerAssumption
<1>3. TableTypeOK /\ UNCHANGED <<rows, torn, pc, batch>> /\ pc = "merge"
  BY TypeParts DEF MergeRow, serverVars
<1>4. ~Halfway(l) /\ ~Halfway(l)' /\ ~Unsent(l) /\ ~Unsent(l)'
  BY <1>3 DEF Halfway, Unsent, Pushing
<1>5. Within(x.content["status"], StatusOf(x.rid))
  <2>1. rest \in Seq([rid : Rid, content : Content, at : 0..MaxClock]) /\ rest # <<>>
    BY TypeParts DEF PollTypeOK, MergeRow
  <2>2. 1 \in 1..Len(rest) /\ x = rest[1]
    BY <2>1
  <2> QED BY <1>3, <2>2 DEF RestInv
<1> HIDE DEF x
<1>6. CASE l # n
  <2>1. state'[l] = state[l] /\ inc'[l] = inc[l] /\ remoteId'[l] = remoteId[l]
    BY <1>1, <1>6 DEF MergedAs
  <2> QED BY <1>3, <1>4, <2>1, RowKept, Untouched
<1>7. CASE l = n
  <2> SUFFICES ASSUME Steady(l)' PROVE RowInv(l)'
    BY DEF RowInv
  <2>1. /\ remoteId'[l] = x.rid
        /\ IF inc'[l].conflict
           THEN Stuck(inc'[l], x.content["status"])
           ELSE /\ ~inc'[l].dirty /\ inc'[l].base # NoContent
                /\ inc'[l].base = x.content /\ inc'[l].content = x.content
    BY <1>1, <1>7 DEF MergedAs
  <2>2. StatusOf(remoteId[l])' = StatusOf(x.rid)
    BY <1>3, <2>1 DEF StatusOf
  <2>3. inc'[l].conflict => Stuck(inc'[l], StatusOf(x.rid))
    BY <1>5, <2>1, TracksOn
  <2>4. ~inc'[l].conflict => Tracks(inc'[l], StatusOf(x.rid)) /\ ~inc'[l].dirty
    BY <2>1 DEF Tracks
  <2>5. (inc[l].conflict => remoteId[l] # NoRid /\ Stuck(inc[l], StatusOf(remoteId[l])))'
    BY <1>2, <2>1, <2>2, <2>3
  <2>6. (~inc[l].conflict /\ ~inc[l].dirty
           => remoteId[l] # NoRid /\ Tracks(inc[l], StatusOf(remoteId[l])))'
    BY <1>2, <2>1, <2>2, <2>4
  <2> QED BY <1>4, <2>4, <2>5, <2>6 DEF RowInv
<1> QED BY <1>6, <1>7

LEMMA PollRows ==
  ASSUME TypeInv, TableInv, skipped = {}, RestInv, Aged, NEW l \in LocalId, RowInv(l), PollStep
  PROVE  RowInv(l)'
BY StartPollRows, PushRows, EndsRows, AnswerRows, MergeRowRows DEF PollStep
LEMMA CreateRows ==
  ASSUME TypeInv, NEW l \in LocalId, RowInv(l), NEW t \in Text, CreateLocally(t)
  PROVE  RowInv(l)'
<1>1. TableTypeOK /\ UNCHANGED <<rows, remoteId, pc, batch>>
  BY TypeParts DEF CreateLocally, pollVars
<1>2. PICK n \in LocalId :
        /\ state' = [state EXCEPT ![n] = "live"]
        /\ inc' = [inc EXCEPT ![n] = Columns(Incident(t, "open"), TRUE, FALSE, clock', NoContent, NoContent)]
        /\ Touch(n, Busy(n))
  BY DEF CreateLocally
<1>3. torn \subseteq torn' /\ (pc # "idle" => n \in torn')
  BY <1>2 DEF Touch, Busy, Polling
<1>4. CASE l # n
  BY <1>1, <1>2, <1>3, <1>4, RowKept, Untouched DEF TableTypeOK, Halfway, Unsent, Turn
<1>5. CASE l = n /\ pc = "idle"
  <2>1. inc'[l].dirty /\ ~inc'[l].conflict
    BY <1>1, <1>2, <1>5 DEF TableTypeOK, Columns
  <2> QED BY <1>1, <1>5, <2>1, RowIdle
<1> QED BY <1>3, <1>4, <1>5, RowTorn

\* An edit, a change of status and a resolution write one row, which stays dirty,
\* in conflict, or becomes the server's version.
LEMMA EditRows ==
  ASSUME TypeInv, NEW l \in LocalId, RowInv(l), NEW n \in LocalId,
         \/ \E t \in Text : EditLocally(n, t)
         \/ ChangeStatus(n)
         \/ \E a \in BOOLEAN : ResolveConflict(n, a)
  PROVE  RowInv(l)'
<1>1. TableTypeOK /\ UNCHANGED <<rows, remoteId, state, pc, batch>> /\ LiveLocally(n)
  BY TypeParts DEF EditLocally, ChangeStatus, ResolveConflict, pollVars, serverVars
<1>2. Touch(n, Busy(n))
  BY DEF EditLocally, ChangeStatus, ResolveConflict
<1>3. torn \subseteq torn' /\ (pc # "idle" => n \in torn')
  BY <1>2 DEF Touch, Busy, Polling
<1>4. CASE l # n
  <2>1. inc'[l] = inc[l]
    BY <1>1, <1>4 DEF EditLocally, ChangeStatus, ResolveConflict, TableTypeOK
  <2>2. Halfway(l)' = Halfway(l) /\ Unsent(l)' = Unsent(l) /\ Turn(l)' = Turn(l)
    BY <1>1 DEF Halfway, Unsent, Turn
  <2> QED BY <1>1, <1>3, <2>1, <2>2, RowKept, Untouched
<1>5. CASE l = n /\ pc = "idle" /\ l \notin torn'
  <2>1. Steady(l)
    BY <1>1, <1>3, <1>5 DEF Steady
  <2>2. pc' = "idle" /\ ~Halfway(l)
    BY <1>1, <1>5 DEF Halfway
  <2>3. inc[l] \in LocalRow
    BY <1>1 DEF TableTypeOK
  <2>4. ASSUME \/ \E t \in Text : EditLocally(n, t)
               \/ ChangeStatus(n)
        PROVE  RowInv(l)'
    <3>1. /\ inc'[l].dirty /\ inc'[l].conflict = inc[l].conflict /\ inc'[l].base = inc[l].base
          /\ inc[l].conflict => inc'[l].content["status"] = inc[l].content["status"]
      BY <1>1, <1>5, <2>4 DEF EditLocally, ChangeStatus, TableTypeOK, Columns, Incident, Field
    <3>2. inc[l].conflict => remoteId[l] # NoRid /\ Stuck(inc[l], StatusOf(remoteId[l]))
      BY <2>1 DEF RowInv
    <3>3. inc'[l].conflict => remoteId'[l] # NoRid /\ Stuck(inc'[l], rows'[remoteId'[l]].content["status"])
      BY <1>1, <3>1, <3>2 DEF Stuck, StatusOf
    <3> QED BY <2>2, <3>1, <3>3, RowIdle
  <2>5. ASSUME NEW a \in BOOLEAN, ResolveConflict(n, a)
        PROVE  RowInv(l)'
    <3> DEFINE kept == IF a THEN inc[l].remote ELSE inc[l].content
    <3>1. inc[l].conflict /\ inc'[l] = Columns(kept, ~a, FALSE, inc[l].at, kept, NoContent)
      BY <1>1, <1>5, <2>5 DEF ResolveConflict, TableTypeOK
    <3>2. remoteId[l] # NoRid
      BY <2>1, <3>1 DEF RowInv
    <3>3. kept # NoContent
      BY <1>1, <2>3, <3>1, SyncAssumption DEF TableTypeOK, ConflictInv, LocalRow
    <3> HIDE DEF kept
    <3>4. ~inc'[l].conflict /\ \A s : Tracks(inc'[l], s)
      BY <3>1, <3>3 DEF Columns, Tracks
    <3> QED BY <1>1, <2>2, <3>2, <3>4, RowIdle
  <2> QED BY <2>4, <2>5
<1> QED BY <1>3, <1>4, <1>5, RowTorn

\* Steps of a PATCH or of a removal that leave the table alone.
LEMMA TableRows ==
  ASSUME TypeInv, Aged, NEW l \in LocalId, RowInv(l),
         UNCHANGED <<state, remoteId, pc, batch>>, inc'[l] = inc[l], torn \subseteq torn'
  PROVE  RowInv(l)'
<1>1. Halfway(l)' = Halfway(l) /\ Unsent(l)' = Unsent(l) /\ Turn(l)' = Turn(l)
  BY DEF Halfway, Unsent, Turn
<1> QED BY <1>1, RowKept, TypeParts

LEMMA EraseRows ==
  ASSUME TypeInv, NEW l \in LocalId, RowInv(l), EraseLocally
  PROVE  RowInv(l)'
<1>1. TableTypeOK /\ UNCHANGED <<rows, remoteId, pc, batch>> /\ torn \subseteq torn'
  BY TypeParts DEF EraseLocally, serverVars, pollVars, Touch
<1>2. CASE l = ui.lid
  <2>1. state'[l] # "live"
    BY <1>1, <1>2 DEF EraseLocally, TableTypeOK
  <2> QED BY <2>1, RowTorn
<1>3. CASE l # ui.lid
  <2>1. state'[l] = state[l] /\ inc'[l] = inc[l]
    BY <1>1, <1>3 DEF EraseLocally, TableTypeOK
  <2>2. Halfway(l)' = Halfway(l) /\ Unsent(l)' = Unsent(l) /\ Turn(l)' = Turn(l)
    BY <1>1 DEF Halfway, Unsent, Turn
  <2> QED BY <1>1, <2>1, <2>2, RowKept, Untouched
<1> QED BY <1>2, <1>3

LEMMA CleanFields ==
  ASSUME NEW i \in LocalRow
  PROVE  /\ Clean(i).content = i.content /\ Clean(i).base = i.base
         /\ Clean(i).conflict = i.conflict /\ Clean(i).dirty = FALSE
BY DEF LocalRow, Clean

\* The server took or refused a change of status: the row is clean with the new
\* status or the old one, unless it had unsent edits before.
LEMMA AnsweredRows ==
  ASSUME TypeInv, WaitInv, NEW l \in LocalId, RowInv(l), PatchAccepted \/ PatchRefused
  PROVE  RowInv(l)'
<1> DEFINE was == ui.before
           to == NextStatus(was.content["status"])
<1>1. TableTypeOK /\ UNCHANGED <<rows, state, remoteId, pc, batch>> /\ torn \subseteq torn'
  BY TypeParts DEF PatchAccepted, PatchRefused, PatchAnswered, pollVars, Touch
<1>2. ui.do = "patch"
  BY DEF PatchAccepted, PatchRefused
<1>3. CASE l # ui.lid
  <2>1. inc'[l] = inc[l]
    BY <1>1, <1>3 DEF PatchAccepted, PatchRefused, Update, TableTypeOK
  <2> QED BY <1>1, <2>1, TableRows, Untouched
<1>4. CASE l = ui.lid /\ l \notin torn' /\ state'[l] = "live"
  <2>1. Waits(l, was, to, patch["desktop"])
    BY <1>1, <1>2, <1>4 DEF WaitInv
  <2> HIDE DEF to, was
  <2>2. /\ pc' = "idle" /\ remoteId[l] # NoRid
        /\ inc[l] = Columns(Incident(was.content["text"], to), TRUE, FALSE, ui.at, was.base, was.remote)
        /\ ~was.conflict /\ was.content["status"] # "resolved"
        /\ ~was.dirty => Tracks(was, StatusOf(remoteId[l]))
    BY <1>1, <2>1 DEF Waits
  <2>3. was \in LocalRow
    BY TypeParts DEF DeskTypeOK, was
  <2>4. ASSUME PatchAccepted
        PROVE  RowInv(l)'
    <3>1. Within(to, StatusOf(remoteId[l]))
      BY <2>1, <2>4 DEF Waits, PatchAccepted
    <3>2. inc' = [inc EXCEPT ![l] = IF ~was.dirty /\ inc[l].at = ui.at THEN Clean(inc[l]) ELSE inc[l]]
      BY <1>1, <1>4, <2>4 DEF PatchAccepted, Update, was
    <3>3. inc'[l] = IF was.dirty THEN inc[l] ELSE Clean(inc[l])
      BY <1>1, <2>2, <3>2 DEF TableTypeOK, Columns
    <3>4. /\ inc'[l].content = Incident(was.content["text"], to) /\ inc'[l].base = was.base
          /\ ~inc'[l].conflict /\ inc'[l].dirty = was.dirty
      <4>1. was.dirty \in BOOLEAN
        BY <2>3 DEF LocalRow
      <4>2. inc[l] \in LocalRow
        BY <1>1 DEF TableTypeOK
      <4>3. /\ inc[l].content = Incident(was.content["text"], to) /\ inc[l].base = was.base
            /\ ~inc[l].conflict /\ inc[l].dirty
        BY <2>2 DEF Columns
      <4> QED BY <3>3, <4>1, <4>2, <4>3, CleanFields
    <3>5. inc'[l].content["text"] = was.content["text"] /\ inc'[l].content["status"] = to
      BY <3>4 DEF Incident, Field
    <3>6. to = IF was.content["status"] = "open" THEN "in_progress" ELSE "resolved"
      BY DEF to, NextStatus
    <3>7. was.content["status"] \in Status
      BY <2>3, IncidentType DEF LocalRow
    <3>8. ~was.dirty => Tracks(inc'[l], StatusOf(remoteId[l]))
      BY <2>2, <3>1, <3>4, <3>5, <3>6, <3>7 DEF Tracks, Later, Within, Status
    <3>9. ~inc'[l].dirty => remoteId'[l] # NoRid /\ Tracks(inc'[l], rows'[remoteId'[l]].content["status"])
      BY <1>1, <2>2, <3>4, <3>8 DEF StatusOf
    <3> QED BY <2>2, <3>4, <3>9, RowIdle
  <2>5. ASSUME PatchRefused
        PROVE  RowInv(l)'
    <3> DEFINE old == Incident(inc[l].content["text"], was.content["status"])
    <3>1. PICK t : inc'[l] = Columns(old, was.dirty, inc[l].conflict, t, inc[l].base, inc[l].remote)
      <4>1. CASE was.dirty
        <5>1. inc' = [inc EXCEPT ![l] = Columns(old, TRUE, inc[l].conflict, clock', inc[l].base, inc[l].remote)]
          BY <1>1, <1>4, <2>5, <4>1 DEF PatchRefused, Update, was
        <5> HIDE DEF old
        <5> QED BY <1>1, <2>3, <4>1, <5>1 DEF TableTypeOK, LocalRow
      <4>2. CASE ~was.dirty
        <5>1. inc' = [inc EXCEPT ![l] = Columns(old, FALSE, inc[l].conflict, was.at, inc[l].base, inc[l].remote)]
          BY <1>1, <1>4, <2>5, <4>2 DEF PatchRefused, Update, was
        <5> HIDE DEF old
        <5> QED BY <1>1, <2>3, <4>2, <5>1 DEF TableTypeOK, LocalRow
      <4> QED BY <4>1, <4>2
    <3>2. /\ inc'[l].content["text"] = was.content["text"]
          /\ inc'[l].content["status"] = was.content["status"]
          /\ inc'[l].base = was.base /\ ~inc'[l].conflict /\ inc'[l].dirty = was.dirty
      BY <2>2, <3>1 DEF Columns, Incident, Field
    <3>3. ~was.dirty => Tracks(inc'[l], StatusOf(remoteId[l]))
      BY <2>2, <3>2 DEF Tracks
    <3>4. ~inc'[l].dirty => remoteId'[l] # NoRid /\ Tracks(inc'[l], rows'[remoteId'[l]].content["status"])
      BY <1>1, <2>2, <3>2, <3>3 DEF StatusOf
    <3> QED BY <2>2, <3>2, <3>4, RowIdle
  <2> QED BY <2>4, <2>5
<1> QED BY <1>3, <1>4, RowTorn

LEMMA UserRows ==
  ASSUME TypeInv, WaitInv, Aged, NEW l \in LocalId, RowInv(l), UserStep
  PROVE  RowInv(l)'
<1>1. ASSUME SendPatch \/ CommitPatch \/ LosePatch \/ DropAnswer \/ \E n \in LocalId : DeleteIncident(n)
      PROVE  RowInv(l)'
  <2>1. UNCHANGED <<state, remoteId, inc, pc, batch>> /\ torn \subseteq torn'
    BY <1>1 DEF SendPatch, CommitPatch, LosePatch, DropAnswer, DeleteIncident, tableVars, pollVars, Touch
  <2> QED BY <2>1, TableRows
<1>2. ASSUME NEW t \in Text, CreateLocally(t)
      PROVE  RowInv(l)'
  BY <1>2, CreateRows
<1>3. ASSUME NEW n \in LocalId,
             \/ \E t \in Text : EditLocally(n, t)
             \/ ChangeStatus(n)
             \/ \E a \in BOOLEAN : ResolveConflict(n, a)
      PROVE  RowInv(l)'
  BY <1>3, EditRows
<1> QED BY <1>1, <1>2, <1>3, EraseRows, AnsweredRows DEF UserStep

LEMMA StepRows ==
  ASSUME TypeInv, TableInv, skipped = {}, RestInv, WaitInv, Aged, NEW l \in LocalId, RowInv(l),
         [Next]_vars
  PROVE  RowInv(l)'
<1>1. CASE Others \/ UNCHANGED vars
  <2>1. UNCHANGED <<state, remoteId, inc, pc, batch, torn>>
    BY <1>1 DEF Others, vars, tableVars, pollVars
  <2> QED BY <2>1, TableRows
<1> QED BY <1>1, PollRows, UserRows, EndsRows DEF Next
-----------------------------------------------------------------------------
(* The page to merge.                                                      *)

\* A row that a step writes while a page is merged is torn, or the merged one.
LEMMA RestKept ==
  ASSUME TypeInv, Aged, RestInv, pc' = "merge" => pc = "merge" /\ UNCHANGED rest,
         \A l \in LocalId : \/ l \in torn' \/ state'[l] # "live"
                            \/ /\ state'[l] = state[l] /\ inc'[l] = inc[l] /\ remoteId'[l] = remoteId[l]
                               /\ l \notin torn
  PROVE  RestInv'
<1> SUFFICES ASSUME pc' = "merge", NEW j \in 1..Len(rest)
             PROVE  /\ Within(rest[j].content["status"], rows'[rest[j].rid].content["status"])
                    /\ \A k \in 1..Len(rest) : rest[k].rid = rest[j].rid => rest[k] = rest[j]
                    /\ \A l \in LocalId : Steady(l)' /\ remoteId'[l] = rest[j].rid =>
                         IF inc'[l].conflict THEN Stuck(inc'[l], rest[j].content["status"])
                                             ELSE Tracks(inc'[l], rest[j].content["status"])
  BY DEF RestInv, StatusOf
<1>1. pc = "merge" /\ rest' = rest
  OBVIOUS
<1>2. rest[j].rid \in Rid
  <2> DEFINE T == [rid : Rid, content : Content, at : 0..MaxClock]
  <2>1. rest \in Seq(T)
    BY TypeParts DEF PollTypeOK
  <2> HIDE DEF T
  <2>2. rest[j] \in T
    BY <2>1
  <2> QED BY <2>2 DEF T
<1>3. Within(rest[j].content["status"], rows'[rest[j].rid].content["status"])
  BY <1>1, <1>2, Aging DEF RestInv, Aged
<1>4. ASSUME NEW l \in LocalId, Steady(l)', remoteId'[l] = rest[j].rid
      PROVE  IF inc'[l].conflict THEN Stuck(inc'[l], rest[j].content["status"])
                                 ELSE Tracks(inc'[l], rest[j].content["status"])
  <2>1. /\ state[l] = "live" /\ inc'[l] = inc[l] /\ remoteId'[l] = remoteId[l]
        /\ l \notin torn
    BY <1>4 DEF Steady, LiveLocally
  <2> QED BY <1>1, <1>4, <2>1 DEF RestInv, Steady, LiveLocally
<1> QED BY <1>1, <1>3, <1>4 DEF RestInv

LEMMA FetchPageRest ==
  ASSUME TypeInv, \A l \in LocalId : RowInv(l), FetchPage
  PROVE  RestInv'
<1>1. ServerTypeOK /\ page \in Nat \ {0}
  BY TypeParts, SyncAssumption DEF PollTypeOK
<1>2. /\ UNCHANGED <<rows, state, inc, remoteId, torn>> /\ pc = "fetch"
      /\ rest' = Page(page, since)
  BY DEF FetchPage, serverVars, tableVars
<1> DEFINE T == {Answered(r) : r \in Found(since)}
<1>3. rest' \in Seq(T)
  BY <1>1, <1>2, PageLists DEF ServerTypeOK
<1> SUFFICES ASSUME NEW j \in 1..Len(rest')
             PROVE  /\ Within(rest'[j].content["status"], StatusOf(rest'[j].rid))
                    /\ \A k \in 1..Len(rest') : rest'[k].rid = rest'[j].rid => rest'[k] = rest'[j]
                    /\ \A l \in LocalId : Steady(l) /\ remoteId[l] = rest'[j].rid =>
                         IF inc[l].conflict THEN Stuck(inc[l], rest'[j].content["status"])
                                            ELSE Tracks(inc[l], rest'[j].content["status"])
  BY <1>2 DEF RestInv, StatusOf, Steady, LiveLocally
<1> HIDE DEF T
<1>4. \A k \in 1..Len(rest') : rest'[k] \in T
  BY <1>3
<1>5. \A k \in 1..Len(rest') : rest'[k] = Answered(rest'[k].rid)
  BY <1>4 DEF T, Answered
<1>6. rest'[j].content["status"] = StatusOf(rest'[j].rid)
  <2>1. \A r : Answered(r).content["status"] = StatusOf(r)
    BY DEF Answered, StatusOf
  <2> QED BY <1>5, <2>1
<1>7. ASSUME NEW l \in LocalId, Steady(l), remoteId[l] = rest'[j].rid
      PROVE  IF inc[l].conflict THEN Stuck(inc[l], rest'[j].content["status"])
                                ELSE Tracks(inc[l], rest'[j].content["status"])
  <2>1. ~Unsent(l) /\ ~Halfway(l) /\ pc # "idle"
    BY <1>2 DEF Unsent, Halfway, Pushing
  <2>2. inc[l].dirty \in BOOLEAN
    BY TypeParts DEF TableTypeOK, LocalRow
  <2> QED BY <1>6, <1>7, <2>1, <2>2 DEF RowInv
<1> QED BY <1>5, <1>6, <1>7 DEF Within

LEMMA MergeRowRest ==
  ASSUME TypeInv, TableInv, RestInv, MergeRow
  PROVE  RestInv'
<1> DEFINE x == Head(rest)
           T == [rid : Rid, content : Content, at : 0..MaxClock]
<1>1. PICK n \in LocalId : MergedAs(n, x)
  BY MergeRowMerges
<1>2. rest \in Seq(T) /\ rest # <<>> /\ pc = "merge" /\ rest' = Tail(rest) /\ UNCHANGED <<rows, torn>>
  BY TypeParts DEF PollTypeOK, MergeRow, serverVars
<1> HIDE DEF T
<1>3. /\ x = rest[1] /\ 1 \in 1..Len(rest)
      /\ \A j \in 1..Len(rest') : j + 1 \in 1..Len(rest) /\ rest'[j] = rest[j + 1]
  BY <1>2
<1> HIDE DEF x
<1> SUFFICES ASSUME NEW j \in 1..Len(rest')
             PROVE  /\ Within(rest'[j].content["status"], StatusOf(rest'[j].rid))
                    /\ \A k \in 1..Len(rest') : rest'[k].rid = rest'[j].rid => rest'[k] = rest'[j]
                    /\ \A l \in LocalId : Steady(l)' /\ remoteId'[l] = rest'[j].rid =>
                         IF inc'[l].conflict THEN Stuck(inc'[l], rest'[j].content["status"])
                                             ELSE Tracks(inc'[l], rest'[j].content["status"])
  BY <1>2 DEF RestInv, StatusOf
<1>4. PICK m \in 1..Len(rest) : rest'[j] = rest[m]
  BY <1>3
<1>5. /\ Within(rest[m].content["status"], StatusOf(rest[m].rid))
      /\ \A k \in 1..Len(rest) : rest[k].rid = rest[m].rid => rest[k] = rest[m]
  BY <1>2 DEF RestInv
<1>6. \A k \in 1..Len(rest') : rest'[k].rid = rest'[j].rid => rest'[k] = rest'[j]
  BY <1>3, <1>4, <1>5
<1>7. ASSUME NEW l \in LocalId, Steady(l)', remoteId'[l] = rest[m].rid
      PROVE  IF inc'[l].conflict THEN Stuck(inc'[l], rest[m].content["status"])
                                 ELSE Tracks(inc'[l], rest[m].content["status"])
  <2>1. CASE l = n
    <3>1. x = rest[m]
      BY <1>1, <1>3, <1>5, <1>7, <2>1 DEF MergedAs
    <3> QED BY <1>1, <1>7, <2>1, <3>1 DEF MergedAs, Tracks
  <2>2. CASE l # n
    <3>1. state'[l] = state[l] /\ inc'[l] = inc[l] /\ remoteId'[l] = remoteId[l]
      BY <1>1, <2>2 DEF MergedAs
    <3> QED BY <1>2, <1>7, <3>1 DEF RestInv, Steady, LiveLocally
  <2> QED BY <2>1, <2>2
<1> QED BY <1>4, <1>5, <1>6, <1>7

LEMMA UserTears ==
  ASSUME TypeInv, UserStep, pc = "merge", NEW l \in LocalId
  PROVE  \/ l \in torn'
         \/ /\ state'[l] = state[l] /\ inc'[l] = inc[l] /\ remoteId'[l] = remoteId[l]
            /\ l \notin torn
<1>1. TableTypeOK
  BY TypeParts
<1>2. ASSUME NEW n \in LocalId, Touch(n, Busy(n)), UNCHANGED remoteId,
             \A k \in LocalId \ {n} : state'[k] = state[k] /\ inc'[k] = inc[k]
      PROVE  \/ l \in torn'
             \/ /\ state'[l] = state[l] /\ inc'[l] = inc[l] /\ remoteId'[l] = remoteId[l]
                /\ l \notin torn
  BY <1>2 DEF Touch, Busy, Polling
<1>3. ASSUME NEW t \in Text, CreateLocally(t)
      PROVE  \/ l \in torn'
             \/ /\ state'[l] = state[l] /\ inc'[l] = inc[l] /\ remoteId'[l] = remoteId[l]
                /\ l \notin torn
  <2>1. PICK n \in LocalId :
          /\ state' = [state EXCEPT ![n] = "live"]
          /\ inc' = [inc EXCEPT ![n] = Columns(Incident(t, "open"), TRUE, FALSE, clock', NoContent, NoContent)]
          /\ Touch(n, Busy(n))
    BY <1>3 DEF CreateLocally
  <2> QED BY <1>1, <1>2, <1>3, <2>1 DEF CreateLocally, TableTypeOK
<1>4. ASSUME NEW n \in LocalId,
             \/ \E t \in Text : EditLocally(n, t)
             \/ ChangeStatus(n) \/ DeleteIncident(n)
             \/ \E a \in BOOLEAN : ResolveConflict(n, a)
      PROVE  \/ l \in torn'
             \/ /\ state'[l] = state[l] /\ inc'[l] = inc[l] /\ remoteId'[l] = remoteId[l]
                /\ l \notin torn
  <2>1. /\ Touch(n, Busy(n)) /\ UNCHANGED <<state, remoteId>>
        /\ \A k \in LocalId \ {n} : inc'[k] = inc[k]
    BY <1>1, <1>4 DEF EditLocally, ChangeStatus, DeleteIncident, ResolveConflict, tableVars, TableTypeOK
  <2> QED BY <1>2, <2>1
<1>5. CASE SendPatch \/ CommitPatch \/ DropAnswer
  BY <1>5 DEF SendPatch, CommitPatch, DropAnswer, tableVars
<1>6. CASE LosePatch \/ PatchAccepted \/ PatchRefused \/ EraseLocally
  <2>1. Touch(ui.lid, Polling) /\ UNCHANGED remoteId
    BY <1>6 DEF LosePatch, PatchAccepted, PatchRefused, EraseLocally, tableVars
  <2>2. l # ui.lid => state'[l] = state[l] /\ inc'[l] = inc[l]
    BY <1>1, <1>6 DEF LosePatch, PatchAccepted, PatchRefused, EraseLocally, tableVars, Update, TableTypeOK
  <2> QED BY <2>1, <2>2 DEF Touch, Polling
<1> QED BY <1>3, <1>4, <1>5, <1>6 DEF UserStep

LEMMA StepRest ==
  ASSUME TypeInv, TableInv, \A l \in LocalId : RowInv(l), Aged, RestInv, [Next]_vars
  PROVE  RestInv'
<1>1. CASE FetchPage \/ MergeRow
  BY <1>1, FetchPageRest, MergeRowRest
<1>2. CASE PollStep /\ ~FetchPage /\ ~MergeRow
  <2>1. pc' # "merge"
    BY <1>2 DEF PollStep, StartPoll, Push, GiveUp, DropRefused, AssignRemoteId, MarkSynced,
                UpdateBase, Done, NextPage, FinishPull, EndPoll
  <2> QED BY <2>1 DEF RestInv
<1>3. CASE Restart
  BY <1>3 DEF Restart, EndPoll, RestInv
<1>4. CASE UserStep
  <2>1. UNCHANGED <<pc, rest>>
    BY <1>4 DEF UserStep, CreateLocally, EditLocally, ChangeStatus, DeleteIncident, ResolveConflict,
       SendPatch, CommitPatch, LosePatch, DropAnswer, PatchAccepted, PatchRefused, EraseLocally, pollVars
  <2>2. CASE pc = "merge"
    BY <1>4, <2>1, <2>2, UserTears, RestKept
  <2>3. CASE pc # "merge"
    BY <2>1, <2>3 DEF RestInv
  <2> QED BY <2>2, <2>3
<1>5. CASE Others \/ UNCHANGED vars
  <2>1. UNCHANGED <<state, remoteId, inc, pc, rest, torn>>
    BY <1>5 DEF Others, vars, tableVars, pollVars
  <2> QED BY <2>1, RestKept
<1> QED BY <1>1, <1>2, <1>3, <1>4, <1>5 DEF Next
-----------------------------------------------------------------------------
(* The change of status that waits, and what a pull has merged.            *)

LEMMA WaitKept ==
  ASSUME TypeInv, Aged, WaitInv, UNCHANGED <<ui, pc>>, patch'["desktop"] = patch["desktop"],
         torn \subseteq torn',
         ui.do = "patch" => \/ ui.lid \in torn'
                            \/ inc'[ui.lid] = inc[ui.lid] /\ remoteId'[ui.lid] = remoteId[ui.lid]
  PROVE  WaitInv'
<1> SUFFICES ASSUME ui.do = "patch", ui.lid \notin torn' PROVE WaitInv'
  BY DEF WaitInv
<1> DEFINE l == ui.lid
           was == ui.before
           to == NextStatus(was.content["status"])
           sent == patch["desktop"]
           s == StatusOf(remoteId[l])
           t == rows'[remoteId[l]].content["status"]
<1>1. Waits(l, was, to, sent)
  BY DEF WaitInv
<1>2. l \in LocalId /\ remoteId[l] \in Rid
  BY <1>1, TypeParts DEF DeskTypeOK, CommandInv, TableTypeOK, Waits
<1>3. inc'[l] = inc[l] /\ remoteId'[l] = remoteId[l] /\ ui' = ui /\ patch'["desktop"] = sent
  OBVIOUS
<1>4. Within(s, t)
  BY <1>2 DEF Aged
<1>5. /\ ~was.dirty => Tracks(was, t)
      /\ sent.pc = "ok" => Within(to, t)
  BY <1>1, <1>4, TracksOn, Aging DEF Waits
<1>6. StatusOf(remoteId[ui.lid])' = t
  BY <1>3 DEF StatusOf
<1> HIDE DEF s, t
<1>7. /\ (pc = "idle" /\ remoteId[ui.lid] # NoRid)'
      /\ ~was.conflict /\ was.content["status"] # "resolved"
      /\ inc'[l] = Columns(Incident(was.content["text"], to), TRUE, FALSE, ui.at, was.base, was.remote)
      /\ sent.pc \in {"read", "ok"} => sent.rid = remoteId'[l] /\ sent.to = to
  BY <1>1, <1>3 DEF Waits
<1>8. Waits(ui.lid, ui.before, NextStatus(ui.before.content["status"]), patch["desktop"])'
  BY <1>3, <1>5, <1>6, <1>7 DEF Waits
<1> QED BY <1>8 DEF WaitInv

LEMMA ChangeStatusWaits ==
  ASSUME TypeInv, NEW l \in LocalId, RowInv(l), ChangeStatus(l)
  PROVE  WaitInv'
<1> SUFFICES ASSUME ui'.do = "patch", ui'.lid \notin torn' PROVE WaitInv'
  BY DEF WaitInv
<1>1. PICK was : was = inc[l]
  OBVIOUS
<1>2. PICK to : to = NextStatus(was.content["status"])
  OBVIOUS
<1>3. /\ UNCHANGED <<rows, patch, remoteId, pc, state>> /\ LiveLocally(l) /\ Touch(l, Busy(l))
      /\ ~was.conflict /\ was.content["status"] # "resolved" /\ ui.do = "none"
      /\ patch["desktop"].pc = "idle"
  BY <1>1 DEF ChangeStatus, pollVars
<1>4. remoteId[l] # NoRid /\ ui' = Command("patch", l, was, clock')
  BY <1>1, <1>3 DEF ChangeStatus
<1>5. /\ ui'.lid = l /\ ui'.before = was /\ ui'.at = clock'
  BY <1>4 DEF Command
<1>6. pc = "idle" /\ l \notin torn
  BY <1>3, <1>5 DEF Touch, Busy, Polling
<1>7. was \in LocalRow
  BY <1>1, TypeParts DEF TableTypeOK
<1>8. inc'[l] = Columns(Incident(was.content["text"], to), TRUE, FALSE, clock', was.base, was.remote)
  <2>1. was.conflict = FALSE
    BY <1>3, <1>7 DEF LocalRow
  <2>2. inc'[l] = Columns(Incident(was.content["text"], to), TRUE, was.conflict, clock', was.base, was.remote)
    BY <1>1, <1>2, TypeParts DEF ChangeStatus, TableTypeOK
  <2> QED BY <2>1, <2>2
<1>9. ~was.dirty => Tracks(was, StatusOf(remoteId[l]))
  BY <1>1, <1>3, <1>6 DEF RowInv, Steady, Halfway
<1>10. StatusOf(remoteId[ui.lid])' = StatusOf(remoteId[l])
  BY <1>3, <1>5 DEF StatusOf
<1>11. Waits(ui.lid, ui.before, NextStatus(ui.before.content["status"]), patch["desktop"])'
  BY <1>2, <1>3, <1>4, <1>5, <1>6, <1>8, <1>9, <1>10 DEF Waits
<1> QED BY <1>11 DEF WaitInv

\* The two statements of the PATCH of a row that nothing else touched.
LEMMA PatchWaits ==
  ASSUME TypeInv, Aged, WaitInv, SendPatch \/ CommitPatch
  PROVE  WaitInv'
<1> SUFFICES ASSUME ui'.do = "patch", ui'.lid \notin torn' PROVE WaitInv'
  BY DEF WaitInv
<1>1. PICK was : was = ui.before
  OBVIOUS
<1>2. PICK to : to = NextStatus(was.content["status"])
  OBVIOUS
<1>3. PICK l : l = ui.lid
  OBVIOUS
<1>4. UNCHANGED <<ui, torn, pc, inc, remoteId>>
  BY DEF SendPatch, CommitPatch, tableVars, pollVars
<1>5. Waits(l, was, to, patch["desktop"])
  BY <1>1, <1>2, <1>3, <1>4 DEF WaitInv
<1>6. l \in LocalId /\ remoteId[l] \in Rid
  BY <1>3, <1>4, <1>5, TypeParts DEF DeskTypeOK, CommandInv, TableTypeOK, Waits
<1>7. PICK t : t = rows'[remoteId[l]].content["status"]
  OBVIOUS
<1>8. Within(StatusOf(remoteId[l]), t)
  BY <1>6, <1>7 DEF Aged
<1>9. ~was.dirty => Tracks(was, t)
  BY <1>5, <1>8, TracksOn DEF Waits
<1>10. StatusOf(remoteId[ui.lid])' = t
  BY <1>3, <1>4, <1>7 DEF StatusOf
<1>11. PICK sent : sent = patch'["desktop"]
  OBVIOUS
<1>12. /\ sent.pc \in {"read", "ok"} => sent.rid = remoteId[l] /\ sent.to = to
       /\ sent.pc = "ok" => Within(to, t)
  <2>1. ServerTypeOK /\ "desktop" \in Client
    BY TypeParts DEF Client
  <2>2. CASE SendPatch
    <3>1. sent = IF Live(remoteId[l]) /\ Transition(StatusOf(remoteId[l]), to)
                 THEN Patch("read", remoteId[l], StatusOf(remoteId[l]), to, clock')
                 ELSE Patch("refused", remoteId[l], "open", to, 0)
      BY <1>1, <1>2, <1>3, <1>11, <2>1, <2>2 DEF SendPatch, PatchRead, ServerTypeOK, StatusOf
    <3> QED BY <3>1 DEF Patch
  <2>3. CASE CommitPatch
    <3> DEFINE p == patch["desktop"]
               hit == Live(p.rid) /\ rows[p.rid].content["status"] = p.from
    <3>1. p.pc = "read" /\ p.rid = remoteId[l] /\ p.to = to
      BY <1>5, <2>3 DEF CommitPatch, PatchCommit, Waits
    <3>2. sent = Patch(IF hit THEN "ok" ELSE "refused", p.rid, p.from, p.to, p.at)
      BY <1>11, <2>1, <2>3 DEF CommitPatch, PatchCommit, ServerTypeOK
    <3>3. sent.rid = remoteId[l] /\ sent.to = to /\ (sent.pc = "ok" <=> hit)
      BY <3>1, <3>2 DEF Patch
    <3>4. hit => t = to
      <4>1. hit => rows' = [rows EXCEPT ![p.rid] =
                              Row("live", Incident(rows[p.rid].content["text"], p.to), rows[p.rid].owner, p.at)]
        BY <2>3 DEF CommitPatch, PatchCommit
      <4>2. hit => rows'[remoteId[l]].content = Incident(rows[p.rid].content["text"], to)
        BY <1>6, <2>1, <3>1, <4>1 DEF ServerTypeOK, Row
      <4> QED BY <1>7, <4>2 DEF Incident, Field
    <3> QED BY <3>3, <3>4 DEF Within
  <2> QED BY <2>2, <2>3
<1>13. /\ pc' = "idle" /\ remoteId'[l] # NoRid
       /\ ~was.conflict /\ was.content["status"] # "resolved"
       /\ inc'[l] = Columns(Incident(was.content["text"], to), TRUE, FALSE, ui'.at, was.base, was.remote)
  BY <1>4, <1>5 DEF Waits
<1>14. Waits(ui.lid, ui.before, NextStatus(ui.before.content["status"]), patch["desktop"])'
  BY <1>1, <1>2, <1>3, <1>4, <1>9, <1>10, <1>11, <1>12, <1>13 DEF Waits
<1> QED BY <1>14 DEF WaitInv

LEMMA StepWait ==
  ASSUME TypeInv, \A l \in LocalId : RowInv(l), Aged, WaitInv, [Next]_vars
  PROVE  WaitInv'
<1>1. CASE StartPoll
  BY <1>1 DEF StartPoll, WaitInv
<1>2. CASE PollStep /\ ~StartPoll
  <2>1. UNCHANGED <<ui, torn>> /\ pc # "idle"
    BY <1>2 DEF PollStep, Push, GiveUp, DropRefused, AssignRemoteId, MarkSynced,
                UpdateBase, FetchPage, MergeRow, NextPage, FinishPull
  <2> QED BY <2>1 DEF WaitInv, Waits
<1>3. CASE Restart \/ LosePatch \/ PatchAccepted \/ PatchRefused \/ EraseLocally
  <2>1. ui' = NoCommand
    BY <1>3 DEF Restart, LosePatch, PatchAccepted, PatchRefused, EraseLocally
  <2> QED BY <2>1 DEF NoCommand, Command, WaitInv
<1>4. CASE SendPatch \/ CommitPatch
  BY <1>4, PatchWaits
<1>5. ASSUME NEW l \in LocalId, ChangeStatus(l)
      PROVE  WaitInv'
  BY <1>5, ChangeStatusWaits
<1>6. ASSUME NEW l \in LocalId, DeleteIncident(l)
      PROVE  WaitInv'
  BY <1>6 DEF DeleteIncident, Command, WaitInv
<1>7. CASE DropAnswer
  BY <1>7 DEF DropAnswer, WaitInv
<1>8. ASSUME NEW l \in LocalId, UNCHANGED <<ui, pc, patch, remoteId>>, Touch(l, Busy(l)),
             \A k \in LocalId \ {l} : inc'[k] = inc[k]
      PROVE  WaitInv'
  <2>1. torn \subseteq torn'
    BY <1>8 DEF Touch
  <2>2. ui.do = "patch" => \/ ui.lid \in torn'
                           \/ inc'[ui.lid] = inc[ui.lid] /\ remoteId'[ui.lid] = remoteId[ui.lid]
    BY <1>8, TypeParts DEF Touch, Busy, DeskTypeOK, CommandInv
  <2> QED BY <1>8, <2>1, <2>2, WaitKept
<1>9. ASSUME NEW t \in Text, CreateLocally(t)
      PROVE  WaitInv'
  <2>1. PICK n \in LocalId :
          /\ inc' = [inc EXCEPT ![n] = Columns(Incident(t, "open"), TRUE, FALSE, clock', NoContent, NoContent)]
          /\ Touch(n, Busy(n))
    BY <1>9 DEF CreateLocally
  <2>2. UNCHANGED <<ui, pc, patch, remoteId>> /\ \A k \in LocalId \ {n} : inc'[k] = inc[k]
    BY <1>9, <2>1, TypeParts DEF CreateLocally, pollVars, TableTypeOK
  <2> QED BY <1>8, <2>1, <2>2
<1>10. ASSUME NEW l \in LocalId,
              \/ \E t \in Text : EditLocally(l, t)
              \/ \E a \in BOOLEAN : ResolveConflict(l, a)
       PROVE  WaitInv'
  <2>1. /\ UNCHANGED <<ui, pc, patch, remoteId>> /\ Touch(l, Busy(l))
        /\ \A k \in LocalId \ {l} : inc'[k] = inc[k]
    BY <1>10, TypeParts DEF EditLocally, ResolveConflict, serverVars, pollVars, TableTypeOK
  <2> QED BY <1>8, <2>1
<1>11. CASE Others
  <2>1. UNCHANGED <<ui, pc, inc, remoteId, torn>>
    BY <1>11 DEF Others, tableVars, pollVars
  <2>2. patch'["desktop"] = patch["desktop"]
    BY <1>11, TypeParts DEF Others, OthersStep, Create, PatchRead, PatchCommit, PatchAnswered,
                            RemoveIncident, Sync, ServerTypeOK, Client
  <2> QED BY <2>1, <2>2, WaitKept
<1>12. CASE UNCHANGED vars
  BY <1>12, WaitKept DEF vars, serverVars, tableVars, pollVars
<1> QED BY <1>1, <1>2, <1>3, <1>4, <1>5, <1>6, <1>7, <1>9, <1>10, <1>11, <1>12 DEF Next, UserStep
LEMMA MergedKept ==
  ASSUME MergedInv, UNCHANGED <<rows, tableVars, since, seen, torn, calm>>,
         pc' \in Pulling => pc \in Pulling
  PROVE  MergedInv'
BY DEF MergedInv, tableVars, Known, Steady, LiveLocally

LEMMA MergeRowMerged ==
  ASSUME TypeInv, TableInv, PullInv, RestInv, MergedInv, MergeRow
  PROVE  MergedInv'
<1>1. PICK x : x = Head(rest)
  OBVIOUS
<1>2. PICK n \in LocalId : MergedAs(n, x)
  BY <1>1, MergeRowMerges
<1>3. /\ UNCHANGED <<rows, since, torn, calm, pc>> /\ pc = "merge" /\ seen' = seen \cup {x.rid}
      /\ rest # <<>>
  BY <1>1 DEF MergeRow, serverVars
<1> SUFFICES ASSUME calm, since = 0, NEW r \in seen'
             PROVE  /\ Known(r)' # {}
                    /\ \A l \in LocalId : Steady(l)' /\ ~inc'[l].conflict /\ remoteId'[l] = r
                         => inc'[l].content = rows[r].content
  BY <1>3 DEF MergedInv
<1>4. x.content = rows[x.rid].content
  <2> DEFINE T == {Answered(q) : q \in Found(0)}
  <2>1. rest \in Seq(T)
    BY <1>3 DEF PullInv, PageInv, Pulling
  <2> HIDE DEF T
  <2>2. x \in T
    BY <1>1, <1>3, <2>1
  <2>3. PICK q \in Found(0) : x = Answered(q)
    BY <2>2 DEF T
  <2> QED BY <2>3 DEF Answered
<1>5. r # x.rid => /\ r \in seen
                   /\ Known(r) # {}
                   /\ \A l \in LocalId : Steady(l) /\ ~inc[l].conflict /\ remoteId[l] = r
                        => inc[l].content = rows[r].content
  BY <1>3 DEF MergedInv, Pulling
<1>6. \A k \in LocalId \ {n} : /\ state'[k] = state[k] /\ inc'[k] = inc[k] /\ remoteId'[k] = remoteId[k]
                               /\ remoteId[k] # x.rid
  BY <1>2 DEF MergedAs
<1>7. remoteId'[n] = x.rid /\ state'[n] \in {"live", "tomb"}
  BY <1>2 DEF MergedAs
<1>8. CASE r = x.rid
  <2>1. n \in Known(r)'
    BY <1>7, <1>8 DEF Known
  <2>2. \A l \in LocalId : remoteId'[l] = r => l = n
    BY <1>6, <1>8
  <2>3. Steady(n)' /\ ~inc'[n].conflict => inc'[n].content = rows[r].content
    BY <1>2, <1>4, <1>8 DEF MergedAs
  <2> QED BY <2>1, <2>2, <2>3
<1>9. CASE r # x.rid
  <2>1. PICK k \in LocalId : state[k] \in {"live", "tomb"} /\ remoteId[k] = r
    BY <1>5, <1>9 DEF Known
  <2>2. k # n
    BY <1>2, <1>9, <2>1 DEF MergedAs
  <2>3. k \in Known(r)'
    BY <1>6, <2>1, <2>2 DEF Known
  <2>4. ASSUME NEW l \in LocalId, Steady(l)', ~inc'[l].conflict, remoteId'[l] = r
        PROVE  inc'[l].content = rows[r].content
    <3>1. l # n
      BY <1>7, <1>9, <2>4
    <3>2. state'[l] = state[l] /\ inc'[l] = inc[l] /\ remoteId[l] = r
      BY <1>6, <2>4, <3>1
    <3>3. Steady(l)
      BY <1>3, <2>4, <3>2 DEF Steady, LiveLocally
    <3> QED BY <1>5, <1>9, <2>4, <3>2, <3>3
  <2> QED BY <2>3, <2>4
<1> QED BY <1>8, <1>9
LEMMA StepMerged ==
  ASSUME TypeInv, TableInv, PullInv, RestInv, MergedInv, [Next]_vars
  PROVE  MergedInv'
<1>1. ASSUME calm' = FALSE PROVE MergedInv'
  BY <1>1 DEF MergedInv
<1>2. CASE StartPoll
  <2>1. seen' = {}
    BY <1>2 DEF StartPoll
  <2> QED BY <2>1 DEF MergedInv
<1>3. ASSUME Push \/ \E l \in LocalId : DropRefused(l) \/ AssignRemoteId(l) \/ MarkSynced(l) \/ UpdateBase(l)
      PROVE  MergedInv'
  <2>1. pc \in Pushing /\ UNCHANGED seen
    BY <1>3 DEF Push, DropRefused, AssignRemoteId, MarkSynced, UpdateBase, Pushing
  <2>2. seen' = {}
    BY <2>1 DEF PullInv
  <2> QED BY <2>2 DEF MergedInv
<1>4. CASE FetchPage \/ NextPage
  BY <1>4, MergedKept DEF FetchPage, NextPage, serverVars, Pulling
<1>5. CASE MergeRow
  BY <1>5, MergeRowMerged
<1>6. CASE GiveUp \/ FinishPull \/ Restart \/ Others
  BY <1>1, <1>6 DEF GiveUp, FinishPull, Restart, Others
<1>7. CASE SendPatch \/ DropAnswer
  BY <1>7, MergedKept DEF SendPatch, PatchRead, DropAnswer, PatchAnswered, pollVars
<1>8. CASE UserStep /\ ~(SendPatch \/ DropAnswer)
  <2>1. calm' = FALSE
    BY <1>8 DEF UserStep, CreateLocally, EditLocally, ChangeStatus, DeleteIncident,
       ResolveConflict, CommitPatch, LosePatch, PatchAccepted, PatchRefused, EraseLocally, Touch
  <2> QED BY <1>1, <2>1
<1>9. CASE UNCHANGED vars
  BY <1>9, MergedKept DEF vars, serverVars, pollVars
<1> QED BY <1>2, <1>3, <1>4, <1>5, <1>6, <1>7, <1>8, <1>9 DEF Next, PollStep

LEMMA StepSkips ==
  ASSUME skipped = {}, Moderates, [Next]_vars
  PROVE  skipped' = {}
<1>1. CASE Push
  BY <1>1 DEF Push, Skipped, MayOverwrite
<1>2. CASE PollStep /\ ~Push
  BY <1>2 DEF PollStep, StartPoll, GiveUp, DropRefused, AssignRemoteId, MarkSynced,
              UpdateBase, FetchPage, MergeRow, NextPage, FinishPull, EndPoll
<1>3. CASE UserStep
  BY <1>3 DEF UserStep, CreateLocally, EditLocally, ChangeStatus, DeleteIncident, ResolveConflict,
     SendPatch, CommitPatch, LosePatch, DropAnswer, PatchAccepted, PatchRefused, EraseLocally, pollVars
<1>4. CASE Restart \/ Others \/ UNCHANGED vars
  BY <1>4 DEF Restart, EndPoll, Others, vars, pollVars
<1> QED BY <1>1, <1>2, <1>3, <1>4 DEF Next

LEMMA StepRole ==
  ASSUME [Next]_vars
  PROVE  Moderates' = Moderates
<1>1. role' = role
  BY DEF Next, PollStep, StartPoll, Push, GiveUp, DropRefused, AssignRemoteId, MarkSynced,
     UpdateBase, FetchPage, MergeRow, NextPage, FinishPull, UserStep, CreateLocally, EditLocally,
     ChangeStatus, DeleteIncident, ResolveConflict, SendPatch, CommitPatch, LosePatch, DropAnswer,
     PatchAccepted, PatchRefused, EraseLocally, Restart, Others, vars
<1> QED BY <1>1 DEF Moderates

LEMMA StepConverges ==
  ASSUME TypeInv, TypeInv', TableInv, PullInv, PatchInv, OpenInv, ConvInv, [Next]_vars
  PROVE  OpenInv' /\ ConvInv'
<1>1. OpenInv' /\ Aged
  BY StepAges, TypeParts DEF Aged
<1>2. ASSUME Moderates
      PROVE  SteadyInv' /\ MergedInv'
  <2>1. SteadyInv /\ MergedInv
    BY <1>2 DEF ConvInv
  <2>2. \A l \in LocalId : RowInv(l)'
    BY <1>1, <2>1, StepRows DEF SteadyInv
  <2>3. RestInv'
    BY <1>1, <2>1, StepRest DEF SteadyInv
  <2>4. WaitInv'
    BY <1>1, <2>1, StepWait DEF SteadyInv
  <2>5. skipped' = {}
    BY <1>2, <2>1, StepSkips DEF SteadyInv
  <2>6. MergedInv'
    BY <2>1, StepMerged DEF SteadyInv
  <2> QED BY <2>2, <2>3, <2>4, <2>5, <2>6 DEF SteadyInv
<1> QED BY <1>1, <1>2, StepRole DEF ConvInv

LEMMA InitConverges == Init => OpenInv /\ ConvInv /\ PatchInv
<1> SUFFICES ASSUME Init PROVE OpenInv /\ ConvInv /\ PatchInv
  OBVIOUS
<1>1. OpenInv /\ PatchInv
  BY DEF Init, ServerInit, OpenInv, StatusOf, Absent, Row, Incident, Field, PatchInv, NoPatch, Patch
<1>2. \A l \in LocalId : RowInv(l)
  BY DEF Init, RowInv, Steady, LiveLocally
<1>3. RestInv /\ WaitInv /\ MergedInv /\ skipped = {}
  BY DEF Init, RestInv, WaitInv, NoCommand, Command, MergedInv
<1> QED BY <1>1, <1>2, <1>3 DEF ConvInv, SteadyInv

LEMMA ConvInvariant ==
  Spec => [](TypeInv /\ TableInv /\ ServerInv /\ PullInv /\ PatchInv /\ OpenInv /\ ConvInv)
<1>1. Init => TypeInv /\ PatchInv /\ OpenInv /\ ConvInv
  BY InitTypes, InitConverges
<1>2. TypeInv /\ TableInv /\ PullInv /\ PatchInv /\ OpenInv /\ ConvInv /\ [Next]_vars
        => PatchInv' /\ OpenInv' /\ ConvInv'
  BY StepTypes, StepAdvances, StepConverges
<1> QED BY <1>1, <1>2, PullInvariant, PTL DEF Spec

\* A complete full pull that nothing disturbed leaves a moderator's desktop with
\* every incident of the server, and every local row as the server has it, except
\* conflicts and torn rows.
THEOREM PullConverges == Spec => FullPullConverges
<1> DEFINE Converges == pc = "merge" /\ pc' = "idle" /\ since' # 0 /\ CompleteFullPull /\ calm /\ Moderates
                          => Converged'
<1>1. ASSUME TypeInv, TableInv, ServerInv, PullInv, ConvInv, [Next]_vars
      PROVE  Converges
  <2> SUFFICES ASSUME pc = "merge", pc' = "idle", since' # 0, CompleteFullPull, calm, Moderates
               PROVE  Converged'
    OBVIOUS
  <2>1. FinishPull
    BY <1>1 DEF Next, PollStep, StartPoll, Push, GiveUp, DropRefused, AssignRemoteId, MarkSynced,
       UpdateBase, FetchPage, MergeRow, NextPage, UserStep, CreateLocally, EditLocally, ChangeStatus,
       DeleteIncident, ResolveConflict, SendPatch, CommitPatch, LosePatch, DropAnswer, PatchAccepted,
       PatchRefused, EraseLocally, Restart, Others, vars, pollVars
  <2>2. /\ UNCHANGED <<rows, remoteId, torn>>
        /\ rest = <<>> /\ lastPage /\ since = 0
        /\ state' = [l \in LocalId |-> IF Orphan(l) THEN "tomb" ELSE state[l]]
        /\ inc' = [l \in LocalId |-> IF Orphan(l) THEN Clean(inc[l]) ELSE inc[l]]
    BY <2>1 DEF FinishPull, CompleteFullPull, serverVars
  <2>3. Found(0) = seen
    <3>1. PageInv
      BY <1>1, <2>2 DEF PullInv, Pulling
    <3>2. Coming = {}
      BY <2>2 DEF Coming
    <3> QED BY <2>2, <3>1, <3>2 DEF PageInv
  <2>4. MergedInv /\ \A l \in LocalId : RowInv(l)
    BY <1>1 DEF ConvInv, SteadyInv
  <2>5. \A r \in seen :
          /\ Known(r) # {}
          /\ \A l \in LocalId : Steady(l) /\ ~inc[l].conflict /\ remoteId[l] = r
               => inc[l].content = rows[r].content
    BY <2>2, <2>4 DEF MergedInv, Pulling
  <2>6. ASSUME NEW l \in LocalId \ torn', state'[l] = "live", ~inc'[l].conflict
        PROVE  /\ remoteId[l] # NoRid /\ ~inc'[l].dirty
               /\ Live(remoteId[l]) /\ rows[remoteId[l]].content = inc'[l].content
    <3>1. ~Orphan(l) /\ state[l] = "live" /\ inc'[l] = inc[l]
      BY <2>2, <2>6
    <3>2. Steady(l)
      BY <2>2, <2>6, <3>1 DEF Steady, LiveLocally
    <3>3. ~Unsent(l) /\ ~Halfway(l)
      BY DEF Unsent, Halfway, Pushing
    <3>4. ~inc[l].dirty
      BY <2>4, <2>6, <3>1, <3>2, <3>3 DEF RowInv
    <3>5. remoteId[l] # NoRid
      BY <2>4, <2>6, <3>1, <3>2, <3>3, <3>4 DEF RowInv
    <3>6. remoteId[l] \in seen
      BY <3>1, <3>5 DEF Orphan, LiveLocally
    <3>7. Live(remoteId[l])
      BY <2>3, <3>6 DEF Found
    <3> QED BY <2>5, <2>6, <3>1, <3>2, <3>4, <3>5, <3>6, <3>7
  <2>7. ASSUME NEW r \in Rid, Live(r)
        PROVE  Known(r)' # {}
    <3>1. rows[r].at >= 1 /\ rows[r].at \in Nat
      BY <1>1, <2>7, TypeParts DEF ServerInv, Live, ServerTypeOK
    <3>2. r \in Found(0)
      BY <2>7, <3>1 DEF Found
    <3>3. PICK l \in Known(r) : TRUE
      BY <2>3, <2>5, <3>2
    <3>4. l \in Known(r)'
      BY <2>2, <3>3 DEF Known
    <3> QED BY <3>4
  <2> QED BY <2>2, <2>6, <2>7 DEF Converged, Live, LiveLocally
<1>2. TypeInv /\ TableInv /\ ServerInv /\ PullInv /\ ConvInv /\ [Next]_vars => [Converges]_vars
  BY <1>1
<1> QED BY <1>2, ConvInvariant, PTL DEF Spec, FullPullConverges

=============================================================================
