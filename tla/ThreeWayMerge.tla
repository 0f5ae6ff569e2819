---------------------------- MODULE ThreeWayMerge ----------------------------
(***************************************************************************)
(* The per-field merge rules of the desktop client (ThreeWayMerger.java).  *)
(* Title and description follow the same rule and are always edited        *)
(* together, so they are one field, "text".                                *)
(***************************************************************************)
CONSTANT Text

Status == {"open", "in_progress", "resolved"}
Field == {"text", "status"}

\* A snapshot of an incident: base, local or remote.
Content == {c \in [Field -> Text \cup Status] :
              c["text"] \in Text /\ c["status"] \in Status}

Incident(t, s) == [f \in Field |-> IF f = "text" THEN t ELSE s]

\* Mutant of ResolveField: an unchanged field keeps the local value.
ResolveLocal(base, local, remote) == local

\* Mutant of ResolveField: the server's value is always taken.
ResolveRemote(base, local, remote) == remote

\* The merged value of a field; in a conflict it is the local one.
ResolveField(base, local, remote) ==
  IF local = base THEN remote ELSE local

InConflict(base, local, remote) ==
  local # base /\ remote # base /\ local # remote

Merge(base, local, remote) ==
  [f \in Field |-> ResolveField(base[f], local[f], remote[f])]

HasConflict(base, local, remote) ==
  \E f \in Field : InConflict(base[f], local[f], remote[f])

=============================================================================
