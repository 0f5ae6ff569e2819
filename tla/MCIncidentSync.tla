--------------------------- MODULE MCIncidentSync ---------------------------
(* Instances of IncidentSync for TLC: the roles and the acts that each run  *)
(* explores.                                                                *)
EXTENDS IncidentSync

Moderator == {"moderator"}
Resident == {"resident"}
AnyRole == {"moderator", "resident"}

\* Commands only between polls; others write, requests get lost, the app dies.
QuietActs == {"edit", "status", "resolve", "others", "loss", "kill"}

\* Commands at any time.
OverlapActs == {"create", "edit", "status", "delete", "resolve", "overlap", "loss"}

\* What the refusal needs.
EditActs == {"edit", "loss"}
=============================================================================
