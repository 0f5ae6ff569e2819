-------------------------- MODULE MCDesktopSession --------------------------
(* Instances of DesktopSession for TLC.                                      *)
EXTENDS DesktopSession, TLC

Administrators == [v \in User |-> "admin"]
Symmetric == Permutations(Pair) \cup Permutations(Sso) \cup Permutations(Request)
               \cup Permutations(Thread)
=============================================================================
