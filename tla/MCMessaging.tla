----------------------------- MODULE MCMessaging -----------------------------
(* Small instances of Messaging for TLC.                                     *)
EXTENDS Messaging, TLC

\* Markers are interchangeable, and so are the messages of the neighbor.
Symmetry == Permutations(Mark) \cup Permutations(Message \ Own)
=============================================================================
