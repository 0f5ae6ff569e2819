--------------------------- MODULE MCBookingSaga ----------------------------
(* Instances of BookingSaga for TLC: sets of calls and symmetry.             *)
EXTENDS BookingSaga, TLC

CONSTANTS owner, alice, bob

Floor == -2
NoCalls == {}
AllCalls == Call

\* Settlement commits are acknowledged: a lost answer of Postgres is the one
\* fault that PaidIsSignedByAll does not survive.
AckedSettlement == Call \ {"settle"}

NoDirect == {}
OneDirect == {{owner, alice}}
SymmetryRC == Permutations(Request) \cup Permutations(Contract)
=============================================================================
