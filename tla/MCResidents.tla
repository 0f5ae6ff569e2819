---------------------------- MODULE MCResidents -----------------------------
(* A browser and its session, the neighborhoods, the listings: parts of the  *)
(* system that share no state, in one instance for TLC. A behaviour moves    *)
(* one of them and leaves the others where they start: steps of two parts    *)
(* commute, so that interleaving them would show nothing more.               *)
EXTENDS BrowserSession, Neighborhoods, Listings, TLC

CONSTANTS
  r1, r2,   \* requests and calls of the neighborhoods and the listings
  x, y      \* points and titles

VARIABLE part   \* the part that moves

Symmetric ==
  UNION {Permutations(S) : S \in {{r1, r2}, Pair}}

ResidentsTypeOK == BrowserTypeOK /\ NeighborhoodsTypeOK /\ ListingsTypeOK

ResidentsInit ==
  /\ part \in {"browser", "neighborhoods", "listings"}
  /\ BrowserInit /\ NeighborhoodsInit /\ ListingsInit

ResidentsNext ==
  \/ /\ part = "browser" /\ BrowserNext
     /\ UNCHANGED <<part, neighborhoodsVars, listingsVars>>
  \/ /\ part = "neighborhoods" /\ NeighborhoodsNext
     /\ UNCHANGED <<part, browserVars, listingsVars>>
  \/ /\ part = "listings" /\ ListingsNext
     /\ UNCHANGED <<part, browserVars, neighborhoodsVars>>

residentsVars == <<part, browserVars, neighborhoodsVars, listingsVars>>

ResidentsSpec == ResidentsInit /\ [][ResidentsNext]_residentsVars
=============================================================================
