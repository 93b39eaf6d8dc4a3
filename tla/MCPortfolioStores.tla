-------------------------- MODULE MCPortfolioStores --------------------------
(* Small instances of PortfolioStores.                                       *)
EXTENDS PortfolioStores, TLC

CONSTANTS a, b, i, j, v1, v2

\* Trips are alike, and so are Skill revisions; their values also stand for the
\* processes and the identities of a store.  No liveness property is checked.
Symmetry == Permutations({a, b}) \cup Permutations({i, j})
=============================================================================
