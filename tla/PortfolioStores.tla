--------------------------- MODULE PortfolioStores ---------------------------
(***************************************************************************)
(* The portfolio, and under it the append-only files of evolve, one of     *)
(* which is the portfolio's own log.  Portfolio takes an append as one     *)
(* durable step; DurableStores looks at the accesses such an append is     *)
(* made of.  A behaviour is one of the portfolio, over logs that are       *)
(* taken as durable, or one of a store, while the portfolio rests.         *)
(***************************************************************************)
EXTENDS Portfolio

CONSTANTS Kinds, Procs, Ids, Values, Nobody, Dead, Absent, Partial, Torn, Garbage,
          MaxStoreFaults

VARIABLES
    part,       \* what this behaviour looks at
    kind, log, terminated, files, lease, pc, request, view, acked, storeFaults

Stores == INSTANCE DurableStores WITH MaxFaults <- MaxStoreFaults, faults <- storeFaults

ASSUME PortfolioStoresAssumption == Stores!StoresAssumption

store == <<kind, log, terminated, files, lease, pc, request, view, acked, storeFaults>>

NoStore ==
    /\ kind = None /\ log = None /\ terminated = None /\ files = None /\ lease = None
    /\ pc = None /\ request = None /\ view = None /\ acked = None /\ storeFaults = None

StartPortfolio == part = "portfolio" /\ NoStore
StartStore == part = "store" /\ Stores!Init

PartInit == Init /\ (StartPortfolio \/ StartStore)

PartNext ==
    /\ UNCHANGED part
    /\ \/ part = "portfolio" /\ Next /\ UNCHANGED store
       \/ part = "store" /\ Stores!Next /\ UNCHANGED vars

PartSpec == PartInit /\ [][PartNext]_<<vars, store, part>>

\* A record whose append returned is found by every reader that returns at all, up to
\* the losses that DurableStores!AcknowledgedIsFound names.
AcknowledgedIsFound == part = "store" => Stores!AcknowledgedIsFound

\* What a store holds is sound: one record for each identity where there is a lease,
\* and a whole artifact for each receipt.
StoredIsSound ==
    part = "store" => Stores!LeasedStoreIsSound /\ Stores!ArtifactBacksReceipt
=============================================================================
