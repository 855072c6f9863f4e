--------------------------- MODULE TransactionMC ---------------------------
(* The transaction engine on small instances; the last target is hook-owned. *)
EXTENDS TransactionRefinement

MCHooked == {N}
MCAdoptingNone == {}
MCAdoptingAll  == MCHooked
MCContents == {"absent", "old", "new", "foreign"}
=============================================================================
