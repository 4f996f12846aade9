------------------------- MODULE MCVersionedStores -------------------------
(* Instances of the versioned stores for TLC.                              *)
EXTENDS VersionedStores
=============================================================================
