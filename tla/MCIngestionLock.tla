--------------------------- MODULE MCIngestionLock ---------------------------
(* Instances of IngestionLock for TLC.                                       *)
EXTENDS IngestionLock
=============================================================================
