------------------------ MODULE MCIngestionWatermark ------------------------
(* Instances of IngestionWatermark for TLC.                                  *)
EXTENDS IngestionWatermark
=============================================================================
