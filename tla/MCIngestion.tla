------------------------------ MODULE MCIngestion ------------------------------
(***************************************************************************)
(* Instances of Ingestion for TLC.                                         *)
(***************************************************************************)
EXTENDS IngestionProperties, TLC

CONSTANTS m1

\* Every job delivers the same message.
Redelivered == [j \in Jobs |-> m1]
=============================================================================
