-------------------------- MODULE MCBacktestLedger --------------------------
(* The instances of MCReferenceEngine, followed to the recording of the run. *)
EXTENDS BacktestLedger, MCReferenceEngine
=============================================================================
