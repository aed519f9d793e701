----------------------- MODULE MCReconciliationWorker -----------------------
(* Three events at two instants, batches of two, a run time that one tick   *)
(* of the clock uses up, and an event that cannot be processed.              *)
EXTENDS ReconciliationWorker, TLC

MCAt == <<1, 1, 2>>
=============================================================================
