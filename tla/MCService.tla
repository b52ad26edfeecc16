----------------------------- MODULE MCService -----------------------------
(* Instance of the service and its executor for TLC.                       *)
EXTENDS PredictService
CONSTANTS t1, t2, t3, w1
=============================================================================
