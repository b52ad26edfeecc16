------------------------------ MODULE MCGate ------------------------------
(* Instance of the health gate for TLC.                                    *)
EXTENDS HealthGate
=============================================================================
