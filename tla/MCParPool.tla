------------------------------ MODULE MCParPool ------------------------------
(* Constants for the runs of ParPool.                                      *)
EXTENDS ParPool

AllSchedules == {"static", "dynamic", "guided", "steal"}
=============================================================================
