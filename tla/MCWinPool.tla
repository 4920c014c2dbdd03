------------------------------ MODULE MCWinPool ------------------------------
(* Constants for the runs of WinPool.                                      *)
EXTENDS WinPool

AllSchedules == {"static", "dynamic", "guided", "steal"}
=============================================================================
