-------------------------- MODULE MCAxclHeartbeat --------------------------
(* Model-checking instance of AxclHeartbeat: see the .cfg files.           *)
EXTENDS AxclHeartbeat
=============================================================================
