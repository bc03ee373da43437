----------------------------- MODULE MCAxNetLink -----------------------------
(* Model-checking instance of AxNetLink: see the AxNetLink*.cfg files.     *)
EXTENDS AxNetLink
=============================================================================
