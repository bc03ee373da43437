---------------------------- MODULE MCHandshake ----------------------------
(* Model-checking instance of Handshake: see the .cfg files.               *)
EXTENDS Handshake
=============================================================================
