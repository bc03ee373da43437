---------------------------- MODULE MCMsgDoorbell ----------------------------
(* Model-checking instance of MsgDoorbell: see the MsgDoorbell*.cfg files.  *)
EXTENDS MsgDoorbell
=============================================================================
