------------------------------ MODULE MCAxNetTx ------------------------------
(* Model-checking instance of AxNetTx: see AxNetTx.cfg.                    *)
EXTENDS AxNetTx
=============================================================================
