----------------------------- MODULE MCUvaStart -----------------------------
(* The instance of UvaStart that TLC checks is given in MCUvaStart.cfg.    *)
EXTENDS UvaStart
=============================================================================
