------------------------------- MODULE MCHciCmd -------------------------------
(* HciCmd for TLC: MCHciCmd.cfg and HciCmd_Timeout.cfg.                       *)
EXTENDS HciCmd
=============================================================================
