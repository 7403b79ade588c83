---------------------------- MODULE MCConfigStore ----------------------------
(* The configuration store for TLC.                                          *)
EXTENDS ConfigStore
=============================================================================
