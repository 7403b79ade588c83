------------------------------- MODULE MCHciAcl -------------------------------
(* Model-checking instance of HciAcl.                                        *)
EXTENDS HciAcl
=============================================================================
