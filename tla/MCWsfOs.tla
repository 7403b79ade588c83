------------------------------ MODULE MCWsfOs ------------------------------
(* The WSF dispatcher for TLC. *)
EXTENDS WsfOs
=============================================================================
