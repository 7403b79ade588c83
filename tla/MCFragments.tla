---------------------------- MODULE MCFragments -----------------------------
(* Model-checking instance of Fragments: lengths of two to four fragments,   *)
(* the last one full or not, and of one fragment too many.                   *)
EXTENDS Fragments
=============================================================================
