---------------------------- MODULE MCResourcePages ----------------------------
(* Model-checking instances of ResourcePages.                              *)
EXTENDS ResourcePages
=============================================================================
