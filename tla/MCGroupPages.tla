----------------------------- MODULE MCGroupPages -----------------------------
(* Model-checking instances of GroupPages.                                 *)
EXTENDS GroupPages
=============================================================================
