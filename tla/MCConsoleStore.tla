--------------------------- MODULE MCConsoleStore ---------------------------
(* Model-checking instance of ConsoleStore.                                *)
EXTENDS ConsoleStore
=============================================================================
