----------------------------- MODULE MCPolicyPages -----------------------------
(* Model-checking instances of PolicyPages.                                *)
EXTENDS PolicyPages

MCNames == {"Default Policy", "guests", "Guests"}
MCFolded == [n \in MCNames |-> IF n = "Default Policy" THEN "Default Policy" ELSE "guests"]
MCDays == {-1, 0, 1}
MCHours == {0, 24}
=============================================================================
