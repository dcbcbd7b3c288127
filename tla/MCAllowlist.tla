------------------------------ MODULE MCAllowlist ------------------------------
(* Instances of Allowlist for TLC.                                      *)
EXTENDS Allowlist

CONSTANTS a1, global, workspace

OneAgent == {a1}
OneDomain == {global}
TwoDomains == {global, workspace}
MCHome == global
=============================================================================
