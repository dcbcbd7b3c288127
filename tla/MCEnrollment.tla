------------------------------ MODULE MCEnrollment ------------------------------
(* Instances of Enrollment for TLC.                                        *)
EXTENDS Enrollment

CONSTANTS c1, c2, a1, t1, acme

NoneOf == {}
OneConnector == {c1}
TwoConnectors == {c1, c2}
OneAgent == {a1}
OneToken == {t1}
OneWorkspace == {acme}
=============================================================================
