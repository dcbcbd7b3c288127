----------------------------- MODULE MCControlPlane -----------------------------
(* Model values for ControlPlane.                                          *)
EXTENDS ControlPlane

CONSTANTS c1, n1, allow, deny

OneConnector == {c1}
OneNotifier == {n1}
TwoContents == {allow, deny}
=============================================================================
