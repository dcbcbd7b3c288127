----------------------------- MODULE MCFleetPages -----------------------------
\* A network with a connector, a network and a connector to be added.
EXTENDS FleetPages
=============================================================================
