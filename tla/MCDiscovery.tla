----------------------------- MODULE MCDiscovery -----------------------------
\* Two openings of the page, scans that find one service.
EXTENDS Discovery
=============================================================================
