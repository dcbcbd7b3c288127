---------------------------- MODULE MCFirewallFeed ----------------------------
(* Instances of FirewallFeed for TLC.                                      *)
EXTENDS FirewallFeed

CONSTANTS ssh, web, tcp, udp

Rule(p, proto) == [port |-> p, protocol |-> proto]

MCPorts == {ssh, web}
MCProtocols == {tcp, udp}

\* The second policy keeps a port under another protocol and adds one before it.
MCPolicies == {<<Rule(ssh, udp)>>, <<Rule(web, tcp), Rule(ssh, tcp)>>}

\* A port is given up for another and taken again.
SwapPolicies == {<<Rule(ssh, tcp)>>, <<Rule(web, tcp)>>}
=============================================================================
