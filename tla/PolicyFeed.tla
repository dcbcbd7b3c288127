------------------------------ MODULE PolicyFeed ------------------------------
(***************************************************************************)
(* What the connector's firewall feed promises an agent, without channels, *)
(* buffers or tasks: policies are numbered as they are published; while it *)
(* is connected an agent takes policies that were current at some moment   *)
(* since it connected, perhaps twice and not always in order, and ends up  *)
(* with the newest.                                                        *)
(***************************************************************************)
EXTENDS Naturals

VARIABLES
  newest,  \* number of the newest policy, 0 before the first
  floor,   \* number of the newest policy when the agent connected
  got      \* number of the policy the agent took last, 0 for none yet

vars == <<newest, floor, got>>

Init == newest = 0 /\ floor = 0 /\ got = 0

Publish ==
  /\ newest' = newest + 1
  /\ UNCHANGED <<floor, got>>

\* The agent connects, or has lost its connection.
Connect ==
  /\ floor' = newest /\ got' = 0
  /\ UNCHANGED newest

Take ==
  /\ got' \in {n \in 1..newest : n >= floor}
  /\ UNCHANGED <<newest, floor>>

Next == Publish \/ Connect \/ Take

Spec == Init /\ [][Next]_vars

\* The newest policy is taken, however often the connection breaks.
CatchUp == got # newest /\ Take /\ got' = newest

FairSpec == Spec /\ WF_vars(CatchUp)
=============================================================================
