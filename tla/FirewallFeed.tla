----------------------------- MODULE FirewallFeed -----------------------------
(***************************************************************************)
(* How a firewall policy gets from the connector to an agent, composed     *)
(* with the agent's enforcer (module Firewall).  The connector stores each *)
(* policy it extracts from a snapshot and broadcasts it on a channel with  *)
(* a limited buffer (connector/src/main.rs); each stream of an agent is    *)
(* served by a task that sends the stored policy first and then what the   *)
(* channel brings (connector/src/control_plane.rs).  The agent hands one   *)
(* message at a time to the enforcer and dials again when the stream ends, *)
(* when its certificate was renewed and when it restarts (agent/src/run.rs).*)
(*                                                                         *)
(* There is one agent: agents share the stored policy and the channel,     *)
(* which they only read.                                                   *)
(***************************************************************************)
EXTENDS Firewall

CONSTANTS
  Capacity,   \* buffer of the broadcast channel (16)
  MaxStores,  \* bound: policies stored
  MaxDials,   \* bound: streams the agent opens
  MaxHalts    \* bound: orderly ends of the agent and reboots

ASSUME FeedAssumption ==
  Capacity \in Nat \ {0} /\ MaxStores \in Nat /\ MaxDials \in Nat /\ MaxHalts \in Nat

Dials == 1..MaxDials

VARIABLES
  stored,    \* the policies stored, in order; the last is LatestFirewallPolicy
  sent,      \* how many of them were sent on the channel
  task,      \* the task of each stream
  conn,      \* the stream the agent has, 0 for none
  dialled,   \* streams opened so far
  wire,      \* policies on their way to the agent, by number
  registry,  \* the agent is in the connector's AgentRegistry
  taken,     \* the policy the agent took last on its stream, 0 for none (history)
  floor,     \* how many policies were stored when it was opened (history)
  halts      \* so far

stream == <<conn, dialled, wire, taken, floor>>
feed == <<stored, sent, task, registry>>
feedVars == <<vars, stream, feed, halts>>

NoTask == [pc |-> "off", next |-> 0, deaf |-> FALSE]
Tasks == [pc : {"off", "first", "loop", "left", "done"}, next : 0..(MaxStores + 1), deaf : BOOLEAN]

FeedTypeOK ==
  /\ stored \in Seq(Policies) /\ Len(stored) <= MaxStores /\ sent \in 0..Len(stored)
  /\ task \in [Dials -> Tasks] /\ conn \in 0..MaxDials /\ dialled \in 0..MaxDials
  /\ wire \in Seq(1..Len(stored)) /\ registry \in BOOLEAN
  /\ taken \in 0..Len(stored) /\ floor \in 0..Len(stored) /\ halts \in 0..MaxHalts

FeedInit ==
  /\ Init
  /\ stored = <<>> /\ sent = 0 /\ task = [d \in Dials |-> NoTask]
  /\ conn = 0 /\ dialled = 0 /\ wire = <<>> /\ registry = FALSE
  /\ taken = 0 /\ floor = 0 /\ halts = 0

-----------------------------------------------------------------------------
(* The connector.                                                          *)

\* handle_control_message on a policy_snapshot: the policy is stored ...
Store(policy) ==
  /\ Len(stored) < MaxStores /\ sent = Len(stored)
  /\ stored' = Append(stored, policy)
  /\ UNCHANGED <<vars, stream, sent, task, registry, halts>>

\* ... and sent to whoever is subscribed by then.
Broadcast ==
  /\ sent < Len(stored)
  /\ sent' = Len(stored)
  /\ UNCHANGED <<vars, stream, stored, task, registry, halts>>

\* The task begins with the policy that is stored now.
SendFirst(d) ==
  /\ task[d].pc = "first"
  /\ task' = [task EXCEPT ![d].pc = "loop"]
  /\ IF stored = <<>> THEN UNCHANGED wire ELSE wire' = Append(wire, Len(stored))
  /\ UNCHANGED <<vars, conn, dialled, taken, floor, stored, sent, registry, halts>>

\* Messages the channel no longer has for a task.
Lost(d) == sent - task[d].next + 1 > Capacity

Recv(d) ==
  /\ task[d].pc = "loop" /\ ~task[d].deaf /\ task[d].next <= sent /\ ~Lost(d)
  /\ task' = [task EXCEPT ![d].next = @ + 1]
  /\ wire' = Append(wire, task[d].next)
  /\ UNCHANGED <<vars, conn, dialled, taken, floor, stored, sent, registry, halts>>

\* Mutant: a task that lags subscribes again.
LaggedAnew(d) ==
  /\ task[d].pc = "loop" /\ ~task[d].deaf /\ task[d].next <= sent /\ Lost(d)
  /\ task' = [task EXCEPT ![d].next = sent + 1]
  /\ UNCHANGED <<vars, stream, stored, sent, registry, halts>>

\* recv answers Lagged, which the branch's pattern Ok(..) does not match: the
\* select waits for its other branch, the agent's next message, and the
\* receiver goes on with the oldest policy that is left.
Lagged(d) ==
  /\ task[d].pc = "loop" /\ ~task[d].deaf /\ task[d].next <= sent /\ Lost(d)
  /\ task' = [task EXCEPT ![d].next = sent - Capacity + 1, ![d].deaf = TRUE]
  /\ UNCHANGED <<vars, stream, stored, sent, registry, halts>>

\* Mutant: an agent is put into the registry when it says hello.
HeartbeatOnce(d) ==
  /\ task[d].pc = "loop"
  /\ task' = [task EXCEPT ![d].deaf = FALSE]
  /\ registry' = (registry \/ taken = 0)
  /\ UNCHANGED <<vars, stream, stored, sent, halts>>

\* Mutant: a task that lagged once never listens again.
HeartbeatDeaf(d) ==
  /\ task[d].pc = "loop"
  /\ registry' = TRUE
  /\ UNCHANGED <<vars, stream, stored, sent, task, halts>>

\* The agent's heartbeat is read: it is recorded, and the task listens to the
\* channel again.
Heartbeat(d) ==
  /\ task[d].pc = "loop"
  /\ task' = [task EXCEPT ![d].deaf = FALSE]
  /\ registry' = TRUE
  /\ UNCHANGED <<vars, stream, stored, sent, halts>>

\* The task finds that its agent has left, at any time after it did (what it
\* sends until then nobody reads), and takes the agent out of the registry,
\* whichever of its tasks put it there.
TaskEnds(d) ==
  /\ task[d].pc = "left"
  /\ task' = [task EXCEPT ![d].pc = "done"]
  /\ registry' = FALSE
  /\ UNCHANGED <<vars, stream, stored, sent, halts>>

-----------------------------------------------------------------------------
(* The agent.                                                              *)

\* A new subscriber gets what is sent from now on.
Subscribed == sent + 1

\* connect_to_connector; connect subscribes before it starts the task.
Dial ==
  /\ pc \notin {"down"} /\ ~restoring /\ conn = 0 /\ dialled < MaxDials
  /\ conn' = dialled + 1 /\ dialled' = dialled + 1
  /\ task' = [task EXCEPT ![dialled + 1] = [pc |-> "first", next |-> Subscribed, deaf |-> FALSE]]
  /\ taken' = 0 /\ floor' = Len(stored)
  /\ UNCHANGED <<vars, wire, stored, sent, registry, halts>>

\* handle_inbound_message: the enforcer begins when it is done with the last.
Deliver ==
  /\ conn # 0 /\ wire # <<>> /\ pc = "idle"
  /\ Begin(stored[Head(wire)], FALSE)
  /\ taken' = Head(wire) /\ wire' = Tail(wire)
  /\ UNCHANGED <<conn, dialled, floor, feed, halts>>

\* The stream is gone, with what was on it.
Hangup ==
  /\ dialled < MaxDials
  /\ conn' = 0 /\ wire' = <<>> /\ taken' = 0 /\ floor' = Len(stored)
  /\ task' = [d \in Dials |-> IF d = conn THEN [pc |-> "left", next |-> 0, deaf |-> FALSE]
                             ELSE task[d]]
  /\ UNCHANGED <<dialled, stored, sent, registry>>

\* The stream ends or the certificate is renewed while no policy is handled.
StreamLost == conn # 0 /\ pc = "idle" /\ Hangup /\ UNCHANGED <<vars, halts>>

\* The certificate is renewed in the middle of a sync.
Renewed == conn # 0 /\ Cut /\ Hangup /\ UNCHANGED halts

Killed == Stop /\ Hangup /\ UNCHANGED halts

Halted == halts < MaxHalts /\ (CtrlC \/ Reboot) /\ Hangup /\ halts' = halts + 1

Enforce ==
  /\ (\E p \in Ports : RemoveStale(p)) \/ StaleDone \/ SkipHeld \/ Protect \/ AddRule
       \/ DeleteRule \/ DeleteDone \/ SyncDone \/ SaveState
  /\ UNCHANGED <<stream, feed, halts>>

CommandFails == (AddFails \/ DeleteFails \/ SaveFails) /\ UNCHANGED <<stream, feed, halts>>

Boot == (Start \/ StartUnrestored) /\ UNCHANGED <<stream, feed, halts>>

-----------------------------------------------------------------------------
TaskSteps(d) == SendFirst(d) \/ Recv(d) \/ Lagged(d) \/ TaskEnds(d)

FeedNext ==
  \/ (\E policy \in Policies : Store(policy)) \/ Broadcast
  \/ \E d \in Dials : TaskSteps(d) \/ Heartbeat(d)
  \/ Dial \/ Deliver \/ StreamLost \/ Renewed \/ Killed \/ Halted
  \/ Enforce \/ CommandFails \/ Boot

FeedSpec == FeedInit /\ [][FeedNext]_feedVars

\* The connector's tasks run, the agent is started again, dials for ever,
\* handles what it gets and sends heartbeats on a timer.  nft commands end; the
\* kernel never runs out of handles, MaxHandle does.
Fairness ==
  /\ WF_feedVars(Broadcast) /\ WF_feedVars(Dial) /\ WF_feedVars(Deliver)
  /\ WF_feedVars(Enforce) /\ WF_feedVars(Boot)
  /\ \A d \in Dials : WF_feedVars(TaskSteps(d)) /\ WF_feedVars(Heartbeat(d))

FairFeedSpec == FeedSpec /\ Fairness

-----------------------------------------------------------------------------
(* Properties.                                                             *)

Newest == stored[Len(stored)]

\* Nothing is under way between the connector and the agent, and the task of
\* its stream listens.
Still ==
  /\ conn # 0 /\ wire = <<>> /\ pc = "idle" /\ sent = Len(stored)
  /\ task[conn].pc = "loop" /\ ~task[conn].deaf /\ task[conn].next > sent

\* Whatever was cut off, lost, lagged or delivered out of order: when all is
\* still and no command failed, exactly the ports of the newest policy are
\* protected.  (connect subscribes before its task reads the stored policy, so
\* a policy stored in between comes twice or after a newer one, never not at
\* all; a sync cut off by a renewal is done again after the redial.)
NewestEnforced == (Still /\ stored # <<>> /\ settled) => Held = PortsOf(Newest)

\* The feed implements its promise: no agent is handed a policy older than the
\* one in force when it connected, and it ends up with the newest, with a
\* buffer of any size.
Promise == INSTANCE PolicyFeed WITH newest <- Len(stored), got <- taken
KeepsPromise == Promise!FairSpec

\* A connected agent ends up in the registry, and so in the heartbeats to the
\* controller, although the task of an old stream takes it out late
\* (control_plane.rs 106).
EndsUpRegistered == <>[](conn # 0) => <>[]registry

-----------------------------------------------------------------------------
(* The inductive invariant behind FeedTypeOK, NewestEnforced and the       *)
(* safety part of KeepsPromise.                                            *)

Sends(d) == task[d].pc \in {"first", "loop"}

\* Only the task of the agent's stream sends, and nothing that was superseded
\* when the stream was opened: connect subscribes before the task reads the
\* stored policy, and a policy is stored right before it is sent.
LinkOK ==
  /\ sent >= Len(stored) - 1 /\ conn <= dialled
  /\ \A d \in Dials : Sends(d) =>
       d = conn /\ task[d].next >= 1 /\ task[d].next >= floor /\ task[d].next <= sent + 1
  /\ conn # 0 => Sends(conn)
  /\ conn = 0 => wire = <<>> /\ taken = 0
  /\ \A i \in 1..Len(wire) : wire[i] >= floor

\* An agent that is down or restores its state has no stream.
AgentOK == (pc = "down" \/ restoring) => conn = 0

\* The policy the agent will have taken when all on the wire is delivered.
Last == IF wire = <<>> THEN taken ELSE wire[Len(wire)]

\* It is the newest, or somebody is still bound to send a newer one.
OwedOK ==
  conn # 0 => \/ task[conn].pc = "first" \/ task[conn].next <= sent
              \/ sent < Len(stored) \/ Last = Len(stored)

\* What the enforcer was asked for is what was taken.
WantedOK == (taken # 0 /\ settled) => wanted = stored[taken]

FeedInv == FeedTypeOK /\ LinkOK /\ AgentOK /\ OwedOK /\ WantedOK
=============================================================================
