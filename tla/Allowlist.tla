-------------------------------- MODULE Allowlist --------------------------------
(***************************************************************************)
(* Which agents a connector lets in.  The controller keeps the enrolled    *)
(* agents in memory (state/tunneler.go, AgentRegistry) and in the          *)
(* tunnelers table (state/persistence.go); NotifyAgentAllowed and          *)
(* sendAllowlist (api/control_plane.go) push them to the connector, whose  *)
(* allowlist (connector/src/allowlist.rs) is asked when an agent dials in  *)
(* (connector/src/control_plane.rs).                                       *)
(*                                                                         *)
(* An enrolment request, the Connect goroutine of each stream, the         *)
(* connector and the agents interleave.  Connectors do not influence each  *)
(* other here: there is one.  A SPIFFE id is the pair of an agent and the  *)
(* trust domain that issued it.                                            *)
(***************************************************************************)
EXTENDS Naturals, Sequences

CONSTANTS
  Agents,        \* agent ids
  Domains,       \* trust domains (one per workspace, and the controller's own)
  Home,          \* the trust domain the connector is configured with
  Unknown,       \* agent not seen, no row, or no certificate
  Blank,         \* the empty spiffe_id
  MaxStreams,    \* bound: control-plane streams the connector dials
  MaxEnrolments, \* bound: enrolment requests
  MaxRestarts    \* bound: controller restarts, connector restarts

Streams == 1..MaxStreams

ASSUME ConstantsAssumption ==
  /\ MaxStreams \in Nat /\ MaxEnrolments \in Nat /\ MaxRestarts \in Nat
  /\ Home \in Domains
  /\ Unknown \notin Domains /\ Blank \notin Domains /\ Unknown # Blank

VARIABLES
  registry,  \* AgentRegistry: the trust domain of an agent's listed SPIFFE id
  table,     \* tunnelers.spiffe_id
  cert,      \* the certificate the agent holds
  job,       \* the enrolment request in flight for an agent
  client,    \* the stream in ControlPlaneServer.clients, 0 for none
  pc,        \* where the Connect goroutine of a stream is
  listed,    \* the list sendAllowlist took
  open,      \* the stream the connector reads, 0 for none
  dials,     \* streams dialled so far
  wire,      \* messages on the open stream
  allow,     \* AgentAllowlist of the connector: SPIFFE ids
  sessions,  \* agents with a stream to the connector
  reports,   \* the connector's AgentRegistry: agents it reports in heartbeats
  enrolments, restarts,  \* so far
  issued,    \* SPIFFE ids ever issued (history)
  overtaken  \* agents whose agent_allow went out before an older list (history)

control == <<client, pc, listed>>
connector == <<open, dials, wire, allow, sessions, reports>>
vars == <<registry, table, cert, job, control, connector, enrolments, restarts,
          issued, overtaken>>

SpiffeIds == Agents \X Domains

NoJob == [pc |-> "off", domain |-> Unknown, to |-> 0]

Jobs == [pc : {"off", "add", "insert", "copy", "send"},
         domain : Domains \cup {Unknown}, to : 0..MaxStreams]

\* What a list entry may hold.
Listed == [Agents -> Domains \cup {Unknown, Blank}]

Messages == [type : {"agent_allowlist"}, list : Listed]
              \cup [type : {"agent_allow"}, id : SpiffeIds]

TypeOK ==
  /\ registry \in Listed /\ table \in Listed
  /\ cert \in [Agents -> Domains \cup {Unknown}]
  /\ job \in [Agents -> Jobs]
  /\ client \in 0..MaxStreams
  /\ pc \in [Streams -> {"off", "accepted", "list", "send", "recv", "closing", "done"}]
  /\ listed \in [Streams -> Listed]
  /\ open \in 0..MaxStreams /\ dials \in 0..MaxStreams
  /\ wire \in Seq(Messages)
  /\ allow \subseteq Agents \X (Domains \cup {Blank})
  /\ sessions \subseteq Agents /\ reports \subseteq Agents
  /\ enrolments \in 0..MaxEnrolments /\ restarts \in 0..MaxRestarts
  /\ issued \subseteq SpiffeIds /\ overtaken \subseteq Agents

Nobody == [a \in Agents |-> Unknown]

Init ==
  /\ registry = Nobody /\ table = Nobody /\ cert = Nobody
  /\ job = [a \in Agents |-> NoJob]
  /\ client = 0 /\ pc = [s \in Streams |-> "off"]
  /\ listed = [s \in Streams |-> Nobody]
  /\ open = 0 /\ dials = 0 /\ wire = <<>>
  /\ allow = {} /\ sessions = {} /\ reports = {}
  /\ enrolments = 0 /\ restarts = 0
  /\ issued = {} /\ overtaken = {}

-----------------------------------------------------------------------------
(* EnrollTunneler and NotifyAgentAllowed.                                  *)

\* The token is good and the certificate is issued under the CA and in the
\* trust domain of the token's workspace.
EnrollTunneler(a, d) ==
  /\ job[a].pc = "off"
  /\ enrolments < MaxEnrolments
  /\ enrolments' = enrolments + 1
  /\ job' = [job EXCEPT ![a] = [pc |-> "add", domain |-> d, to |-> 0]]
  /\ issued' = issued \cup {<<a, d>>}
  /\ UNCHANGED <<registry, table, cert, control, connector, restarts, overtaken>>

\* AgentRegistry.Add ignores an agent it has seen.
Add(reg, a, d) == [reg EXCEPT ![a] = IF @ = Unknown THEN d ELSE @]

AddAgent(a) ==
  /\ job[a].pc = "add"
  /\ registry' = Add(registry, a, job[a].domain)
  /\ job' = [job EXCEPT ![a].pc = "insert"]
  /\ UNCHANGED <<table, cert, control, connector, enrolments, restarts, issued, overtaken>>

\* The row is written so that the agent is known after a restart.
InsertAgent(a) ==
  /\ job[a].pc = "insert"
  /\ table' = [table EXCEPT ![a] = job[a].domain]
  /\ job' = [job EXCEPT ![a].pc = "copy"]
  /\ UNCHANGED <<registry, cert, control, connector, enrolments, restarts, issued, overtaken>>

\* Mutant: the enrolment is not announced to the connector.
CopyNobody(a) ==
  /\ job[a].pc = "copy"
  /\ job' = [job EXCEPT ![a].pc = "send"]
  /\ UNCHANGED <<registry, table, cert, control, connector, enrolments, restarts, issued,
                 overtaken>>

\* broadcast copies the client list under the lock, then sends.
CopyClients(a) ==
  /\ job[a].pc = "copy"
  /\ job' = [job EXCEPT ![a].pc = "send", ![a].to = client]
  /\ UNCHANGED <<registry, table, cert, control, connector, enrolments, restarts, issued,
                 overtaken>>

\* A send on a stream the connector has left is lost.
Deliver(s, m) == wire' = IF s # 0 /\ s = open THEN Append(wire, m) ELSE wire

\* agent_allow is sent and the response with the certificate returned.
SendAllow(a) ==
  /\ job[a].pc = "send"
  /\ Deliver(job[a].to, [type |-> "agent_allow", id |-> <<a, job[a].domain>>])
  /\ overtaken' = IF \E s \in Streams : s = job[a].to /\ pc[s] = "send"
                  THEN overtaken \cup {a} ELSE overtaken
  /\ cert' = [cert EXCEPT ![a] = job[a].domain]
  /\ job' = [job EXCEPT ![a] = NoJob]
  /\ UNCHANGED <<registry, table, control, open, dials, allow, sessions, reports,
                 enrolments, restarts, issued>>

-----------------------------------------------------------------------------
(* The Connect goroutine of stream s.                                      *)

\* addClient.
Register(s) ==
  /\ pc[s] = "accepted"
  /\ client' = s
  /\ pc' = [pc EXCEPT ![s] = "list"]
  /\ UNCHANGED <<registry, table, cert, job, listed, connector, enrolments, restarts,
                 issued, overtaken>>

\* sendAllowlist: the list is copied under the registry's lock ...
TakeList(s) ==
  /\ pc[s] = "list"
  /\ listed' = [listed EXCEPT ![s] = registry]
  /\ pc' = [pc EXCEPT ![s] = "send"]
  /\ UNCHANGED <<registry, table, cert, job, client, connector, enrolments, restarts,
                 issued, overtaken>>

\* ... and sent under the client's.
SendList(s) ==
  /\ pc[s] = "send"
  /\ Deliver(s, [type |-> "agent_allowlist", list |-> listed[s]])
  /\ listed' = [listed EXCEPT ![s] = Nobody]
  /\ pc' = [pc EXCEPT ![s] = "recv"]
  /\ UNCHANGED <<registry, table, cert, job, client, open, dials, allow, sessions,
                 reports, enrolments, restarts, issued, overtaken>>

\* A heartbeat carries the agents of the connector's registry.  Each is recorded
\* with an empty SPIFFE id, and SaveAgentToDB upserts its row with that.
HeartbeatAgent(s, a) ==
  /\ pc[s] = "recv" /\ open = s
  /\ a \in reports
  /\ table' = [table EXCEPT ![a] = Blank]
  /\ UNCHANGED <<registry, cert, job, control, connector, enrolments, restarts, issued,
                 overtaken>>

RecvFails(s) ==
  /\ pc[s] = "recv" /\ open # s
  /\ pc' = [pc EXCEPT ![s] = "closing"]
  /\ UNCHANGED <<registry, table, cert, job, client, listed, connector, enrolments,
                 restarts, issued, overtaken>>

\* removeClient deletes the connector's entry, whichever stream holds it.
RemoveClient(s) ==
  /\ pc[s] = "closing"
  /\ client' = 0
  /\ pc' = [pc EXCEPT ![s] = "done"]
  /\ UNCHANGED <<registry, table, cert, job, listed, connector, enrolments, restarts,
                 issued, overtaken>>

-----------------------------------------------------------------------------
(* The connector.                                                          *)

Dial ==
  /\ open = 0 /\ dials < MaxStreams
  /\ dials' = dials + 1
  /\ open' = dials + 1
  /\ pc' = [pc EXCEPT ![dials + 1] = "accepted"]
  /\ UNCHANGED <<registry, table, cert, job, client, listed, wire, allow, sessions,
                 reports, enrolments, restarts, issued, overtaken>>

Drop ==
  /\ open # 0
  /\ open' = 0 /\ wire' = <<>>
  /\ UNCHANGED <<registry, table, cert, job, control, dials, allow, sessions, reports,
                 enrolments, restarts, issued, overtaken>>

\* Mutant: entries without a SPIFFE id are kept.
ReplaceAll(list) == {<<a, list[a]>> : a \in {b \in Agents : list[b] # Unknown}}

\* AgentAllowlist.replace drops entries with an empty SPIFFE id.
Replace(list) == {<<a, list[a]>> : a \in {b \in Agents : list[b] \in Domains}}

\* handle_control_message on agent_allowlist and agent_allow.
Receive ==
  /\ wire # <<>>
  /\ LET m == Head(wire) IN
       allow' = IF m.type = "agent_allowlist" THEN Replace(m.list)
                ELSE allow \cup {m.id}
  /\ wire' = Tail(wire)
  /\ UNCHANGED <<registry, table, cert, job, control, open, dials, sessions, reports,
                 enrolments, restarts, issued, overtaken>>

\* connect: an agent of the connector's own trust domain dials in and its
\* SPIFFE id is looked up; then its heartbeats put it into the registry.
AgentConnects(a) ==
  /\ a \notin sessions
  /\ cert[a] = Home
  /\ <<a, cert[a]>> \in allow
  /\ sessions' = sessions \cup {a}
  /\ UNCHANGED <<registry, table, cert, job, control, open, dials, wire, allow, reports,
                 enrolments, restarts, issued, overtaken>>

AgentHeartbeat(a) ==
  /\ a \in sessions
  /\ reports' = reports \cup {a}
  /\ UNCHANGED <<registry, table, cert, job, control, open, dials, wire, allow, sessions,
                 enrolments, restarts, issued, overtaken>>

AgentLeaves(a) ==
  /\ a \in sessions
  /\ sessions' = sessions \ {a}
  /\ reports' = reports \ {a}
  /\ UNCHANGED <<registry, table, cert, job, control, open, dials, wire, allow,
                 enrolments, restarts, issued, overtaken>>

\* The connector process restarts with an empty allowlist.
RestartConnector ==
  /\ restarts < MaxRestarts
  /\ restarts' = restarts + 1
  /\ open' = 0 /\ wire' = <<>>
  /\ allow' = {} /\ sessions' = {} /\ reports' = {}
  /\ UNCHANGED <<registry, table, cert, job, control, dials, enrolments, issued, overtaken>>

-----------------------------------------------------------------------------
(* The controller process and the admin API.                               *)

\* main: LoadAgentRegistryFromDB adds every row, with an empty SPIFFE id too.
\* An enrolment in flight is lost; the agent gets no certificate.
RestartController ==
  /\ restarts < MaxRestarts
  /\ restarts' = restarts + 1
  /\ registry' = table
  /\ job' = [a \in Agents |-> NoJob]
  /\ client' = 0
  /\ pc' = [s \in Streams |-> IF pc[s] = "off" THEN "off" ELSE "done"]
  /\ listed' = [s \in Streams |-> Nobody]
  /\ open' = 0 /\ wire' = <<>>
  /\ UNCHANGED <<table, cert, dials, allow, sessions, reports, enrolments, issued,
                 overtaken>>

\* DELETE /api/agents/:id removes the row and nothing else.
DeleteAgent(a) ==
  /\ table[a] # Unknown
  /\ table' = [table EXCEPT ![a] = Unknown]
  /\ UNCHANGED <<registry, cert, job, control, connector, enrolments, restarts, issued,
                 overtaken>>

Enrolment(a) ==
  \/ \E d \in Domains : EnrollTunneler(a, d)
  \/ AddAgent(a) \/ InsertAgent(a) \/ CopyClients(a) \/ SendAllow(a)

Handler(s) == Register(s) \/ TakeList(s) \/ SendList(s) \/ RecvFails(s) \/ RemoveClient(s)

Next ==
  \/ \E a \in Agents : \/ Enrolment(a) \/ DeleteAgent(a)
                       \/ AgentConnects(a) \/ AgentHeartbeat(a) \/ AgentLeaves(a)
  \/ \E s \in Streams : Handler(s) \/ \E a \in Agents : HeartbeatAgent(s, a)
  \/ Dial \/ Drop \/ Receive \/ RestartConnector \/ RestartController

Spec == Init /\ [][Next]_vars

-----------------------------------------------------------------------------
(* Properties.                                                             *)

\* Nothing is under way between the controller and the connector: the stream in
\* use is served and registered, its list is out and read, no enrolment is
\* being announced.
Quiet ==
  /\ open # 0 /\ client = open /\ pc[open] = "recv"
  /\ wire = <<>>
  /\ \A a \in Agents : job[a] = NoJob

\* The connector never admits an identity that was not issued, and in particular
\* not the empty one that heartbeats write into the tunnelers table and a
\* restarted controller lists (AgentAllowlist.replace filters it).
IssuedOnly == allow \subseteq issued

\* The lists of controller and connector keep their shape, and the connector
\* admits issued identities only (control_plane.go 275-305, allowlist.rs).
AdmissionOK == TypeOK /\ IssuedOnly

\* Across redials and restarts every agent the controller lists is let in, except
\* one whose agent_allow was sent between the moment Connect took the list and
\* the moment it sent it.  (Connect registers the client before it takes the
\* list: an enrolment is in the list or is announced on the stream.)
ListedIsAllowed ==
  Quiet => \A a \in Agents :
             registry[a] \in Domains /\ a \notin overtaken => <<a, registry[a]>> \in allow
=============================================================================
