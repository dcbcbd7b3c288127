---------------------------- MODULE AllowlistProofs ----------------------------
(***************************************************************************)
(* Proofs about Allowlist for any agents, trust domains and bounds, and    *)
(* then about FleetPages, the pages on which the same agents and their     *)
(* connectors are administered.                                            *)
(***************************************************************************)
EXTENDS Allowlist, FleetPages, SequenceTheorems, TLAPS

\* A job that is under way knows the trust domain it enrols in.
JobOK == \A a \in Agents : job[a].pc # "off" => job[a].domain \in Domains

-----------------------------------------------------------------------------
(* Where identities are on their way to the connector.                     *)

\* The SPIFFE ids a list names were issued.
ListIssued(list) == \A a \in Agents : list[a] \in Domains => <<a, list[a]>> \in issued

\* So were those of a message.
MessageIssued(m) ==
  /\ m.type = "agent_allowlist" => ListIssued(m.list)
  /\ m.type = "agent_allow" => m.id \in issued

WireIssued == \A i \in 1..Len(wire) : MessageIssued(wire[i])

\* Nothing but issued ids is in the registry, in the table, in a list that was
\* taken, in an enrolment under way or on the wire.
SourcesIssued ==
  /\ ListIssued(registry) /\ ListIssued(table)
  /\ \A s \in Streams : ListIssued(listed[s])
  /\ \A a \in Agents : job[a].pc # "off" => <<a, job[a].domain>> \in issued
  /\ WireIssued

-----------------------------------------------------------------------------
(* What is still to come for an agent the controller lists.                *)

\* An enrolment is yet to announce a on the stream in use.
Announcing(a) ==
  /\ job[a].domain = registry[a]
  /\ \/ job[a].pc \in {"insert", "copy"}
     \/ job[a].pc = "send" /\ job[a].to = open

\* Message m lets agent a in under trust domain d.
Admits(m, a, d) ==
  \/ m.type = "agent_allowlist" /\ m.list[a] = d
  \/ m.type = "agent_allow" /\ m.id = <<a, d>>

\* No list of the messages from the i-th on leaves out agent a.
KeptFrom(i, a, d) ==
  \A j \in 1..Len(wire) : j >= i /\ wire[j].type = "agent_allowlist" => wire[j].list[a] = d

\* Once the wire is read, a is in the connector's allowlist.
WillBeAllowed(a) ==
  \/ <<a, registry[a]>> \in allow /\ KeptFrom(1, a, registry[a])
  \/ \E i \in 1..Len(wire) : Admits(wire[i], a, registry[a]) /\ KeptFrom(i, a, registry[a])

\* a is in the list about to be sent, will be allowed by what has been sent, or
\* is about to be announced.
Coming(a) ==
  /\ pc[open] = "send" => listed[open][a] = registry[a] \/ Announcing(a)
  /\ pc[open] = "recv" => Announcing(a) \/ WillBeAllowed(a)

\* While the registered stream is the one in use, that holds of every agent of
\* the registry that was not overtaken.
OnItsWay ==
  (open # 0 /\ client = open) =>
    \A a \in Agents : registry[a] \in Domains /\ a \notin overtaken => Coming(a)

IInv == TypeOK /\ JobOK /\ IssuedOnly /\ SourcesIssued /\ OnItsWay

-----------------------------------------------------------------------------
(* Facts about the wire.                                                   *)

\* A message of the controller's is one the connector knows.
LEMMA DeliverType ==
  ASSUME TypeOK, NEW s, NEW m \in Messages, Deliver(s, m)
  PROVE  wire' \in Seq(Messages)
  BY DEF Deliver, TypeOK

\* What a send does to the wire.
LEMMA DeliverWire ==
  ASSUME TypeOK, NEW s, NEW m \in Messages, Deliver(s, m)
  PROVE  \/ wire' = wire /\ (s = 0 \/ s # open)
         \/ /\ s # 0 /\ s = open /\ Len(wire) \in Nat /\ Len(wire') = Len(wire) + 1
            /\ wire'[Len(wire) + 1] = m
            /\ \A i \in 1..Len(wire) : wire'[i] = wire[i]
  BY DEF Deliver, TypeOK

\* Reading the wire shifts it by one.
LEMMA TailWire ==
  ASSUME TypeOK, wire # <<>>, wire' = Tail(wire)
  PROVE  /\ Head(wire) = wire[1] /\ Head(wire) \in Messages /\ wire' \in Seq(Messages)
         /\ Len(wire) \in Nat /\ Len(wire) >= 1 /\ Len(wire') = Len(wire) - 1
         /\ \A i \in 1..Len(wire') : i + 1 \in 1..Len(wire) /\ wire'[i] = wire[i + 1]
         /\ \A i \in 1..Len(wire) : i = 1 \/ (i - 1 \in 1..Len(wire') /\ wire'[i - 1] = wire[i])
  BY DEF TypeOK

\* The fields of the two kinds of message.
LEMMA MessageFields ==
  ASSUME NEW m \in Messages
  PROVE  \/ m.type = "agent_allowlist" /\ m.list \in Listed
         \/ m.type = "agent_allow" /\ m.id \in SpiffeIds
  BY DEF Messages

\* The messages the controller sends are messages.
LEMMA SentMessages ==
  /\ \A a \in Agents : \A d \in Domains : [type |-> "agent_allow", id |-> <<a, d>>] \in Messages
  /\ \A list \in Listed : [type |-> "agent_allowlist", list |-> list] \in Messages
  BY DEF Messages, SpiffeIds

-----------------------------------------------------------------------------
(* Types.                                                                  *)

\* Every step keeps the state well typed.
LEMMA TypeStep == TypeOK /\ JobOK /\ [Next]_vars => TypeOK'
<1>. SUFFICES ASSUME TypeOK, JobOK, [Next]_vars PROVE TypeOK'
  OBVIOUS
<1>. USE ConstantsAssumption DEF control, connector
<1>1. ASSUME NEW a \in Agents, NEW d \in Domains, EnrollTunneler(a, d) PROVE TypeOK'
  BY <1>1 DEF EnrollTunneler, TypeOK, Jobs, SpiffeIds
<1>2. ASSUME NEW a \in Agents, AddAgent(a) PROVE TypeOK'
  <2>1. job[a].domain \in Domains
    BY <1>2 DEF AddAgent, JobOK
  <2>2. registry' \in Listed
    BY <1>2, <2>1 DEF AddAgent, Add, TypeOK, Listed
  <2>3. job' \in [Agents -> Jobs]
    BY <1>2 DEF AddAgent, TypeOK, Jobs
  <2>. QED
    BY <1>2, <2>2, <2>3 DEF AddAgent, TypeOK
<1>3. ASSUME NEW a \in Agents, InsertAgent(a) PROVE TypeOK'
  <2>1. table' \in Listed
    BY <1>3 DEF InsertAgent, JobOK, TypeOK, Listed
  <2>2. job' \in [Agents -> Jobs]
    BY <1>3 DEF InsertAgent, TypeOK, Jobs
  <2>. QED
    BY <1>3, <2>1, <2>2 DEF InsertAgent, TypeOK
<1>4. ASSUME NEW a \in Agents, CopyClients(a) PROVE TypeOK'
  <2>1. job' \in [Agents -> Jobs]
    <3>1. job[a] \in Jobs /\ client \in 0..MaxStreams
      BY DEF TypeOK
    <3>2. job' = [job EXCEPT ![a] = [job[a] EXCEPT !.pc = "send", !.to = client]]
      BY <1>4 DEF CopyClients
    <3>3. [job[a] EXCEPT !.pc = "send", !.to = client] \in Jobs
      BY <3>1 DEF Jobs
    <3>. QED
      BY <3>2, <3>3 DEF TypeOK
  <2>. QED
    BY <1>4, <2>1 DEF CopyClients, TypeOK
<1>5. ASSUME NEW a \in Agents, SendAllow(a) PROVE TypeOK'
  <2>1. job[a].domain \in Domains
    BY <1>5 DEF SendAllow, JobOK
  <2>2. wire' \in Seq(Messages)
    BY <1>5, <2>1, DeliverType, SentMessages DEF SendAllow
  <2>3. job' \in [Agents -> Jobs]
    BY <1>5 DEF SendAllow, TypeOK, Jobs, NoJob
  <2>4. cert' \in [Agents -> Domains \cup {Unknown}]
    BY <1>5, <2>1 DEF SendAllow, TypeOK
  <2>5. overtaken' \subseteq Agents
    BY <1>5 DEF SendAllow, TypeOK
  <2>. QED
    BY <1>5, <2>2, <2>3, <2>4, <2>5 DEF SendAllow, TypeOK
<1>6. ASSUME NEW s \in Streams, Register(s) PROVE TypeOK'
  BY <1>6 DEF Register, TypeOK, Streams
<1>7. ASSUME NEW s \in Streams, TakeList(s) PROVE TypeOK'
  BY <1>7 DEF TakeList, TypeOK
<1>8. ASSUME NEW s \in Streams, SendList(s) PROVE TypeOK'
  <2>1. listed[s] \in Listed /\ Nobody \in Listed
    BY DEF TypeOK, Listed, Nobody
  <2>2. wire' \in Seq(Messages)
    BY <1>8, <2>1, DeliverType, SentMessages DEF SendList
  <2>. QED
    BY <1>8, <2>1, <2>2 DEF SendList, TypeOK
<1>9. ASSUME NEW s \in Streams, RecvFails(s) PROVE TypeOK'
  BY <1>9 DEF RecvFails, TypeOK
<1>10. ASSUME NEW s \in Streams, RemoveClient(s) PROVE TypeOK'
  BY <1>10 DEF RemoveClient, TypeOK
<1>11. ASSUME NEW s \in Streams, NEW a \in Agents, HeartbeatAgent(s, a) PROVE TypeOK'
  BY <1>11 DEF HeartbeatAgent, TypeOK, Listed
<1>12. ASSUME NEW a \in Agents, DeleteAgent(a) PROVE TypeOK'
  BY <1>12 DEF DeleteAgent, TypeOK, Listed
<1>13. ASSUME NEW a \in Agents, AgentConnects(a) \/ AgentHeartbeat(a) \/ AgentLeaves(a) PROVE TypeOK'
  BY <1>13 DEF AgentConnects, AgentHeartbeat, AgentLeaves, TypeOK
<1>14. CASE Dial
  BY <1>14 DEF Dial, TypeOK, Streams
<1>15. CASE Drop
  BY <1>15 DEF Drop, TypeOK
<1>16. CASE Receive
  <2>1. Head(wire) \in Messages /\ wire' \in Seq(Messages)
    BY <1>16, TailWire DEF Receive
  <2>2. allow' \subseteq Agents \X (Domains \cup {Blank})
    BY <1>16, <2>1, MessageFields DEF Receive, TypeOK, Replace, SpiffeIds
  <2>. QED
    BY <1>16, <2>1, <2>2 DEF Receive, TypeOK
<1>17. CASE RestartConnector
  BY <1>17 DEF RestartConnector, TypeOK
<1>18. CASE RestartController
  <2>1. Nobody \in Listed /\ NoJob \in Jobs
    BY DEF Listed, Nobody, NoJob, Jobs
  <2>. QED
    BY <1>18, <2>1 DEF RestartController, TypeOK
<1>19. CASE UNCHANGED vars
  BY <1>19 DEF vars, TypeOK
<1>. QED
  BY <1>1, <1>2, <1>3, <1>4, <1>5, <1>6, <1>7, <1>8, <1>9, <1>10, <1>11, <1>12, <1>13, <1>14,
     <1>15, <1>16, <1>17, <1>18, <1>19 DEF Next, Enrolment, Handler

\* A job starts with its trust domain and keeps it until it ends.
LEMMA JobStep == TypeOK /\ JobOK /\ [Next]_vars => JobOK'
<1>. SUFFICES ASSUME TypeOK, JobOK, [Next]_vars, NEW b \in Agents, job'[b].pc # "off"
              PROVE  job'[b].domain \in Domains
  BY DEF JobOK
<1>1. ASSUME NEW a \in Agents, Enrolment(a) PROVE job'[b].domain \in Domains
  <2>1. ASSUME NEW d \in Domains, EnrollTunneler(a, d) PROVE job'[b].domain \in Domains
    BY <2>1 DEF EnrollTunneler, JobOK, TypeOK, Jobs
  <2>2. CASE AddAgent(a) \/ InsertAgent(a) \/ CopyClients(a)
    <3>1. job[a].pc # "off" /\ job[a] \in Jobs
      BY <2>2 DEF AddAgent, InsertAgent, CopyClients, TypeOK
    <3>2. \A c \in Agents : job'[c].domain = job[c].domain /\ (c # a => job'[c] = job[c])
      BY <2>2, <3>1 DEF AddAgent, InsertAgent, CopyClients, TypeOK, Jobs
    <3>. QED
      BY <3>1, <3>2 DEF JobOK
  <2>3. CASE SendAllow(a)
    BY <2>3 DEF SendAllow, JobOK, TypeOK, Jobs, NoJob
  <2>. QED
    BY <1>1, <2>1, <2>2, <2>3 DEF Enrolment
<1>2. CASE RestartController
  BY <1>2 DEF RestartController, NoJob
<1>3. CASE UNCHANGED job
  BY <1>3 DEF JobOK
<1>4. UNCHANGED job \/ RestartController \/ \E a \in Agents : Enrolment(a)
  BY DEF Next, vars, Handler, DeleteAgent, AgentConnects, AgentHeartbeat, AgentLeaves, Register,
         TakeList, SendList, RecvFails, RemoveClient, HeartbeatAgent, Dial, Drop, Receive,
         RestartConnector
<1>. QED
  BY <1>1, <1>2, <1>3, <1>4

-----------------------------------------------------------------------------
(* Only issued identities travel.                                          *)

\* More issued ids make no list worse.
LEMMA IssuedGrows ==
  ASSUME issued \subseteq issued'
  PROVE  /\ \A list : ListIssued(list) => ListIssued(list)'
         /\ \A m : MessageIssued(m) => MessageIssued(m)'
  BY DEF ListIssued, MessageIssued

\* No step forgets an issued id.
LEMMA IssuedKept == [Next]_vars => issued \subseteq issued'
  BY DEF Next, vars, Enrolment, Handler, EnrollTunneler, AddAgent, InsertAgent, CopyClients, SendAllow,
         DeleteAgent, AgentConnects, AgentHeartbeat, AgentLeaves, Register,
         TakeList, SendList, RecvFails, RemoveClient, HeartbeatAgent, Dial, Drop, Receive,
         RestartConnector, RestartController

\* A message put on the wire leaves the wire with issued ids only.
LEMMA DeliverIssued ==
  ASSUME TypeOK, WireIssued, UNCHANGED issued,
         NEW s, NEW m \in Messages, MessageIssued(m), Deliver(s, m)
  PROVE  WireIssued'
<1>2. CASE wire' = wire
  BY <1>2 DEF WireIssued, MessageIssued, ListIssued
<1>3. CASE /\ Len(wire) \in Nat /\ Len(wire') = Len(wire) + 1
           /\ wire'[Len(wire) + 1] = m
           /\ \A i \in 1..Len(wire) : wire'[i] = wire[i]
  <2>1. \A i \in 1..Len(wire') : i \in 1..Len(wire) \/ i = Len(wire) + 1
    BY <1>3
  <2>2. \A i \in 1..Len(wire') : wire'[i] = m \/ (i \in 1..Len(wire) /\ wire'[i] = wire[i])
    BY <1>3, <2>1
  <2>. QED
    BY <2>2 DEF WireIssued, MessageIssued, ListIssued
<1>. QED
  BY <1>2, <1>3, DeliverWire

\* The registry, the table, the lists, the jobs and the wire stay clean.
LEMMA SourcesStep == TypeOK /\ JobOK /\ SourcesIssued /\ [Next]_vars => SourcesIssued'
<1>. SUFFICES ASSUME TypeOK, JobOK, SourcesIssued, [Next]_vars PROVE SourcesIssued'
  OBVIOUS
<1>. USE DEF control, connector
<1>0. /\ \A list : ListIssued(list) => ListIssued(list)'
      /\ \A m : MessageIssued(m) => MessageIssued(m)'
      /\ issued \subseteq issued'
      /\ UNCHANGED wire => WireIssued'
  BY IssuedGrows, IssuedKept DEF SourcesIssued, WireIssued
<1>1. ASSUME NEW a \in Agents, NEW d \in Domains, EnrollTunneler(a, d) PROVE SourcesIssued'
  <2>1. UNCHANGED <<registry, table, listed, wire>> /\ <<a, d>> \in issued'
    BY <1>1 DEF EnrollTunneler
  <2>2. \A b \in Agents : job'[b].pc # "off" => <<b, job'[b].domain>> \in issued'
    BY <1>0, <1>1 DEF EnrollTunneler, SourcesIssued, TypeOK, Jobs
  <2>. QED
    BY <1>0, <2>1, <2>2 DEF SourcesIssued
<1>2. ASSUME NEW a \in Agents, AddAgent(a) PROVE SourcesIssued'
  <2>1. UNCHANGED <<table, listed, wire, issued>>
    BY <1>2 DEF AddAgent
  <2>2. ListIssued(registry)'
    BY <1>2 DEF AddAgent, Add, SourcesIssued, TypeOK, Listed, ListIssued
  <2>3. \A b \in Agents : job'[b].pc # "off" => <<b, job'[b].domain>> \in issued'
    BY <1>2 DEF AddAgent, SourcesIssued, TypeOK, Jobs
  <2>. QED
    BY <1>0, <2>1, <2>2, <2>3 DEF SourcesIssued
<1>3. ASSUME NEW a \in Agents, InsertAgent(a) PROVE SourcesIssued'
  <2>1. UNCHANGED <<registry, listed, wire, issued>>
    BY <1>3 DEF InsertAgent
  <2>2. ListIssued(table)'
    BY <1>3 DEF InsertAgent, SourcesIssued, TypeOK, Listed, ListIssued
  <2>3. \A b \in Agents : job'[b].pc # "off" => <<b, job'[b].domain>> \in issued'
    BY <1>3 DEF InsertAgent, SourcesIssued, TypeOK, Jobs
  <2>. QED
    BY <1>0, <2>1, <2>2, <2>3 DEF SourcesIssued
<1>4. ASSUME NEW a \in Agents, CopyClients(a) PROVE SourcesIssued'
  <2>1. UNCHANGED <<registry, table, listed, wire, issued>>
    BY <1>4 DEF CopyClients
  <2>2. \A b \in Agents : job'[b].pc # "off" => <<b, job'[b].domain>> \in issued'
    BY <1>4 DEF CopyClients, SourcesIssued, TypeOK, Jobs
  <2>. QED
    BY <1>0, <2>1, <2>2 DEF SourcesIssued
<1>5. ASSUME NEW a \in Agents, SendAllow(a) PROVE SourcesIssued'
  <2>. DEFINE m == [type |-> "agent_allow", id |-> <<a, job[a].domain>>]
  <2>1. UNCHANGED <<registry, table, listed, issued>>
    BY <1>5 DEF SendAllow
  <2>2. \A b \in Agents : job'[b].pc # "off" => <<b, job'[b].domain>> \in issued'
    BY <1>5 DEF SendAllow, SourcesIssued, TypeOK, Jobs, NoJob
  <2>3. m \in Messages /\ Deliver(job[a].to, m)
    BY <1>5, SentMessages DEF SendAllow, JobOK
  <2>4. MessageIssued(m)
    BY <1>5 DEF SendAllow, SourcesIssued, MessageIssued
  <2>. HIDE DEF m
  <2>5. WireIssued'
    BY <2>1, <2>3, <2>4, DeliverIssued DEF SourcesIssued
  <2>. QED
    BY <1>0, <2>1, <2>2, <2>5 DEF SourcesIssued
<1>6. ASSUME NEW s \in Streams, TakeList(s) PROVE SourcesIssued'
  <2>1. UNCHANGED <<registry, table, job, wire, issued>>
    BY <1>6 DEF TakeList
  <2>2. \A r \in Streams : ListIssued(listed[r])'
    BY <1>0, <1>6 DEF TakeList, SourcesIssued, TypeOK
  <2>. QED
    BY <1>0, <2>1, <2>2 DEF SourcesIssued
<1>7. ASSUME NEW s \in Streams, SendList(s) PROVE SourcesIssued'
  <2>. DEFINE m == [type |-> "agent_allowlist", list |-> listed[s]]
  <2>1. UNCHANGED <<registry, table, job, issued>>
    BY <1>7 DEF SendList
  <2>2. ListIssued(Nobody)
    BY ConstantsAssumption DEF ListIssued, Nobody
  <2>3. \A r \in Streams : ListIssued(listed[r])'
    BY <1>0, <1>7, <2>2 DEF SendList, SourcesIssued, TypeOK
  <2>4. m \in Messages /\ Deliver(s, m)
    BY <1>7, SentMessages DEF SendList, TypeOK
  <2>5. MessageIssued(m)
    BY DEF SourcesIssued, MessageIssued
  <2>. HIDE DEF m
  <2>6. WireIssued'
    BY <2>1, <2>4, <2>5, DeliverIssued DEF SourcesIssued
  <2>. QED
    BY <1>0, <2>1, <2>3, <2>6 DEF SourcesIssued
<1>8. ASSUME NEW a \in Agents, DeleteAgent(a) \/ \E s \in Streams : HeartbeatAgent(s, a)
      PROVE SourcesIssued'
  <2>1. UNCHANGED <<registry, listed, job, wire, issued>>
    BY <1>8 DEF DeleteAgent, HeartbeatAgent
  <2>2. ListIssued(table)'
    BY <1>8, ConstantsAssumption DEF DeleteAgent, HeartbeatAgent, SourcesIssued, TypeOK, Listed, ListIssued
  <2>. QED
    BY <1>0, <2>1, <2>2 DEF SourcesIssued
<1>9. CASE Drop \/ RestartConnector
  <2>1. UNCHANGED <<registry, table, listed, job, issued>> /\ wire' = <<>>
    BY <1>9 DEF Drop, RestartConnector
  <2>2. 1..Len(wire') = {}
    BY <2>1
  <2>. QED
    BY <1>0, <2>1, <2>2 DEF SourcesIssued, WireIssued
<1>10. CASE Receive
  <2>1. UNCHANGED <<registry, table, listed, job, issued>> /\ wire # <<>> /\ wire' = Tail(wire)
    BY <1>10 DEF Receive
  <2>. QED
    BY <1>0, <2>1, TailWire DEF SourcesIssued, WireIssued
<1>11. CASE RestartController
  <2>1. /\ UNCHANGED <<table, issued>> /\ wire' = <<>> /\ registry' = table
        /\ \A s \in Streams : listed'[s] = Nobody
        /\ \A a \in Agents : job'[a].pc = "off"
    BY <1>11 DEF RestartController, NoJob
  <2>2. ListIssued(Nobody)
    BY ConstantsAssumption DEF ListIssued, Nobody
  <2>3. 1..Len(wire') = {}
    BY <2>1
  <2>. QED
    BY <1>0, <2>1, <2>2, <2>3 DEF SourcesIssued, WireIssued
<1>12. CASE UNCHANGED <<registry, table, listed, job, wire, issued>>
  BY <1>0, <1>12 DEF SourcesIssued
<1>13. ASSUME NEW a \in Agents, AgentConnects(a) \/ AgentHeartbeat(a) \/ AgentLeaves(a)
       PROVE UNCHANGED <<registry, table, listed, job, wire, issued>>
  BY <1>13 DEF AgentConnects, AgentHeartbeat, AgentLeaves
<1>14. ASSUME NEW s \in Streams, Register(s) \/ RecvFails(s) \/ RemoveClient(s)
       PROVE UNCHANGED <<registry, table, listed, job, wire, issued>>
  BY <1>14 DEF Register, RecvFails, RemoveClient
<1>15. Dial \/ UNCHANGED vars => UNCHANGED <<registry, table, listed, job, wire, issued>>
  BY DEF Dial, vars
<1>. QED
  BY <1>1, <1>2, <1>3, <1>4, <1>5, <1>6, <1>7, <1>8, <1>9, <1>10, <1>11, <1>12, <1>13, <1>14,
     <1>15 DEF Next, Enrolment, Handler

\* What the connector takes into its allowlist was issued.
LEMMA IssuedStep == TypeOK /\ SourcesIssued /\ IssuedOnly /\ [Next]_vars => IssuedOnly'
<1>. SUFFICES ASSUME TypeOK, SourcesIssued, IssuedOnly, [Next]_vars PROVE IssuedOnly'
  OBVIOUS
<1>1. issued \subseteq issued'
  BY IssuedKept
<1>2. CASE UNCHANGED allow \/ allow' = {}
  BY <1>1, <1>2 DEF IssuedOnly
<1>3. CASE Receive
  <2>1. wire # <<>> /\ wire' = Tail(wire)
    BY <1>3 DEF Receive
  <2>2. Head(wire) \in Messages /\ MessageIssued(Head(wire))
    BY <2>1, TailWire DEF SourcesIssued, WireIssued
  <2>3. allow' \subseteq issued
    BY <1>3, <2>2, MessageFields DEF Receive, MessageIssued, ListIssued, Replace, IssuedOnly
  <2>. QED
    BY <1>1, <2>3 DEF IssuedOnly
<1>4. Receive \/ UNCHANGED allow \/ allow' = {}
  BY DEF Next, vars, connector, Enrolment, Handler, EnrollTunneler, AddAgent, InsertAgent, CopyClients,
         SendAllow, DeleteAgent, AgentConnects, AgentHeartbeat, AgentLeaves, Register,
         TakeList, SendList, RecvFails, RemoveClient, HeartbeatAgent, Dial, Drop,
         RestartConnector, RestartController
<1>. QED
  BY <1>2, <1>3, <1>4

-----------------------------------------------------------------------------
(* A listed agent is let in.                                               *)

\* What will be allowed depends on the registry, the allowlist and the wire.
LEMMA AllowedFrame ==
  ASSUME NEW a \in Agents, registry'[a] = registry[a], UNCHANGED <<allow, wire>>, WillBeAllowed(a)
  PROVE  WillBeAllowed(a)'
  BY DEF WillBeAllowed, KeptFrom, Admits

\* An announcement on the wire takes nobody out.
LEMMA AllowedAppend ==
  ASSUME TypeOK, NEW a \in Agents, UNCHANGED <<registry, allow>>, WillBeAllowed(a),
         NEW s, NEW m \in Messages, m.type = "agent_allow", Deliver(s, m)
  PROVE  WillBeAllowed(a)'
<1>1. CASE wire' = wire
  BY <1>1, AllowedFrame
<1>2. CASE /\ Len(wire) \in Nat /\ Len(wire') = Len(wire) + 1
           /\ wire'[Len(wire) + 1] = m
           /\ \A i \in 1..Len(wire) : wire'[i] = wire[i]
  <2>1. \A i \in 1..Len(wire') : wire'[i] = m \/ (i \in 1..Len(wire) /\ wire'[i] = wire[i])
    <3>1. \A i \in 1..Len(wire') : i \in 1..Len(wire) \/ i = Len(wire) + 1
      BY <1>2
    <3>. QED
      BY <1>2, <3>1
  <2>2. 1..Len(wire) \subseteq 1..Len(wire')
    BY <1>2
  <2>3. "agent_allow" # "agent_allowlist"
    OBVIOUS
  <2>4. \A i : KeptFrom(i, a, registry[a]) => KeptFrom(i, a, registry[a])'
    BY <2>1, <2>3 DEF KeptFrom
  <2>5. CASE <<a, registry[a]>> \in allow /\ KeptFrom(1, a, registry[a])
    BY <2>4, <2>5 DEF WillBeAllowed
  <2>6. ASSUME NEW i \in 1..Len(wire), Admits(wire[i], a, registry[a]), KeptFrom(i, a, registry[a])
        PROVE  WillBeAllowed(a)'
    <3>1. i \in 1..Len(wire') /\ wire'[i] = wire[i]
      BY <1>2, <2>2
    <3>2. Admits(wire[i], a, registry[a])'
      BY <2>6, <3>1 DEF Admits
    <3>. QED
      BY <2>4, <2>6, <3>1, <3>2 DEF WillBeAllowed
  <2>. QED
    BY <2>5, <2>6 DEF WillBeAllowed
<1>. QED
  BY <1>1, <1>2, DeliverWire

\* A message that lets a in, put last on the wire of the stream in use, does so.
LEMMA AllowedByLast ==
  ASSUME TypeOK, NEW a \in Agents, UNCHANGED registry, open # 0,
         NEW m \in Messages, Admits(m, a, registry[a]), Deliver(open, m)
  PROVE  WillBeAllowed(a)'
<1>1. /\ Len(wire) \in Nat /\ Len(wire') = Len(wire) + 1
      /\ wire'[Len(wire) + 1] = m
  BY DeliverWire
<1>2. PICK n \in Nat : n = Len(wire) + 1
  BY <1>1
<1>3. n \in 1..Len(wire') /\ wire'[n] = m /\ \A j \in 1..Len(wire') : j >= n => j = n
  BY <1>1, <1>2
<1>4. "agent_allow" # "agent_allowlist"
  OBVIOUS
<1>5. KeptFrom(n, a, registry[a])'
  BY <1>3, <1>4 DEF KeptFrom, Admits
<1>6. Admits(wire[n], a, registry[a])'
  BY <1>3 DEF Admits
<1>. QED
  BY <1>3, <1>5, <1>6 DEF WillBeAllowed

\* Reading a message takes nobody out either.
LEMMA AllowedReceive ==
  ASSUME TypeOK, NEW a \in Agents, registry[a] \in Domains, WillBeAllowed(a), Receive
  PROVE  WillBeAllowed(a)'
<1>. DEFINE m == Head(wire)
            d == registry[a]
<1>1. wire # <<>> /\ wire' = Tail(wire) /\ UNCHANGED registry
  BY DEF Receive
<1>2. allow' = IF m.type = "agent_allowlist" THEN Replace(m.list) ELSE allow \cup {m.id}
  BY DEF Receive
<1>3. /\ m = wire[1] /\ 1 \in 1..Len(wire) /\ m \in Messages
      /\ \A i \in 1..Len(wire') : i + 1 \in 1..Len(wire) /\ wire'[i] = wire[i + 1] /\ i >= 1
      /\ \A i \in 1..Len(wire) : i = 1 \/ (i - 1 \in 1..Len(wire') /\ wire'[i - 1] = wire[i])
  BY <1>1, TailWire
<1>4. d' = d
  BY <1>1
<1>5. KeptFrom(1, a, d) => KeptFrom(1, a, d)'
  BY <1>3, <1>4 DEF KeptFrom
<1>6. m.type = "agent_allowlist" /\ m.list[a] = d => <<a, d>> \in allow'
  BY <1>2 DEF Replace
<1>7. CASE <<a, d>> \in allow /\ KeptFrom(1, a, d)
  <2>1. m.type = "agent_allowlist" => m.list[a] = d
    BY <1>3, <1>7 DEF KeptFrom
  <2>2. <<a, d>> \in allow'
    BY <1>2, <1>6, <1>7, <2>1
  <2>. QED
    BY <1>4, <1>5, <1>7, <2>2 DEF WillBeAllowed
<1>8. ASSUME NEW i \in 1..Len(wire), Admits(wire[i], a, d), KeptFrom(i, a, d) PROVE WillBeAllowed(a)'
  <2>1. CASE i = 1
    <3>1. Admits(m, a, d) /\ KeptFrom(1, a, d)
      BY <1>3, <1>8, <2>1
    <3>2. "agent_allow" # "agent_allowlist"
      OBVIOUS
    <3>3. <<a, d>> \in allow'
      BY <1>2, <1>6, <3>1, <3>2 DEF Admits
    <3>. QED
      BY <1>4, <1>5, <3>1, <3>3 DEF WillBeAllowed
  <2>2. CASE i # 1
    <3>1. i - 1 \in 1..Len(wire') /\ wire'[i - 1] = wire[i]
      BY <1>3, <2>2
    <3>2. Admits(wire[i - 1], a, d)'
      BY <1>4, <1>8, <3>1 DEF Admits
    <3>3. \A j \in 1..Len(wire') : j >= i - 1 => j + 1 >= i
      OBVIOUS
    <3>4. KeptFrom(i - 1, a, d)'
      BY <1>3, <1>4, <1>8, <3>3 DEF KeptFrom
    <3>. QED
      BY <3>1, <3>2, <3>4 DEF WillBeAllowed
  <2>. QED
    BY <2>1, <2>2
<1>. QED
  BY <1>7, <1>8 DEF WillBeAllowed

\* An announcement stays due while its job, its agent's entry and the stream do.
LEMMA AnnouncingFrame ==
  ASSUME NEW a \in Agents, registry'[a] = registry[a], job'[a] = job[a], open' = open, Announcing(a)
  PROVE  Announcing(a)'
  BY DEF Announcing

\* A step that touches neither the agent's entry and job nor the stream in use
\* leaves what is to come as it is.
LEMMA ComingFrame ==
  ASSUME NEW a \in Agents, registry'[a] = registry[a], job'[a] = job[a],
         UNCHANGED <<open, allow, wire>>, pc'[open] = pc[open], listed'[open] = listed[open],
         Coming(a)
  PROVE  Coming(a)'
<1>1. Announcing(a) => Announcing(a)'
  BY AnnouncingFrame
<1>2. WillBeAllowed(a) => WillBeAllowed(a)'
  BY AllowedFrame
<1>. QED
  BY <1>1, <1>2 DEF Coming

\* Every step keeps a listed agent on its way.
LEMMA OnItsWayStep == TypeOK /\ JobOK /\ OnItsWay /\ [Next]_vars => OnItsWay'
<1>. SUFFICES ASSUME TypeOK, JobOK, OnItsWay, [Next]_vars, open' # 0, client' = open',
                     NEW a \in Agents, registry'[a] \in Domains, a \notin overtaken'
              PROVE  Coming(a)'
  BY DEF OnItsWay
<1>. USE ConstantsAssumption DEF control, connector
<1>1. (open # 0 /\ client = open /\ registry[a] \in Domains /\ a \notin overtaken) => Coming(a)
  BY DEF OnItsWay
<1>2. open \in 0..MaxStreams /\ (open # 0 => open \in Streams)
  BY DEF TypeOK, Streams
<1>3. ASSUME NEW b \in Agents, NEW d \in Domains, EnrollTunneler(b, d) PROVE Coming(a)'
  <2>1. Coming(a) /\ UNCHANGED <<registry, open, allow, wire, pc, listed>>
    BY <1>1, <1>3 DEF EnrollTunneler
  <2>2. CASE b = a
    <3>1. ~Announcing(a)
      BY <1>3, <2>2 DEF EnrollTunneler, Announcing
    <3>. QED
      BY <2>1, <3>1, AllowedFrame DEF Coming
  <2>3. CASE b # a
    <3>1. job'[a] = job[a]
      BY <1>3, <2>3 DEF EnrollTunneler, TypeOK
    <3>. QED
      BY <2>1, <3>1, ComingFrame
  <2>. QED
    BY <2>2, <2>3
<1>4. ASSUME NEW b \in Agents, AddAgent(b) PROVE Coming(a)'
  <2>1. UNCHANGED <<open, client, allow, wire, pc, listed, overtaken>>
    BY <1>4 DEF AddAgent
  <2>2. CASE b = a /\ registry[a] = Unknown
    <3>1. /\ registry'[a] = job[a].domain
          /\ job'[a].domain = job[a].domain /\ job'[a].pc = "insert"
      BY <1>4, <2>2 DEF AddAgent, Add, TypeOK, Listed, Jobs
    <3>2. Announcing(a)'
      BY <3>1 DEF Announcing
    <3>. QED
      BY <3>2 DEF Coming
  <2>3. CASE b = a /\ registry[a] # Unknown
    <3>1. registry'[a] = registry[a]
      BY <1>4, <2>3 DEF AddAgent, Add, TypeOK, Listed
    <3>2. ~Announcing(a)
      BY <1>4, <2>3 DEF AddAgent, Announcing
    <3>3. Coming(a)
      BY <1>1, <2>1, <3>1
    <3>. QED
      BY <2>1, <3>1, <3>2, <3>3, AllowedFrame DEF Coming
  <2>4. CASE b # a
    <3>1. job'[a] = job[a] /\ registry'[a] = registry[a]
      BY <1>4, <2>4 DEF AddAgent, Add, TypeOK, Listed
    <3>. QED
      BY <1>1, <2>1, <3>1, ComingFrame
  <2>. QED
    BY <2>2, <2>3, <2>4
<1>5. ASSUME NEW b \in Agents, InsertAgent(b) \/ CopyClients(b) PROVE Coming(a)'
  <2>1. Coming(a) /\ UNCHANGED <<registry, open, client, allow, wire, pc, listed>>
    BY <1>1, <1>5 DEF InsertAgent, CopyClients
  <2>2. CASE b = a /\ InsertAgent(b)
    <3>1. job'[a].domain = job[a].domain /\ job'[a].pc = "copy"
      BY <2>2 DEF InsertAgent, TypeOK, Jobs
    <3>2. Announcing(a) => Announcing(a)'
      BY <2>1, <3>1 DEF Announcing
    <3>. QED
      BY <2>1, <3>2, AllowedFrame DEF Coming
  <2>3. CASE b = a /\ CopyClients(b)
    <3>1. job'[a].domain = job[a].domain /\ job'[a].pc = "send" /\ job'[a].to = client
      BY <2>3 DEF CopyClients, TypeOK, Jobs
    <3>2. Announcing(a) => Announcing(a)'
      BY <2>1, <3>1 DEF Announcing
    <3>. QED
      BY <2>1, <3>2, AllowedFrame DEF Coming
  <2>4. CASE b # a
    <3>1. job'[a] = job[a]
      BY <1>5, <2>4 DEF InsertAgent, CopyClients, TypeOK
    <3>. QED
      BY <2>1, <3>1, ComingFrame
  <2>. QED
    BY <1>5, <2>2, <2>3, <2>4
<1>6. ASSUME NEW b \in Agents, SendAllow(b) PROVE Coming(a)'
  <2>. DEFINE m == [type |-> "agent_allow", id |-> <<b, job[b].domain>>]
  <2>1. /\ UNCHANGED <<registry, open, client, allow, pc, listed>>
        /\ Deliver(job[b].to, m) /\ overtaken \subseteq overtaken'
    BY <1>6 DEF SendAllow
  <2>2. Coming(a)
    BY <1>1, <2>1
  <2>3. job[b].domain \in Domains
    BY <1>6 DEF SendAllow, JobOK
  <2>4. m \in Messages /\ m.type = "agent_allow"
    BY <2>3, SentMessages
  <2>5. WillBeAllowed(a) => WillBeAllowed(a)'
    BY <2>1, <2>4, AllowedAppend
  <2>6. CASE b = a /\ Announcing(a)
    <3>1. job[a].to = open /\ job[a].domain = registry[a]
      BY <1>6, <2>6 DEF SendAllow, Announcing
    <3>2. pc[open] # "send"
      BY <1>2, <1>6, <2>1, <2>6, <3>1 DEF SendAllow
    <3>3. Admits(m, a, registry[a]) /\ open # 0
      BY <2>1, <2>6, <3>1 DEF Admits
    <3>4. WillBeAllowed(a)'
      BY <2>1, <2>4, <2>6, <3>1, <3>3, AllowedByLast
    <3>. QED
      BY <2>1, <3>2, <3>4 DEF Coming
  <2>7. CASE ~Announcing(a)
    BY <2>1, <2>2, <2>5, <2>7 DEF Coming
  <2>8. CASE b # a
    <3>1. job'[a] = job[a]
      BY <1>6, <2>8 DEF SendAllow, TypeOK
    <3>2. Announcing(a) => Announcing(a)'
      BY <2>1, <3>1, AnnouncingFrame
    <3>. QED
      BY <2>1, <2>2, <2>5, <3>2 DEF Coming
  <2>. QED
    BY <2>6, <2>7, <2>8
<1>7. ASSUME NEW s \in Streams, Register(s) PROVE Coming(a)'
  <2>1. pc'[open'] = "list"
    BY <1>7 DEF Register, TypeOK
  <2>. QED
    BY <2>1 DEF Coming
<1>8. ASSUME NEW s \in Streams, TakeList(s) PROVE Coming(a)'
  <2>1. UNCHANGED <<registry, job, client, open, allow, wire, overtaken>>
    BY <1>8 DEF TakeList
  <2>2. CASE s = open
    <3>1. pc'[open] = "send" /\ listed'[open] = registry
      BY <1>8, <2>2 DEF TakeList, TypeOK
    <3>. QED
      BY <2>1, <3>1 DEF Coming
  <2>3. CASE s # open
    <3>1. pc'[open] = pc[open] /\ listed'[open] = listed[open]
      BY <1>2, <1>8, <2>1, <2>3 DEF TakeList, TypeOK
    <3>. QED
      BY <1>1, <2>1, <3>1, ComingFrame
  <2>. QED
    BY <2>2, <2>3
<1>9. ASSUME NEW s \in Streams, SendList(s) PROVE Coming(a)'
  <2>. DEFINE m == [type |-> "agent_allowlist", list |-> listed[s]]
  <2>1. UNCHANGED <<registry, job, client, open, allow, overtaken>> /\ Deliver(s, m) /\ pc[s] = "send"
    BY <1>9 DEF SendList
  <2>2. m \in Messages
    BY SentMessages DEF TypeOK
  <2>3. Coming(a)
    BY <1>1, <2>1
  <2>4. CASE s = open
    <3>1. pc'[open] = "recv"
      BY <1>9, <2>4 DEF SendList, TypeOK
    <3>2. Announcing(a) => Announcing(a)'
      BY <2>1, AnnouncingFrame
    <3>3. ASSUME listed[open][a] = registry[a] PROVE WillBeAllowed(a)'
      <4>1. Admits(m, a, registry[a])
        BY <2>4, <3>3 DEF Admits
      <4>. QED
        BY <2>1, <2>2, <2>4, <4>1, AllowedByLast
    <3>. QED
      BY <2>1, <2>3, <2>4, <3>1, <3>2, <3>3 DEF Coming
  <2>5. CASE s # open
    <3>1. wire' = wire
      BY <2>1, <2>5 DEF Deliver
    <3>2. pc'[open] = pc[open] /\ listed'[open] = listed[open]
      BY <1>2, <1>9, <2>1, <2>5 DEF SendList, TypeOK
    <3>. QED
      BY <2>1, <2>3, <3>1, <3>2, ComingFrame
  <2>. QED
    BY <2>4, <2>5
<1>10. ASSUME NEW s \in Streams, RecvFails(s) PROVE Coming(a)'
  <2>1. UNCHANGED <<registry, job, client, open, allow, wire, listed, overtaken>>
    BY <1>10 DEF RecvFails
  <2>2. pc'[open] = pc[open]
    BY <1>2, <1>10, <2>1 DEF RecvFails, TypeOK
  <2>. QED
    BY <1>1, <2>1, <2>2, ComingFrame
<1>11. ASSUME NEW s \in Streams, RemoveClient(s) PROVE Coming(a)'
  BY <1>11 DEF RemoveClient
<1>12. CASE Dial
  <2>1. dials + 1 \in Streams
    BY <1>12 DEF Dial, TypeOK, Streams
  <2>2. pc'[open'] = "accepted"
    BY <1>12, <2>1 DEF Dial, TypeOK
  <2>. QED
    BY <2>2 DEF Coming
<1>13. CASE Drop \/ RestartConnector \/ RestartController
  BY <1>13 DEF Drop, RestartConnector, RestartController
<1>14. CASE Receive
  <2>1. UNCHANGED <<registry, job, client, pc, listed, open, overtaken>>
    BY <1>14 DEF Receive
  <2>2. Announcing(a) => Announcing(a)'
    BY <2>1, AnnouncingFrame
  <2>3. WillBeAllowed(a) => WillBeAllowed(a)'
    BY <1>14, <2>1, AllowedReceive
  <2>. QED
    BY <1>1, <2>1, <2>2, <2>3 DEF Coming
<1>15. CASE UNCHANGED <<registry, job, client, pc, listed, open, allow, wire, overtaken>>
  BY <1>1, <1>15, ComingFrame
<1>16. ASSUME NEW b \in Agents,
              \/ DeleteAgent(b) \/ AgentConnects(b) \/ AgentHeartbeat(b) \/ AgentLeaves(b)
              \/ \E s \in Streams : HeartbeatAgent(s, b)
       PROVE  UNCHANGED <<registry, job, client, pc, listed, open, allow, wire, overtaken>>
  BY <1>16 DEF DeleteAgent, AgentConnects, AgentHeartbeat, AgentLeaves, HeartbeatAgent
<1>17. UNCHANGED vars => UNCHANGED <<registry, job, client, pc, listed, open, allow, wire, overtaken>>
  BY DEF vars
<1>. QED
  BY <1>3, <1>4, <1>5, <1>6, <1>7, <1>8, <1>9, <1>10, <1>11, <1>12, <1>13, <1>14, <1>15, <1>16,
     <1>17 DEF Next, Enrolment, Handler

-----------------------------------------------------------------------------
(* The invariant and what follows from it.                                 *)

\* Before anything is enrolled or dialled nothing is on its way.
LEMMA InitInv == Init => IInv
<1>. SUFFICES ASSUME Init PROVE IInv
  OBVIOUS
<1>. USE ConstantsAssumption
<1>1. TypeOK
  BY DEF Init, TypeOK, Nobody, NoJob, Jobs, Listed, Streams, Messages, SpiffeIds
<1>2. JobOK
  BY DEF Init, JobOK, NoJob
<1>3. IssuedOnly /\ OnItsWay
  BY DEF Init, IssuedOnly, OnItsWay
<1>4. SourcesIssued
  BY DEF Init, SourcesIssued, ListIssued, WireIssued, Nobody, NoJob
<1>. QED
  BY <1>1, <1>2, <1>3, <1>4 DEF IInv

\* The inductive invariant holds throughout.
LEMMA Invariance == Spec => []IInv
<1>1. IInv /\ [Next]_vars => IInv'
  BY TypeStep, JobStep, IssuedStep, SourcesStep, OnItsWayStep DEF IInv
<1>. QED
  BY <1>1, InitInv, PTL DEF Spec

\* Whatever the interleaving of enrolments, streams, redials and restarts, the
\* connector admits issued identities only: replace drops the empty SPIFFE ids
\* that heartbeats leave in the tunnelers table (allowlist.rs).
THEOREM AdmissionOKTheorem == Spec => []AdmissionOK
<1>1. IInv => AdmissionOK
  BY DEF IInv, AdmissionOK
<1>. QED
  BY <1>1, Invariance, PTL

\* Once controller and connector are quiet, every agent the controller lists is
\* in the connector's allowlist, but for one whose agent_allow was overtaken by
\* the list of the same stream (Connect registers, then takes the list).
THEOREM ListedIsAllowedTheorem == Spec => []ListedIsAllowed
<1>1. ASSUME IInv PROVE ListedIsAllowed
  <2>. SUFFICES ASSUME Quiet, NEW a \in Agents, registry[a] \in Domains, a \notin overtaken
                PROVE  <<a, registry[a]>> \in allow
    BY DEF ListedIsAllowed
  <2>1. ~Announcing(a)
    BY DEF Quiet, NoJob, Announcing
  <2>2. WillBeAllowed(a)
    BY <1>1, <2>1 DEF IInv, OnItsWay, Coming, Quiet
  <2>3. 1..Len(wire) = {}
    BY DEF Quiet
  <2>. QED
    BY <2>2, <2>3 DEF WillBeAllowed
<1>. QED
  BY <1>1, Invariance, PTL

-----------------------------------------------------------------------------
(***************************************************************************)
(* Proofs about FleetPages, the console's pages on networks, connectors    *)
(* and agents, for any networks, connectors, agents and bounds.            *)
(***************************************************************************)

ConnCalls == {"addConnector", "deleteConnector", "revokeConnector", "grantConnector"}
AgentCalls == {"deleteAgent", "revokeAgent", "grantAgent"}
NetCalls == {"addNetwork", "deleteNetwork"}

\* A request is a record with these fields,
Fields(f) ==
    f \in [kind : {f.kind}, m : Nat, x : {f.x}, y : {f.y}, st : {"sent", "half", "ok", "failed"},
           got : {f.got}, n : {f.n}]

\* and what it is about fits its kind.
About(f) ==
    /\ f.kind \in ConnCalls \cup AgentCalls \cup NetCalls \cup Reads \cup {"token"}
    /\ f.kind \in ConnCalls => f.x \in Connectors
    /\ f.kind \in AgentCalls => f.x \in AgentIds
    /\ f.kind \in NetCalls => f.x \in Networks
    /\ f.kind = "addConnector" => f.y \in Networks
    /\ f.kind = "offers" => f.got \subseteq Networks
    /\ f.st = "half" => f.kind = "deleteNetwork"

\* It is of the page that is mounted or of one that was; a read and a token
\* are of the page that is mounted, and a deletion of that page tells which.
OfPage(f) ==
    /\ f.m <= mount
    /\ f.kind \in Reads \cup {"token"} => Here(f)
    /\ Here(f) => /\ (f.kind = "deleteConnector" /\ Navigates(f)) => page.name = "connector"
                  /\ (f.kind = "deleteAgent" /\ Navigates(f)) => page.name = "agent"
                  /\ (f.kind = "deleteAgent" /\ ~Navigates(f)) => page.name = "agents"

RequestOK(f) == Fields(f) /\ About(f) /\ OfPage(f)

Past == hist = [n \in {"ops", "fleet", "fails", "raced", "swallowed"} |-> hist[n]]

Shapes == FleetTypeOK /\ Past /\ mount \in Nat /\ \A f \in flights : RequestOK(f)

\* A network whose deletion is half done has no connector left but those that
\* were added since, unless the deletion of the connectors failed.
HalfDone == \A f \in flights : f.st = "half" =>
    f.x \in hist.swallowed \/ \A c \in LiveConns \ hist.raced : conns[c].of # f.x

Orphans == NoOrphanConnectors /\ HalfDone

\* What is under way of the page, but the networks a dialog asks for.
Pending == { f \in Waiting : f.kind # "offers" }

\* What the page shows, or will when the answer is in, is what the tables
\* hold, as long as nothing crosses; the list of agents may lack those whose
\* deletion failed.
Near(rows) ==
    /\ rows \subseteq View(page)
    /\ \A row \in View(page) \ rows : page.name = "agents" /\ row[1] \in hist.swallowed
InTime(f) ==
    /\ (f.kind \in Loads /\ f.st = "ok") => f.got = View(page)
    /\ (f.kind \notin Loads /\ f.st \in {"sent", "failed"} /\ ~loading) => Near(shown)
    /\ (f.kind = "deleteAgent" /\ ~Navigates(f) /\ f.st = "ok" /\ ~loading) => Near({ row \in shown : row[1] # f.x })
InStep ==
    clean => /\ \A f, g \in Pending : f = g
             /\ (~loading /\ Pending = {}) => Near(shown)
             /\ \A f \in Pending : InTime(f)

FleetInv == Shapes /\ Orphans /\ InStep

-----------------------------------------------------------------------------
(* Requests.                                                               *)

\* What a new request carries.
LEMMA CallFields ==
  ASSUME NEW kind, NEW m \in Nat, NEW x, NEW y, NEW f, f = Call(kind, m, x, y)
  PROVE  Fields(f) /\ f.kind = kind /\ f.m = m /\ f.x = x /\ f.y = y /\ f.st = "sent" /\ f.got = {}
<1>1. PICK n : f = [kind |-> kind, m |-> m, x |-> x, y |-> y, st |-> "sent", got |-> {}, n |-> n]
  BY DEF Call
<1>2. QED BY <1>1 DEF Fields

\* A click or the timer sends request f.
Sends(f) ==
    /\ Fields(f) /\ About(f) /\ OfPage(f) /\ Here(f) /\ f.st = "sent" /\ f.kind # "offers"
    /\ flights' = flights \cup {f} /\ clean' = (clean /\ Waiting = {})
    /\ UNCHANGED << server, page, mount, loading, shown, dialog, token >>

\* What a step leaves in order besides.
Kept == hist'.raced = hist.raced /\ hist'.swallowed = hist.swallowed
Buttons == {"delete", "cardDelete", "access", "add", "token"} \cup AgentIds
Tidy == busy' \subseteq Buttons /\ Past' /\ Kept

LEMMA ActsTidy == ASSUME Shapes, Acts PROVE Past' /\ Kept
  BY DEF Shapes, Past, Acts, Kept

LEMMA SendTidy ==
  ASSUME Shapes, NEW f, NEW b, b \subseteq Buttons, Send(f, b)
  PROVE  Tidy
  BY ActsTidy DEF Send, Tidy, Shapes, FleetTypeOK, Buttons

\* The page of a row, by its name.
LEMMA PageIds ==
  ASSUME Shapes
  PROVE  /\ page.name = "connector" => page.id \in Connectors
         /\ page.name = "agent" => page.id \in AgentIds
         /\ page.name = "network" => page.id \in Networks
  BY DEF Shapes, FleetTypeOK, Pages, Page, Lists

\* What a button sends is in order.
LEMMA SendForm ==
  ASSUME Shapes, NEW kind, NEW x, NEW y, NEW b, b \subseteq Buttons,
         Send(Call(kind, mount, x, y), b),
         kind \in ConnCalls \cup AgentCalls \cup NetCalls \cup {"token"},
         kind \in ConnCalls => x \in Connectors, kind \in AgentCalls => x \in AgentIds,
         kind \in NetCalls => x \in Networks, kind = "addConnector" => y \in Networks,
         (kind = "deleteConnector" /\ y \in {"delete", "cardDelete"}) => page.name = "connector",
         (kind = "deleteAgent" /\ y \in {"delete", "cardDelete"}) => page.name = "agent",
         (kind = "deleteAgent" /\ y \notin {"delete", "cardDelete"}) => page.name = "agents"
  PROVE  Tidy /\ \E f : Sends(f) /\ f.kind = kind
<1>1. PICK f : f = Call(kind, mount, x, y)
  OBVIOUS
<1>2. Fields(f) /\ f.kind = kind /\ f.m = mount /\ f.x = x /\ f.y = y /\ f.st = "sent" /\ f.got = {}
  BY <1>1, CallFields DEF Shapes
<1>3. About(f)
  BY <1>2 DEF About, ConnCalls, AgentCalls, NetCalls, Reads, Loads
<1>4. Here(f)
  BY <1>2 DEF Here
<1>5. OfPage(f)
  BY <1>2, <1>4 DEF OfPage, Navigates, Shapes
<1>6. Send(f, b)
  BY <1>1
<1>7. f.kind # "offers"
  BY <1>2 DEF ConnCalls, AgentCalls, NetCalls
<1>8. Sends(f)
  BY <1>2, <1>3, <1>4, <1>5, <1>6, <1>7 DEF Sends, Send
<1>9. QED BY <1>2, <1>6, <1>8, SendTidy

\* The forms a step of the user or the timer has.
Mounts == (\E p \in Pages : Mount(p)) /\ Past' /\ Kept
Clicks == Tidy /\ \E f : Sends(f)
Asks ==
    /\ Tidy /\ dialog' \in [kind : {None, "add"}, offers : SUBSET Networks]
    /\ UNCHANGED << server, page, mount, loading, shown, busy, clean, token >>
    /\ \/ UNCHANGED flights
       \/ \E f : /\ Fields(f) /\ About(f) /\ OfPage(f) /\ f.kind = "offers" /\ f.st = "sent"
                 /\ flights' = flights \cup {f}

LEMMA OpenForms ==
  ASSUME Shapes,
         \/ \E name \in Lists : OpenList(name)
         \/ \E c \in Connectors : OpenRow("connectors", "connector", c) \/ OpenRow("network", "connector", c)
         \/ \E a \in AgentIds : OpenRow("agents", "agent", a)
         \/ \E n \in Networks : OpenRow("networks", "network", n)
  PROVE  Mounts
<1>1. \E p \in Pages : Acts /\ Mount(p)
  BY DEF OpenList, OpenRow, Pages
<1>2. QED BY <1>1, ActsTidy DEF Mounts

LEMMA DetailForms ==
  ASSUME Shapes,
         GetToken \/ DeleteConnector \/ DeleteShownAgent \/ DeleteFromCard \/ RevokeConnector \/ GrantConnector
             \/ RevokeAgent \/ GrantAgent
  PROVE  Clicks
<1>p. /\ page.name = "connector" => page.id \in Connectors
      /\ page.name = "agent" => page.id \in AgentIds
  BY PageIds
<1>b. {"token"} \subseteq Buttons /\ {"delete"} \subseteq Buttons /\ {"cardDelete"} \subseteq Buttons /\ {"access"} \subseteq Buttons
  BY DEF Buttons
<1>1. CASE GetToken
  <2>1. Send(Call("token", mount, None, None), {"token"})
    BY <1>1 DEF GetToken
  <2>2. QED BY <1>b, <2>1, SendForm DEF Clicks, ConnCalls, AgentCalls, NetCalls
<1>2. CASE DeleteConnector
  <2>1. Send(Call("deleteConnector", mount, page.id, "delete"), {"delete"}) /\ page.name = "connector"
    BY <1>2 DEF DeleteConnector, Managed, On
  <2>2. QED BY <1>b, <1>p, <2>1, SendForm DEF Clicks, ConnCalls, AgentCalls, NetCalls
<1>3. CASE DeleteShownAgent
  <2>1. Send(Call("deleteAgent", mount, page.id, "delete"), {"delete"}) /\ page.name = "agent"
    BY <1>3 DEF DeleteShownAgent, Managed, On
  <2>2. QED BY <1>b, <1>p, <2>1, SendForm DEF Clicks, ConnCalls, AgentCalls, NetCalls
<1>4. CASE DeleteFromCard
  <2>1. Send(Call("deleteAgent", mount, page.id, "cardDelete"), {"cardDelete"}) /\ page.name = "agent"
    BY <1>4 DEF DeleteFromCard
  <2>2. QED BY <1>b, <1>p, <2>1, SendForm DEF Clicks, ConnCalls, AgentCalls, NetCalls
<1>5. CASE RevokeConnector
  <2>1. Send(Call("revokeConnector", mount, page.id, None), {"access"}) /\ page.name = "connector"
    BY <1>5 DEF RevokeConnector, Managed, On
  <2>2. QED BY <1>b, <1>p, <2>1, SendForm DEF Clicks, ConnCalls, AgentCalls, NetCalls
<1>6. CASE GrantConnector
  <2>1. Send(Call("grantConnector", mount, page.id, None), {"access"}) /\ page.name = "connector"
    BY <1>6 DEF GrantConnector, Managed, On
  <2>2. QED BY <1>b, <1>p, <2>1, SendForm DEF Clicks, ConnCalls, AgentCalls, NetCalls
<1>7. CASE RevokeAgent
  <2>1. Send(Call("revokeAgent", mount, page.id, None), {"access"}) /\ page.name = "agent"
    BY <1>7 DEF RevokeAgent, Managed, On
  <2>2. QED BY <1>b, <1>p, <2>1, SendForm DEF Clicks, ConnCalls, AgentCalls, NetCalls
<1>8. CASE GrantAgent
  <2>1. Send(Call("grantAgent", mount, page.id, None), {"access"}) /\ page.name = "agent"
    BY <1>8 DEF GrantAgent, Managed, On
  <2>2. QED BY <1>b, <1>p, <2>1, SendForm DEF Clicks, ConnCalls, AgentCalls, NetCalls
<1>9. QED BY <1>1, <1>2, <1>3, <1>4, <1>5, <1>6, <1>7, <1>8

LEMMA ListForms ==
  ASSUME Shapes,
         \/ \E c \in Connectors : DeleteListed(c)
         \/ \E n \in Networks : DeleteNetwork(n) \/ AddRemoteNetwork(n)
         \/ \E c \in Connectors, n \in Networks : AddConnector(c, n)
  PROVE  Clicks
<1>b. {"delete"} \subseteq Buttons /\ {"add"} \subseteq Buttons
  BY DEF Buttons
<1>1. ASSUME NEW c \in Connectors, DeleteListed(c) PROVE Clicks
  <2>1. Send(Call("deleteConnector", mount, c, "list"), {"delete"})
    BY <1>1 DEF DeleteListed, DeleteFromList
  <2>2. QED BY <1>b, <2>1, SendForm DEF Clicks, ConnCalls, AgentCalls, NetCalls
<1>2. ASSUME NEW n \in Networks, DeleteNetwork(n) PROVE Clicks
  <2>1. Send(Call("deleteNetwork", mount, n, "list"), {"delete"})
    BY <1>2 DEF DeleteNetwork, DeleteFromList
  <2>2. QED BY <1>b, <2>1, SendForm DEF Clicks, ConnCalls, AgentCalls, NetCalls
<1>3. ASSUME NEW n \in Networks, AddRemoteNetwork(n) PROVE Clicks
  <2>1. Send(Call("addNetwork", mount, n, None), {"add"})
    BY <1>3 DEF AddRemoteNetwork
  <2>2. QED BY <1>b, <2>1, SendForm DEF Clicks, ConnCalls, AgentCalls, NetCalls
<1>4. ASSUME NEW c \in Connectors, NEW n \in Networks, AddConnector(c, n) PROVE Clicks
  <2>1. Send(Call("addConnector", mount, c, n), {"add"})
    BY <1>4 DEF AddConnector
  <2>2. QED BY <1>b, <2>1, SendForm DEF Clicks, ConnCalls, AgentCalls, NetCalls
<1>5. QED BY <1>1, <1>2, <1>3, <1>4

LEMMA ListedAgentForm ==
  ASSUME Shapes, NEW a \in AgentIds, DeleteListedAgent(a)
  PROVE  Clicks
<1>1. PICK f : f = Call("deleteAgent", mount, a, "list")
  OBVIOUS
<1>2. Fields(f) /\ f.kind = "deleteAgent" /\ f.m = mount /\ f.x = a /\ f.y = "list" /\ f.st = "sent" /\ f.got = {}
  BY <1>1, CallFields DEF Shapes
<1>3. About(f) /\ Here(f)
  BY <1>2 DEF About, ConnCalls, AgentCalls, NetCalls, Reads, Loads, Here
<1>4. OfPage(f)
  BY <1>2, <1>3 DEF OfPage, Navigates, Shapes, DeleteListedAgent, On, Reads, Loads
<1>5. Sends(f)
  BY <1>1, <1>2, <1>3, <1>4 DEF Sends, DeleteListedAgent
<1>6. Tidy
  BY ActsTidy DEF DeleteListedAgent, Tidy, Buttons
<1>7. QED BY <1>5, <1>6 DEF Clicks

LEMMA PollForm ==
  ASSUME Shapes, Poll
  PROVE  Clicks
<1>1. PICK f : f = Call("poll", mount, None, None)
  OBVIOUS
<1>2. Fields(f) /\ f.kind = "poll" /\ f.m = mount /\ f.x = None /\ f.y = None /\ f.st = "sent" /\ f.got = {}
  BY <1>1, CallFields DEF Shapes
<1>3. About(f) /\ Here(f)
  BY <1>2 DEF About, ConnCalls, AgentCalls, NetCalls, Reads, Loads, Here
<1>4. OfPage(f)
  BY <1>2, <1>3 DEF OfPage, Navigates, Shapes
<1>5. Sends(f)
  BY <1>1, <1>2, <1>3, <1>4 DEF Sends, Poll
<1>6. Tidy
  BY DEF Poll, Tidy, Buttons, Shapes, FleetTypeOK, Past, Kept
<1>7. QED BY <1>5, <1>6 DEF Clicks

LEMMA DialogForms ==
  ASSUME Shapes, OpenDialog \/ CloseDialog
  PROVE  Asks
<1>0. dialog \in [kind : {None, "add"}, offers : SUBSET Networks] /\ busy \subseteq Buttons
  BY DEF Shapes, FleetTypeOK, Buttons
<1>1. CASE CloseDialog
  BY <1>0, <1>1 DEF CloseDialog, Asks, Tidy, Kept, Shapes, Past
<1>2. CASE OpenDialog
  <2>1. UNCHANGED << server, page, mount, loading, shown, busy, clean, token >>
    BY <1>2 DEF OpenDialog
  <2>2. Tidy
    BY <1>0, <1>2, ActsTidy DEF OpenDialog, Tidy, Kept, Shapes, Past
  <2>3. dialog' \in [kind : {None, "add"}, offers : SUBSET Networks]
    BY <1>0, <1>2, PageIds DEF OpenDialog
  <2>4. PICK f : f = Call("offers", mount, None, None)
    OBVIOUS
  <2>5. Fields(f) /\ f.kind = "offers" /\ f.m = mount /\ f.x = None /\ f.y = None /\ f.st = "sent" /\ f.got = {}
    BY <2>4, CallFields DEF Shapes
  <2>6. About(f) /\ OfPage(f)
    BY <2>5 DEF About, ConnCalls, AgentCalls, NetCalls, Reads, Loads, Here, OfPage, Navigates, Shapes
  <2>7. UNCHANGED flights \/ flights' = flights \cup {f}
    BY <1>2, <2>4 DEF OpenDialog
  <2>8. QED BY <2>1, <2>2, <2>3, <2>5, <2>6, <2>7 DEF Asks
<1>3. QED BY <1>1, <1>2

LEMMA UserForms ==
  ASSUME Shapes, User \/ Poll
  PROVE  Mounts \/ Clicks \/ Asks
  BY OpenForms, DetailForms, ListForms, ListedAgentForm, PollForm, DialogForms DEF User

-----------------------------------------------------------------------------
(* Requests that are served.                                               *)

\* Request f becomes g, unless nobody waits for it any more.
Moves(f, g) ==
    /\ f \in flights /\ f.kind # "token"
    /\ Fields(g) /\ About(g) /\ g.kind = f.kind /\ g.m = f.m /\ g.x = f.x /\ g.y = f.y /\ g.st # "sent"
    /\ flights \ {f} \subseteq flights' /\ flights' \subseteq (flights \ {f}) \cup {g}
    /\ Here(f) => g \in flights'
    /\ UNCHANGED << page, mount, loading, shown, dialog, busy, token >> /\ Past'

\* A read, a failure, a change of the tables, and one that failed unsaid.
ReadMoves(f, g) ==
    /\ Moves(f, g) /\ f.kind \in Reads /\ g.st = "ok" /\ (f.kind # "offers" => g.got = View(page))
    /\ UNCHANGED << server, clean, hist >>
FailMoves(f, g) ==
    /\ Moves(f, g) /\ g.st = "failed" /\ clean' \in BOOLEAN /\ (clean' => clean /\ (f.st = "sent" \/ f.kind \in Reads))
    /\ Kept /\ UNCHANGED server
ChangeMoves(f, g) ==
    /\ Moves(f, g) /\ f.kind \notin Reads /\ f.st \in {"sent", "half"} /\ g.st \in {"ok", "half"}
    /\ clean' = (clean /\ Here(f)) /\ hist'.swallowed = hist.swallowed
    /\ UNCHANGED procs
SwallowMoves(f, g) ==
    /\ Moves(f, g) /\ f.kind \notin Reads /\ f.st = "sent" /\ g.st \in {"ok", "half"}
    /\ clean' \in BOOLEAN /\ (clean' => clean)
    /\ hist'.raced = hist.raced /\ hist.swallowed \subseteq hist'.swallowed
    /\ (f.kind = "deleteAgent" \/ g.st = "half") => f.x \in hist'.swallowed
    /\ UNCHANGED server

LEMMA ServedMoves ==
  ASSUME Shapes, NEW f \in flights, NEW g, Served(f, g), f.kind # "token",
         Fields(g), About(g), g.kind = f.kind, g.m = f.m, g.x = f.x, g.y = f.y, g.st # "sent", Past'
  PROVE  Moves(f, g)
  BY DEF Served, Moves

\* A request that is done, or given up.
LEMMA DoneFields ==
  ASSUME Shapes, NEW f \in flights, NEW s \in {"ok", "failed"}, NEW g, g = [f EXCEPT !.st = s]
  PROVE  /\ Fields(g) /\ About(g) /\ g.kind = f.kind /\ g.m = f.m /\ g.x = f.x /\ g.y = f.y
         /\ g.st = s /\ g.got = f.got
<1>1. Fields(f) /\ About(f)
  BY DEF Shapes, RequestOK
<1>2. /\ Fields(g) /\ g.kind = f.kind /\ g.m = f.m /\ g.x = f.x /\ g.y = f.y
      /\ g.st = s /\ g.got = f.got
  BY <1>1 DEF Fields
<1>3. About(g)
  BY <1>1, <1>2 DEF About
<1>4. QED BY <1>2, <1>3

LEMMA ReadForm ==
  ASSUME Shapes, NEW f, ServeRead(f)
  PROVE  \E g : ReadMoves(f, g)
<1>0. f \in flights /\ f.kind \in Reads /\ f.st = "sent" /\ Fields(f) /\ About(f)
  BY DEF ServeRead, Shapes, RequestOK
<1>1. PICK v : v = IF f.kind = "offers" THEN LiveNets ELSE View(page)
  OBVIOUS
<1>2. PICK g : g = [Done(f) EXCEPT !.got = v]
  OBVIOUS
<1>3. Served(f, g)
  BY <1>1, <1>2 DEF ServeRead
<1>4. PICK h : h = Done(f)
  OBVIOUS
<1>5. Fields(h) /\ About(h) /\ h.kind = f.kind /\ h.m = f.m /\ h.x = f.x /\ h.y = f.y /\ h.st = "ok"
  BY <1>0, <1>4, DoneFields DEF Done
<1>6. Fields(g) /\ g.kind = f.kind /\ g.m = f.m /\ g.x = f.x /\ g.y = f.y /\ g.st = "ok" /\ g.got = v
  BY <1>2, <1>4, <1>5 DEF Fields
<1>7. About(g)
  BY <1>0, <1>1, <1>6 DEF About, LiveNets, ConnCalls, AgentCalls, NetCalls, Reads, Loads
<1>8. Past'
  BY DEF ServeRead, Shapes, Past
<1>9. Moves(f, g)
  BY <1>0, <1>3, <1>6, <1>7, <1>8, ServedMoves DEF Reads, Loads
<1>10. QED BY <1>0, <1>1, <1>6, <1>9 DEF ReadMoves, ServeRead

LEMMA FailForm ==
  ASSUME Shapes, NEW f, ServeFails(f) \/ LoseAnswer(f)
  PROVE  \E g : FailMoves(f, g)
<1>0. /\ f \in flights /\ f.kind # "token" /\ UNCHANGED server
      /\ clean' \in BOOLEAN /\ (clean' => clean /\ (f.st = "sent" \/ f.kind \in Reads))
  BY DEF ServeFails, LoseAnswer, Shapes, FleetTypeOK
<1>1. PICK g : g = [f EXCEPT !.st = "failed"]
  OBVIOUS
<1>2. Fields(g) /\ About(g) /\ g.kind = f.kind /\ g.m = f.m /\ g.x = f.x /\ g.y = f.y /\ g.st = "failed"
  BY <1>0, <1>1, DoneFields
<1>3. Past' /\ Kept
  BY DEF ServeFails, LoseAnswer, Shapes, Past, Kept
<1>4. Moves(f, g)
  <2>1. CASE ServeFails(f)
    BY <1>0, <1>1, <1>2, <1>3, <2>1, ServedMoves DEF ServeFails
  <2>2. CASE LoseAnswer(f)
    BY <1>0, <1>1, <1>2, <1>3, <2>2 DEF LoseAnswer, Moves
  <2>3. QED BY <2>1, <2>2
<1>5. QED BY <1>0, <1>2, <1>3, <1>4 DEF FailMoves

\* A change that is complete.
LEMMA ChangeForm ==
  ASSUME Shapes, NEW f, NEW kind \in ConnCalls \cup AgentCalls \cup NetCalls,
         Change(f, kind), Served(f, Done(f)), Past', hist'.swallowed = hist.swallowed
  PROVE  \E g : ChangeMoves(f, g) /\ g.st = "ok"
<1>0. f \in flights /\ f.kind = kind /\ f.st = "sent" /\ clean' = (clean /\ Here(f)) /\ UNCHANGED procs
  BY DEF Change
<1>1. PICK g : g = Done(f)
  OBVIOUS
<1>2. Fields(g) /\ About(g) /\ g.kind = f.kind /\ g.m = f.m /\ g.x = f.x /\ g.y = f.y /\ g.st = "ok"
  BY <1>0, <1>1, DoneFields DEF Done
<1>3. f.kind \notin Reads /\ f.kind # "token"
  BY <1>0 DEF Reads, Loads, ConnCalls, AgentCalls, NetCalls
<1>4. Moves(f, g)
  BY <1>0, <1>1, <1>2, <1>3, ServedMoves
<1>5. QED BY <1>0, <1>2, <1>3, <1>4 DEF ChangeMoves

\* An error that is ignored.
LEMMA SwallowForm ==
  ASSUME Shapes, NEW f, SwallowChange(f) \/ SwallowConnectors(f)
  PROVE  f.x \in Networks \cup Connectors \cup AgentIds /\ \E g : SwallowMoves(f, g)
<1>0. /\ f \in flights /\ f.st = "sent" /\ Fields(f) /\ About(f)
      /\ f.kind \in {"deleteConnector", "deleteAgent", "deleteNetwork"} \cup AccessCalls
      /\ UNCHANGED server /\ clean' \in BOOLEAN /\ (clean' => clean)
      /\ f.kind \notin Reads \cup {"token"}
  <2>1. f \in flights /\ f.st = "sent" /\ f.kind \in {"deleteConnector", "deleteAgent", "deleteNetwork"} \cup AccessCalls
    BY DEF SwallowChange, SwallowConnectors, Change
  <2>2. UNCHANGED server /\ clean' \in BOOLEAN /\ (clean' => clean)
    <3>1. CASE SwallowChange(f)
      BY <3>1 DEF SwallowChange, Shapes, FleetTypeOK
    <3>2. CASE SwallowConnectors(f)
      BY <3>2 DEF SwallowConnectors, Change, server
    <3>3. QED BY <3>1, <3>2
  <2>3. QED BY <2>1, <2>2 DEF Shapes, RequestOK, Reads, Loads, AccessCalls
<1>1. /\ Past' /\ hist'.raced = hist.raced
      /\ hist.swallowed \subseteq hist'.swallowed
  BY DEF SwallowChange, SwallowConnectors, Shapes, Past
<1>2. f.x \in Networks \cup Connectors \cup AgentIds
  BY <1>0 DEF About, NetCalls, ConnCalls, AgentCalls, AccessCalls
<1>3. CASE SwallowChange(f)
  <2>1. PICK g : g = Done(f)
    OBVIOUS
  <2>2. Fields(g) /\ About(g) /\ g.kind = f.kind /\ g.m = f.m /\ g.x = f.x /\ g.y = f.y /\ g.st = "ok"
    BY <1>0, <2>1, DoneFields DEF Done
  <2>3. Moves(f, g)
    BY <1>0, <1>1, <1>3, <2>1, <2>2, ServedMoves DEF SwallowChange
  <2>4. f.kind = "deleteAgent" => f.x \in hist'.swallowed
    BY <1>3 DEF SwallowChange, Shapes, Past
  <2>5. QED BY <1>0, <1>1, <1>2, <2>2, <2>3, <2>4 DEF SwallowMoves
<1>4. CASE SwallowConnectors(f)
  <2>1. PICK g : g = [f EXCEPT !.st = "half"]
    OBVIOUS
  <2>2. Fields(g) /\ g.kind = f.kind /\ g.m = f.m /\ g.x = f.x /\ g.y = f.y /\ g.st = "half" /\ f.kind = "deleteNetwork"
    BY <1>0, <1>4, <2>1 DEF Fields, SwallowConnectors, Change
  <2>3. About(g)
    BY <1>0, <2>2 DEF About
  <2>4. Moves(f, g)
    BY <1>0, <1>1, <1>4, <2>1, <2>2, <2>3 DEF Moves, SwallowConnectors
  <2>5. f.x \in hist'.swallowed
    BY <1>4 DEF SwallowConnectors, Shapes, Past
  <2>6. QED BY <1>0, <1>1, <1>2, <2>2, <2>4, <2>5 DEF SwallowMoves
<1>5. QED BY <1>3, <1>4

\* The two halves of deleting a network.
LEMMA HalfForm ==
  ASSUME Shapes, NEW f, ServeDeleteNetwork(f)
  PROVE  \E g : ChangeMoves(f, g) /\ g.st = "half"
<1>0. /\ f \in flights /\ f.kind = "deleteNetwork" /\ f.st = "sent" /\ clean' = (clean /\ Here(f)) /\ UNCHANGED procs
      /\ Fields(f) /\ About(f)
  BY DEF ServeDeleteNetwork, Change, Shapes, RequestOK
<1>1. PICK g : g = [f EXCEPT !.st = "half"]
  OBVIOUS
<1>2. Fields(g) /\ g.kind = f.kind /\ g.m = f.m /\ g.x = f.x /\ g.y = f.y /\ g.st = "half"
  BY <1>0, <1>1 DEF Fields
<1>3. About(g)
  BY <1>0, <1>2 DEF About
<1>4. Past' /\ hist'.swallowed = hist.swallowed
  BY DEF ServeDeleteNetwork, Shapes, Past
<1>5. Moves(f, g)
  BY <1>0, <1>1, <1>2, <1>3, <1>4 DEF Moves, ServeDeleteNetwork
<1>6. QED BY <1>0, <1>2, <1>4, <1>5 DEF ChangeMoves, Reads, Loads

LEMMA RestForm ==
  ASSUME Shapes, NEW f, ServeDeleteNetworkRow(f)
  PROVE  f.x \in Networks /\ \E g : ChangeMoves(f, g) /\ g.st = "ok"
<1>0. /\ f \in flights /\ f.st = "half" /\ clean' = (clean /\ Here(f)) /\ UNCHANGED procs
      /\ f.kind = "deleteNetwork" /\ f.x \in Networks
  BY DEF ServeDeleteNetworkRow, Shapes, RequestOK, About, NetCalls
<1>1. PICK g : g = Done(f)
  OBVIOUS
<1>2. Fields(g) /\ About(g) /\ g.kind = f.kind /\ g.m = f.m /\ g.x = f.x /\ g.y = f.y /\ g.st = "ok"
  BY <1>0, <1>1, DoneFields DEF Done
<1>3. Past' /\ hist'.swallowed = hist.swallowed
  BY DEF ServeDeleteNetworkRow, Shapes, Past
<1>4. Moves(f, g)
  BY <1>0, <1>1, <1>2, <1>3, ServedMoves DEF ServeDeleteNetworkRow
<1>5. QED BY <1>0, <1>2, <1>3, <1>4 DEF ChangeMoves, Reads, Loads

-----------------------------------------------------------------------------
(* Requests that are answered.                                             *)

\* Request f is done with; g, if any, follows it on the page.
Follows(f, g) ==
    /\ Fields(g) /\ About(g) /\ OfPage(g) /\ Here(g) /\ g.st = "sent"
    /\ flights' = (flights \ {f}) \cup {g}
Ends(f) == flights' = flights \ {f}
Answers(f) ==
    /\ f \in flights /\ Tidy /\ UNCHANGED << server, page, mount >>
    /\ dialog' \in [kind : {None, "add"}, offers : SUBSET Networks]
    /\ loading' \in BOOLEAN /\ clean' \in BOOLEAN /\ token' \in BOOLEAN

LEMMA FollowUp ==
  ASSUME Shapes, NEW kind \in {"load", "reload", "token"}, NEW g, g = Call(kind, mount, None, None)
  PROVE  Fields(g) /\ About(g) /\ OfPage(g) /\ Here(g) /\ g.st = "sent" /\ g.kind = kind
<1>1. Fields(g) /\ g.kind = kind /\ g.m = mount /\ g.y = None /\ g.st = "sent" /\ g.got = {}
  BY CallFields DEF Shapes
<1>2. QED BY <1>1 DEF About, OfPage, Here, Reads, Loads, ConnCalls, AgentCalls, NetCalls, Shapes

\* What an answer does to the requests: none but a token or a reload of the
\* page follows; a load that is answered and a deletion that leads away are
\* told apart.
LEMMA AnswerTidy ==
  ASSUME Shapes, NEW f \in flights, UNCHANGED << server, page, mount, hist >>,
         busy' \subseteq Buttons, dialog' \in [kind : {None, "add"}, offers : SUBSET Networks],
         loading' \in BOOLEAN, clean' \in BOOLEAN, token' \in BOOLEAN
  PROVE  Answers(f)
  BY DEF Answers, Tidy, Shapes, Past, Kept

LEMMA TokenForm ==
  ASSUME Shapes, NEW f, TokenAnswer(f)
  PROVE  Answers(f) /\ Ends(f) /\ f.kind = "token" /\ UNCHANGED << loading, shown, clean >>
<1>1. Tidy
  BY DEF TokenAnswer, Tidy, Buttons, Shapes, FleetTypeOK, Past, Kept
<1>2. QED BY <1>1 DEF TokenAnswer, Answers, Ends, Shapes, FleetTypeOK

LEMMA AccessForm ==
  ASSUME Shapes, NEW f, AccessAnswer(f)
  PROVE  /\ Answers(f) /\ UNCHANGED << loading, shown, clean >> /\ f.kind \in AccessCalls /\ Here(f)
         /\ \/ f.st = "ok" /\ \E g : Follows(f, g) /\ g.kind = "reload"
            \/ f.st \in {"half", "failed"} /\ Ends(f)
<1>0. f \in flights /\ f.kind \in AccessCalls /\ Here(f) /\ f.st \in {"half", "ok", "failed"}
  BY DEF AccessAnswer, Shapes, RequestOK, Fields
<1>1. Answers(f) /\ UNCHANGED << loading, shown, clean >>
  <2>1. UNCHANGED << server, page, mount, loading, shown, dialog, clean, token, hist >>
    BY DEF AccessAnswer
  <2>2. busy' \subseteq Buttons
    BY DEF AccessAnswer, Shapes, FleetTypeOK, Buttons
  <2>3. QED BY <1>0, <2>1, <2>2, AnswerTidy DEF Shapes, FleetTypeOK
<1>2. CASE f.st = "ok"
  <2>1. PICK g : g = Call("reload", mount, None, None)
    OBVIOUS
  <2>2. flights' = (flights \ {f}) \cup {g}
    BY <1>2, <2>1 DEF AccessAnswer
  <2>3. QED BY <1>0, <1>1, <1>2, <2>1, <2>2, FollowUp DEF Follows
<1>3. CASE f.st # "ok"
  BY <1>0, <1>1, <1>3 DEF AccessAnswer, Ends
<1>4. QED BY <1>2, <1>3

LEMMA DetailDeleteForm ==
  ASSUME Shapes, NEW f, DetailDeleteAnswer(f)
  PROVE  /\ f \in flights /\ Navigates(f)
         /\ \/ Mounts
            \/ Answers(f) /\ Ends(f) /\ UNCHANGED << loading, shown, clean >> /\ (Here(f) => f.st \in {"half", "failed"})
<1>0. f \in flights /\ Navigates(f) /\ f.st \in {"half", "ok", "failed"} /\ OfPage(f)
  BY DEF DetailDeleteAnswer, Shapes, RequestOK, Fields
<1>1. PICK list : list = IF f.kind = "deleteAgent" THEN "agents" ELSE "connectors"
  OBVIOUS
<1>2. CASE f.st = "ok" /\ page.name # list
  <2>1. Mount(Page(list, None)) /\ UNCHANGED hist
    BY <1>1, <1>2 DEF DetailDeleteAnswer
  <2>2. Page(list, None) \in Pages
    BY <1>1 DEF Pages, Lists
  <2>3. QED BY <1>0, <2>1, <2>2 DEF Mounts, Kept, Shapes, Past
<1>3. CASE ~(f.st = "ok" /\ page.name # list)
  <2>1. /\ flights' = flights \ {f} /\ busy' = IF Here(f) THEN busy \ {f.y} ELSE busy
        /\ UNCHANGED << server, page, mount, loading, shown, dialog, clean, token, hist >>
    BY <1>1, <1>3 DEF DetailDeleteAnswer
  <2>2. busy' \subseteq Buttons
    BY <2>1 DEF Shapes, FleetTypeOK, Buttons
  <2>3. Answers(f) /\ Ends(f) /\ UNCHANGED << loading, shown, clean >>
    BY <1>0, <2>1, <2>2, AnswerTidy DEF Shapes, FleetTypeOK, Ends
  <2>4. Here(f) => page.name # list
    BY <1>0, <1>1 DEF OfPage, Navigates
  <2>5. QED BY <1>0, <1>3, <2>3, <2>4
<1>4. QED BY <1>2, <1>3

LEMMA ListedAgentAnswerForm ==
  ASSUME Shapes, NEW f, ListedAgentAnswer(f)
  PROVE  /\ Answers(f) /\ Ends(f) /\ UNCHANGED << loading, clean >> /\ f.kind = "deleteAgent" /\ ~Navigates(f) /\ Here(f)
         /\ f.st \in {"ok", "half", "failed"}
         /\ shown' = IF f.st = "ok" THEN { row \in shown : row[1] # f.x } ELSE shown
<1>0. f \in flights /\ f.st \in {"half", "ok", "failed"}
  BY DEF ListedAgentAnswer, Shapes, RequestOK, Fields
<1>1. busy' \subseteq Buttons /\ UNCHANGED << server, page, mount, loading, dialog, clean, token, hist >>
  BY DEF ListedAgentAnswer
<1>2. Answers(f)
  BY <1>0, <1>1, AnswerTidy DEF Shapes, FleetTypeOK
<1>3. QED BY <1>0, <1>1, <1>2 DEF ListedAgentAnswer, Ends

LEMMA OffersForm ==
  ASSUME Shapes, NEW f, OffersAnswer(f)
  PROVE  Answers(f) /\ Ends(f) /\ UNCHANGED << loading, shown, clean >> /\ f.kind = "offers"
<1>0. f \in flights /\ f.kind = "offers" /\ f.got \subseteq Networks
  BY DEF OffersAnswer, Shapes, RequestOK, About
<1>1. UNCHANGED << server, page, mount, loading, shown, busy, clean, token, hist >>
  BY DEF OffersAnswer
<1>2. dialog' \in [kind : {None, "add"}, offers : SUBSET Networks]
  BY <1>0 DEF OffersAnswer, Shapes, FleetTypeOK
<1>3. Answers(f)
  BY <1>0, <1>1, <1>2, AnswerTidy DEF Shapes, FleetTypeOK, Buttons
<1>4. QED BY <1>0, <1>1, <1>3 DEF OffersAnswer, Ends

LEMMA ListForm ==
  ASSUME Shapes, NEW f, ListAnswer(f)
  PROVE  /\ Answers(f) /\ UNCHANGED shown /\ Here(f) /\ ~Navigates(f)
         /\ f.kind \in {"addConnector", "addNetwork", "deleteNetwork", "deleteConnector"}
         /\ \/ f.st = "ok" /\ clean' = (clean /\ Waiting = {f}) /\ \E g : Follows(f, g) /\ g.kind = "load"
            \/ f.st = "failed" /\ Ends(f) /\ UNCHANGED << loading, clean >>
<1>0. f \in flights /\ f.st \in {"ok", "failed"} /\ UNCHANGED << server, page, mount, shown, token, hist >>
  BY DEF ListAnswer
<1>1. busy' \subseteq Buttons
  BY DEF ListAnswer, Shapes, FleetTypeOK, Buttons
<1>2. dialog' \in [kind : {None, "add"}, offers : SUBSET Networks]
  BY DEF ListAnswer, Shapes, FleetTypeOK, Closed
<1>3. loading' \in BOOLEAN /\ clean' \in BOOLEAN
  BY DEF ListAnswer, Shapes, FleetTypeOK
<1>4. Answers(f)
  BY <1>0, <1>1, <1>2, <1>3, AnswerTidy DEF Shapes, FleetTypeOK
<1>5. CASE f.st = "ok"
  <2>1. PICK g : g = Call("load", mount, None, None)
    OBVIOUS
  <2>2. flights' = (flights \ {f}) \cup {g} /\ clean' = (clean /\ Waiting = {f})
    BY <1>5, <2>1 DEF ListAnswer
  <2>3. Follows(f, g) /\ g.kind = "load"
    BY <2>1, <2>2, FollowUp DEF Follows
  <2>4. QED BY <1>0, <1>4, <1>5, <2>2, <2>3 DEF ListAnswer
<1>6. CASE f.st # "ok"
  BY <1>0, <1>4, <1>6 DEF ListAnswer, Ends
<1>7. QED BY <1>5, <1>6

LEMMA LoadForm ==
  ASSUME Shapes, NEW f, LoadAnswer(f)
  PROVE  /\ Answers(f) /\ f.kind \in Loads /\ clean' = (clean /\ f.st = "ok")
         /\ f.st = "ok" => shown' = f.got
         /\ Ends(f) \/ \E g : Follows(f, g) /\ g.kind = "token"
<1>0. f \in flights /\ f.kind \in Loads /\ UNCHANGED << server, page, mount, dialog, token, hist >>
  BY DEF LoadAnswer
<1>1. busy' \subseteq Buttons
  BY DEF LoadAnswer, Shapes, FleetTypeOK, Buttons
<1>2. loading' \in BOOLEAN /\ clean' \in BOOLEAN /\ clean' = (clean /\ f.st = "ok") /\ (f.st = "ok" => shown' = f.got)
  BY DEF LoadAnswer, Shapes, FleetTypeOK
<1>3. Answers(f)
  BY <1>0, <1>1, <1>2, AnswerTidy DEF Shapes, FleetTypeOK
<1>4. PICK g : g = Call("token", mount, None, None)
  OBVIOUS
<1>5. flights' = flights \ {f} \/ flights' = (flights \ {f}) \cup {g}
  BY <1>4 DEF LoadAnswer
<1>6. QED BY <1>0, <1>2, <1>3, <1>4, <1>5, FollowUp DEF Follows, Ends

-----------------------------------------------------------------------------
(* Shapes.                                                                 *)

\* A request stays in order on the page it is of.
LEMMA StaysOK ==
  ASSUME NEW f, RequestOK(f), UNCHANGED << page, mount >>
  PROVE  RequestOK(f)'
  BY DEF RequestOK, Fields, About, OfPage, Here, Navigates

\* What a page that mounts sends, and what is left of the page before.
LEMMA MountRequests ==
  ASSUME Shapes, NEW p \in Pages, Mount(p)
  PROVE  \E g, k : /\ flights' \subseteq Survivors \cup {g, k} /\ g \in flights'
                   /\ Fields(g) /\ g.kind = "load" /\ g.m = mount' /\ g.st = "sent" /\ g.got = {} /\ g.y = None
                   /\ Fields(k) /\ k.kind = "token" /\ k.m = mount' /\ k.st = "sent" /\ k.got = {} /\ k.y = None
<1>1. PICK g : g = Call("load", mount + 1, None, None)
  OBVIOUS
<1>2. PICK k : k = Call("token", mount + 1, None, None)
  OBVIOUS
<1>3. mount' = mount + 1 /\ flights' \subseteq Survivors \cup {g, k} /\ g \in flights'
  BY <1>1, <1>2 DEF Mount
<1>4. mount + 1 \in Nat
  BY DEF Shapes
<1>5. QED BY <1>1, <1>2, <1>3, <1>4, CallFields

LEMMA MountShapes == ASSUME Shapes, Mounts PROVE Shapes'
<1>1. PICK p \in Pages : Mount(p)
  BY DEF Mounts
<1>2. PICK g, k : /\ flights' \subseteq Survivors \cup {g, k} /\ g \in flights'
                  /\ Fields(g) /\ g.kind = "load" /\ g.m = mount' /\ g.st = "sent" /\ g.got = {} /\ g.y = None
                  /\ Fields(k) /\ k.kind = "token" /\ k.m = mount' /\ k.st = "sent" /\ k.got = {} /\ k.y = None
  BY <1>1, MountRequests
<1>3. mount' = mount + 1 /\ mount \in Nat /\ page' = p
  BY <1>1 DEF Mount, Shapes
<1>4. FleetTypeOK'
  <2>1. UNCHANGED << nets, conns, agents, procs >> /\ loading' \in BOOLEAN /\ clean' \in BOOLEAN /\ token' \in BOOLEAN
        /\ busy' \subseteq {"token"} /\ dialog' = Closed
    BY <1>1 DEF Mount, server
  <2>2. QED BY <1>3, <2>1 DEF Shapes, FleetTypeOK, Closed
<1>5. ASSUME NEW f \in Survivors PROVE RequestOK(f)'
  <2>1. f \in flights /\ f.kind \notin Reads \cup {"token"} /\ RequestOK(f)
    BY DEF Survivors, Shapes
  <2>2. f.m <= mount /\ f.m \in Nat
    BY <2>1 DEF RequestOK, OfPage, Fields
  <2>3. f.m <= mount' /\ f.m # mount'
    BY <1>3, <2>2
  <2>4. OfPage(f)'
    BY <2>1, <2>3 DEF OfPage, Here, Navigates
  <2>5. QED BY <2>1, <2>4 DEF RequestOK, Fields, About
<1>6. RequestOK(g)'
  BY <1>2, <1>3 DEF RequestOK, Fields, About, OfPage, Here, Navigates, Reads, Loads, ConnCalls, AgentCalls, NetCalls
<1>7. RequestOK(k)'
  BY <1>2, <1>3 DEF RequestOK, Fields, About, OfPage, Here, Navigates, Reads, Loads, ConnCalls, AgentCalls, NetCalls
<1>8. Past' /\ mount' \in Nat
  BY <1>3 DEF Mounts
<1>9. QED BY <1>2, <1>4, <1>5, <1>6, <1>7, <1>8 DEF Shapes

\* Steps on the page that is mounted: the tables of it are in order, and the
\* requests are old ones and one that is in order.
LEMMA SamePageShapes ==
  ASSUME Shapes, FleetTypeOK', Past', UNCHANGED << page, mount >>,
         NEW g, (Fields(g) /\ About(g) /\ OfPage(g)) \/ g \in flights, flights' \subseteq flights \cup {g}
  PROVE  Shapes'
<1>1. RequestOK(g)
  BY DEF Shapes, RequestOK
<1>2. \A f \in flights' : RequestOK(f)
  BY <1>1 DEF Shapes
<1>3. \A f \in flights' : RequestOK(f)'
  BY <1>2, StaysOK
<1>4. QED BY <1>3 DEF Shapes

LEMMA ClickShapes == ASSUME Shapes, Clicks PROVE Shapes'
<1>1. PICK f : Sends(f)
  BY DEF Clicks
<1>2. clean' \in BOOLEAN /\ UNCHANGED << nets, conns, agents, procs, page, mount, loading, dialog, token >>
  BY <1>1 DEF Sends, server
<1>3. FleetTypeOK' /\ Past'
  BY <1>2 DEF Clicks, Tidy, Shapes, FleetTypeOK, Buttons
<1>4. QED BY <1>1, <1>2, <1>3, SamePageShapes DEF Sends

LEMMA AskShapes == ASSUME Shapes, Asks PROVE Shapes'
<1>1. UNCHANGED << nets, conns, agents, procs, page, mount, loading, clean, token >>
  BY DEF Asks, server
<1>2. FleetTypeOK' /\ Past'
  BY <1>1 DEF Asks, Tidy, Shapes, FleetTypeOK, Buttons
<1>3. CASE UNCHANGED flights
  <2>1. \A f \in flights' : RequestOK(f)'
    BY <1>1, <1>3, StaysOK DEF Shapes
  <2>2. QED BY <1>1, <1>2, <2>1 DEF Shapes
<1>4. CASE \E f : /\ Fields(f) /\ About(f) /\ OfPage(f) /\ f.kind = "offers" /\ f.st = "sent"
                  /\ flights' = flights \cup {f}
  BY <1>1, <1>2, <1>4, SamePageShapes
<1>5. QED BY <1>3, <1>4 DEF Asks

\* The tables keep their rows.
TablesTyped ==
    /\ nets \in [Networks -> {"unborn", "live", "deleted"}]
    /\ conns \in [Connectors -> TableRows(Networks)] /\ agents \in [AgentIds -> TableRows(Connectors)]
    /\ procs \subseteq Connectors

LEMMA MoveShapes ==
  ASSUME Shapes, NEW f, NEW g, Moves(f, g), TablesTyped', clean' \in BOOLEAN
  PROVE  Shapes'
<1>1. RequestOK(f) /\ UNCHANGED << page, mount, loading, shown, dialog, busy, token >>
  BY DEF Moves, Shapes
<1>2. OfPage(g)
  BY <1>1 DEF Moves, RequestOK, OfPage, Here, Navigates
<1>3. FleetTypeOK'
  BY <1>1 DEF Shapes, FleetTypeOK, TablesTyped
<1>4. QED BY <1>1, <1>2, <1>3, SamePageShapes DEF Moves

LEMMA AnswerShapes ==
  ASSUME Shapes, NEW f, Answers(f), Ends(f) \/ \E g : Follows(f, g)
  PROVE  Shapes'
<1>1. UNCHANGED << nets, conns, agents, procs, page, mount >>
  BY DEF Answers, server
<1>2. FleetTypeOK' /\ Past'
  BY <1>1 DEF Answers, Tidy, Shapes, FleetTypeOK, Buttons
<1>3. CASE Ends(f)
  BY <1>1, <1>2, <1>3, SamePageShapes DEF Ends, Answers
<1>4. CASE \E g : Follows(f, g)
  BY <1>1, <1>2, <1>4, SamePageShapes DEF Follows
<1>5. QED BY <1>3, <1>4

\* A row, and one of its fields changed.
LEMMA RowTyped ==
  ASSUME NEW owners, NEW row \in TableRows(owners), NEW st \in Rows, NEW b \in BOOLEAN
  PROVE  /\ [row EXCEPT !.st = st, !.revoked = b] \in TableRows(owners)
         /\ [row EXCEPT !.st = st, !.revoked = b, !.installed = FALSE] \in TableRows(owners)
         /\ [row EXCEPT !.st = st, !.installed = TRUE, !.fresh = TRUE] \in TableRows(owners)
         /\ [row EXCEPT !.fresh = b] \in TableRows(owners)
         /\ [row EXCEPT !.st = st] \in TableRows(owners)
  BY DEF TableRows

LEMMA NewRowTyped ==
  ASSUME NEW owners, NEW st \in Rows, NEW o \in owners
  PROVE  /\ Row(st) \in TableRows(owners)
         /\ [Row(st) EXCEPT !.of = o, !.fresh = TRUE] \in TableRows(owners)
         /\ \A b \in BOOLEAN : [Row(st) EXCEPT !.of = o, !.installed = b, !.fresh = b] \in TableRows(owners)
  BY DEF TableRows, Row

LEMMA BareRowTyped == ASSUME NEW owners, NEW st \in Rows PROVE Row(st) \in TableRows(owners)
  BY DEF TableRows, Row

-----------------------------------------------------------------------------
(* The tables, step by step.                                               *)

\* A connector's row may go, keep its network, lose it, or get one that is
\* there and not on its way out.
Homed(c) ==
    There(conns[c])' =>
        \/ c \in hist'.raced
        \/ There(conns[c]) /\ conns'[c].of = conns[c].of
        \/ conns'[c].of = None
        \/ conns'[c].of \in LiveNets /\ \A g \in flights : g.st = "half" => g.x # conns'[c].of

LEMMA HomedOrphans ==
  ASSUME Shapes, Orphans, UNCHANGED nets, hist.raced \subseteq hist'.raced, hist.swallowed \subseteq hist'.swallowed,
         \A f \in flights' : f.st = "half" => f \in flights \/ f.x \in hist'.swallowed,
         \A c \in Connectors : Homed(c)
  PROVE  Orphans'
<1>1. LiveNets' = LiveNets
  BY DEF LiveNets
<1>2. NoOrphanConnectors'
  BY <1>1 DEF Orphans, NoOrphanConnectors, LiveConns, Homed
<1>3. ASSUME NEW f \in flights', f.st = "half", f.x \notin hist'.swallowed, NEW c \in (LiveConns \ hist.raced)'
      PROVE  conns'[c].of # f.x
  <2>1. f \in flights /\ f.x \in Networks /\ f.x # None
    BY FleetPagesAssumption, <1>3 DEF Shapes, RequestOK, About, NetCalls
  <2>2. QED BY <1>3, <2>1 DEF Orphans, HalfDone, LiveConns, Homed
<1>4. HalfDone'
  BY <1>3 DEF HalfDone
<1>5. QED BY <1>2, <1>4 DEF Orphans

LEMMA OrphansStay ==
  ASSUME Shapes, Orphans, UNCHANGED << nets, conns >>, hist.raced \subseteq hist'.raced, hist.swallowed \subseteq hist'.swallowed,
         \A f \in flights' : f.st = "half" => f \in flights \/ f.x \in hist'.swallowed
  PROVE  Orphans'
<1>1. \A c \in Connectors : Homed(c)
  BY DEF Homed, There
<1>2. QED BY <1>1, HomedOrphans

\* What a change of the tables must show.
TableStep == Shapes' /\ Orphans'

LEMMA AddConnectorTables == ASSUME Shapes, Orphans, NEW f, ServeAddConnector(f) PROVE TableStep
<1>0. /\ f \in flights /\ f.x \in Connectors /\ f.y \in Networks /\ UNCHANGED << nets, agents, procs >> /\ clean' \in BOOLEAN
  BY DEF ServeAddConnector, Change, Shapes, RequestOK, About, ConnCalls
<1>1. PICK row : row = [Row("offline") EXCEPT !.of = f.y, !.fresh = TRUE]
  OBVIOUS
<1>2. row \in TableRows(Networks) /\ row.of = f.y
  BY <1>0, <1>1, NewRowTyped DEF Rows, Row
<1>3. conns' = [conns EXCEPT ![f.x] = row]
  BY <1>1 DEF ServeAddConnector
<1>4. /\ Past' /\ hist'.swallowed = hist.swallowed
      /\ hist'.raced = IF nets[f.y] # "live" \/ \E g \in flights : g.st = "half" /\ g.x = f.y
                       THEN hist.raced \cup {f.x} ELSE hist.raced
  BY DEF ServeAddConnector, Shapes, Past
<1>5. PICK g : ChangeMoves(f, g) /\ g.st = "ok"
  BY <1>4, ChangeForm DEF ServeAddConnector, ConnCalls
<1>6. TablesTyped'
  BY <1>0, <1>2, <1>3 DEF TablesTyped, Shapes, FleetTypeOK
<1>7. Shapes'
  BY <1>0, <1>5, <1>6, MoveShapes DEF ChangeMoves
<1>8. \A c \in Connectors : Homed(c)
  BY <1>0, <1>2, <1>3, <1>4 DEF Homed, There, LiveNets, Shapes, FleetTypeOK
<1>9. Orphans'
  BY <1>0, <1>4, <1>5, <1>8, HomedOrphans DEF ChangeMoves, Moves
<1>10. QED BY <1>7, <1>9 DEF TableStep

\* A row of a connector is taken away or keeps its network.
LEMMA ConnectorTables ==
  ASSUME Shapes, Orphans, NEW f, ServeDeleteConnector(f) \/ ServeRevokeConnector(f) \/ ServeGrantConnector(f)
  PROVE  TableStep
<1>0. /\ f \in flights /\ f.x \in Connectors /\ UNCHANGED << nets, agents, procs, hist >> /\ clean' \in BOOLEAN
      /\ conns \in [Connectors -> TableRows(Networks)]
  BY DEF ServeDeleteConnector, ServeRevokeConnector, ServeGrantConnector, Change, Shapes, RequestOK, About, ConnCalls, FleetTypeOK
<1>1. Past'
  BY <1>0 DEF Shapes, Past
<1>2. PICK g : ChangeMoves(f, g) /\ g.st = "ok"
  BY <1>1, ChangeForm DEF ServeDeleteConnector, ServeRevokeConnector, ServeGrantConnector, ConnCalls
<1>3. PICK old : old = conns[f.x]
  OBVIOUS
<1>4. \E row \in TableRows(Networks) :
         /\ conns' = [conns EXCEPT ![f.x] = row]
         /\ There(row) => There(old) /\ row.of = old.of
  <2>1. old \in TableRows(Networks)
    BY <1>0, <1>3
  <2>2. CASE ServeDeleteConnector(f)
    <3>1. Row("deleted") \in TableRows(Networks) /\ ~There(Row("deleted"))
      BY BareRowTyped DEF Rows, Row, There
    <3>2. QED BY <2>2, <3>1 DEF ServeDeleteConnector
  <2>3. CASE ServeRevokeConnector(f)
    <3>1. PICK row : row = [old EXCEPT !.st = "offline", !.revoked = TRUE, !.installed = FALSE]
      OBVIOUS
    <3>2. row \in TableRows(Networks) /\ row.of = old.of
      BY <2>1, <3>1 DEF TableRows, Rows
    <3>3. CASE There(old)
      BY <1>3, <2>3, <3>1, <3>2, <3>3 DEF ServeRevokeConnector
    <3>4. CASE ~There(old)
      <4>1. conns' = [conns EXCEPT ![f.x] = old]
        BY <1>0, <1>3, <2>3, <3>4 DEF ServeRevokeConnector
      <4>2. QED BY <2>1, <4>1
    <3>5. QED BY <3>3, <3>4
  <2>4. CASE ServeGrantConnector(f)
    <3>1. PICK row : row = [old EXCEPT !.st = "offline", !.revoked = FALSE]
      OBVIOUS
    <3>2. row \in TableRows(Networks) /\ row.of = old.of
      BY <2>1, <3>1 DEF TableRows, Rows
    <3>3. CASE There(old)
      BY <1>3, <2>4, <3>1, <3>2, <3>3 DEF ServeGrantConnector
    <3>4. CASE ~There(old)
      <4>1. conns' = [conns EXCEPT ![f.x] = old]
        BY <1>0, <1>3, <2>4, <3>4 DEF ServeGrantConnector
      <4>2. QED BY <2>1, <4>1
    <3>5. QED BY <3>3, <3>4
  <2>5. QED BY <2>2, <2>3, <2>4
<1>5. PICK row \in TableRows(Networks) : /\ conns' = [conns EXCEPT ![f.x] = row]
                                         /\ There(row) => There(old) /\ row.of = old.of
  BY <1>4
<1>6. TablesTyped'
  BY <1>0, <1>5 DEF TablesTyped, Shapes, FleetTypeOK
<1>7. Shapes'
  BY <1>0, <1>2, <1>6, MoveShapes DEF ChangeMoves
<1>8. \A c \in Connectors : Homed(c)
  BY <1>0, <1>3, <1>5 DEF Homed, There
<1>9. Orphans'
  BY <1>0, <1>2, <1>8, HomedOrphans DEF ChangeMoves, Moves
<1>10. QED BY <1>7, <1>9 DEF TableStep

LEMMA AgentTables ==
  ASSUME Shapes, Orphans, NEW f,
         ServeDeleteAgent(f) \/ ServeAgentAccess(f, "revokeAgent", TRUE) \/ ServeAgentAccess(f, "grantAgent", FALSE)
  PROVE  TableStep
<1>0. /\ f \in flights /\ f.x \in AgentIds /\ UNCHANGED << nets, conns, procs, hist >> /\ clean' \in BOOLEAN
      /\ agents \in [AgentIds -> TableRows(Connectors)]
  BY DEF ServeDeleteAgent, ServeAgentAccess, Change, Shapes, RequestOK, About, AgentCalls, FleetTypeOK
<1>1. Past'
  BY <1>0 DEF Shapes, Past
<1>2. PICK g : ChangeMoves(f, g) /\ g.st = "ok"
  BY <1>1, ChangeForm DEF ServeDeleteAgent, ServeAgentAccess, AgentCalls
<1>3. agents' \in [AgentIds -> TableRows(Connectors)]
  <2>1. CASE ServeDeleteAgent(f)
    <3>1. Row("deleted") \in TableRows(Connectors)
      BY BareRowTyped DEF Rows
    <3>2. QED BY <1>0, <2>1, <3>1 DEF ServeDeleteAgent
  <2>2. ASSUME NEW kind, NEW b \in BOOLEAN, ServeAgentAccess(f, kind, b) PROVE agents' \in [AgentIds -> TableRows(Connectors)]
    <3>1. PICK row : row = [agents[f.x] EXCEPT !.st = "offline", !.revoked = b]
      OBVIOUS
    <3>2. row \in TableRows(Connectors)
      BY <1>0, <3>1, RowTyped DEF Rows
    <3>3. agents' = agents \/ agents' = [agents EXCEPT ![f.x] = row]
      BY <2>2, <3>1 DEF ServeAgentAccess
    <3>4. QED BY <1>0, <3>2, <3>3
  <2>3. QED BY <2>1, <2>2
<1>4. TablesTyped'
  BY <1>0, <1>3 DEF TablesTyped, Shapes, FleetTypeOK
<1>5. Shapes'
  BY <1>0, <1>2, <1>4, MoveShapes DEF ChangeMoves
<1>6. Orphans'
  BY <1>0, <1>2, OrphansStay DEF ChangeMoves, Moves
<1>7. QED BY <1>5, <1>6 DEF TableStep

LEMMA AddNetworkTables == ASSUME Shapes, Orphans, NEW f, ServeAddNetwork(f) PROVE TableStep
<1>0. /\ f \in flights /\ f.x \in Networks /\ UNCHANGED << conns, agents, procs, hist >> /\ clean' \in BOOLEAN
      /\ nets' = [nets EXCEPT ![f.x] = "live"]
  BY DEF ServeAddNetwork, Change, Shapes, RequestOK, About, NetCalls
<1>1. Past'
  BY <1>0 DEF Shapes, Past
<1>2. PICK g : ChangeMoves(f, g) /\ g.st = "ok"
  BY <1>1, ChangeForm DEF ServeAddNetwork, NetCalls
<1>3. TablesTyped'
  BY <1>0 DEF TablesTyped, Shapes, FleetTypeOK
<1>4. Shapes'
  BY <1>0, <1>2, <1>3, MoveShapes DEF ChangeMoves
<1>5. LiveNets \subseteq LiveNets' /\ LiveConns' = LiveConns
  BY <1>0 DEF LiveNets, LiveConns, Shapes, FleetTypeOK
<1>6. \A h \in flights' : h.st = "half" => h \in flights
  BY <1>2 DEF ChangeMoves, Moves
<1>7. Orphans'
  BY <1>0, <1>5, <1>6 DEF Orphans, NoOrphanConnectors, HalfDone
<1>8. QED BY <1>4, <1>7 DEF TableStep

LEMMA DeleteNetworkTables == ASSUME Shapes, Orphans, NEW f, ServeDeleteNetwork(f) PROVE TableStep
<1>0. /\ f \in flights /\ f.x \in Networks /\ UNCHANGED << nets, agents, procs, hist >> /\ clean' \in BOOLEAN
      /\ conns' = [c \in Connectors |-> IF conns[c].of = f.x THEN Row("deleted") ELSE conns[c]]
  BY DEF ServeDeleteNetwork, Change, Shapes, RequestOK, About, NetCalls
<1>1. PICK g : ChangeMoves(f, g) /\ g.st = "half"
  BY HalfForm
<1>2. Row("deleted") \in TableRows(Networks) /\ ~There(Row("deleted"))
  BY BareRowTyped DEF Rows, Row, There
<1>3. TablesTyped'
  BY <1>0, <1>2 DEF TablesTyped, Shapes, FleetTypeOK
<1>4. Shapes'
  BY <1>0, <1>1, <1>3, MoveShapes DEF ChangeMoves
<1>5. \A c \in LiveConns' : c \in LiveConns /\ conns'[c] = conns[c] /\ conns[c].of # f.x
  BY <1>0, <1>2 DEF LiveConns
<1>6. LiveNets' = LiveNets
  BY <1>0 DEF LiveNets
<1>7. NoOrphanConnectors'
  BY <1>0, <1>5, <1>6 DEF Orphans, NoOrphanConnectors
<1>8. \A h \in flights' : h \in flights \/ h.x = f.x
  BY <1>1 DEF ChangeMoves, Moves
<1>9. HalfDone'
  BY <1>0, <1>5, <1>8 DEF Orphans, HalfDone
<1>10. QED BY <1>4, <1>7, <1>9 DEF TableStep, Orphans

LEMMA NetworkRowTables == ASSUME Shapes, Orphans, NEW f, ServeDeleteNetworkRow(f) PROVE TableStep
<1>0. /\ f \in flights /\ f.st = "half" /\ f.x \in Networks /\ UNCHANGED << conns, agents, procs, hist >> /\ clean' \in BOOLEAN
      /\ nets' = [nets EXCEPT ![f.x] = "deleted"]
  BY RestForm DEF ServeDeleteNetworkRow
<1>1. PICK g : ChangeMoves(f, g) /\ g.st = "ok"
  BY RestForm
<1>2. TablesTyped'
  BY <1>0 DEF TablesTyped, Shapes, FleetTypeOK
<1>3. Shapes'
  BY <1>0, <1>1, <1>2, MoveShapes DEF ChangeMoves
<1>4. LiveNets' = LiveNets \ {f.x} /\ LiveConns' = LiveConns
  BY <1>0 DEF LiveNets, LiveConns, Shapes, FleetTypeOK
<1>5. \A h \in flights' : h.st = "half" => h \in flights
  BY <1>1 DEF ChangeMoves, Moves
<1>6. NoOrphanConnectors'
  BY <1>0, <1>4 DEF Orphans, NoOrphanConnectors, HalfDone
<1>7. HalfDone'
  BY <1>0, <1>4, <1>5 DEF Orphans, HalfDone
<1>8. QED BY <1>3, <1>6, <1>7 DEF TableStep, Orphans

\* A step of the fleet that keeps the rows in order.
LEMMA FleetTables ==
  ASSUME Shapes, Orphans, Fleet, procs' \subseteq Connectors,
         conns' \in [Connectors -> TableRows(Networks)], agents' \in [AgentIds -> TableRows(Connectors)],
         \A c \in Connectors : There(conns'[c]) => \/ There(conns[c]) /\ conns'[c].of = conns[c].of
                                                   \/ conns'[c].of = None
  PROVE  TableStep /\ ~clean'
<1>1. /\ Past' /\ Kept /\ clean' = FALSE /\ clean' \in BOOLEAN
      /\ UNCHANGED << nets, page, mount, loading, shown, dialog, busy, token, flights >>
  BY DEF Fleet, Shapes, Past, Kept
<1>2. FleetTypeOK'
  BY <1>1 DEF Shapes, FleetTypeOK
<1>3. \A f \in flights' : RequestOK(f)'
  BY <1>1, StaysOK DEF Shapes
<1>4. Shapes'
  BY <1>1, <1>2, <1>3 DEF Shapes
<1>5. \A c \in Connectors : Homed(c)
  BY DEF Homed, There
<1>6. Orphans'
  BY <1>1, <1>5, HomedOrphans DEF Kept
<1>7. QED BY <1>1, <1>4, <1>6 DEF TableStep

LEMMA FieldStep == ASSUME Shapes, Orphans, Field PROVE TableStep /\ ~clean'
<1>0. conns \in [Connectors -> TableRows(Networks)] /\ agents \in [AgentIds -> TableRows(Connectors)] /\ procs \subseteq Connectors
  BY DEF Shapes, FleetTypeOK
<1>1. ASSUME NEW c \in Connectors, Heartbeat(c) PROVE TableStep /\ ~clean'
  <2>1. PICK base : base = IF There(conns[c]) THEN conns[c] ELSE Row("online")
    OBVIOUS
  <2>2. PICK row : row = [base EXCEPT !.st = "online", !.installed = TRUE, !.fresh = TRUE]
    OBVIOUS
  <2>3. Row("online") \in TableRows(Networks) /\ Row("online").of = None
    BY BareRowTyped DEF Rows, Row
  <2>4. base \in TableRows(Networks) /\ ((base = conns[c] /\ There(conns[c])) \/ base.of = None)
    BY <1>0, <2>1, <2>3
  <2>5. row \in TableRows(Networks) /\ row.of = base.of
    BY <2>2, <2>4 DEF TableRows, Rows
  <2>6. conns' = [conns EXCEPT ![c] = row] /\ Fleet /\ UNCHANGED agents /\ procs' = procs \cup {c}
    BY <1>1, <2>1, <2>2 DEF Heartbeat
  <2>7. conns' \in [Connectors -> TableRows(Networks)] /\ procs' \subseteq Connectors /\ agents' \in [AgentIds -> TableRows(Connectors)]
    BY <1>0, <2>5, <2>6
  <2>8. \A d \in Connectors : There(conns'[d]) => \/ There(conns[d]) /\ conns'[d].of = conns[d].of
                                                  \/ conns'[d].of = None
    BY <1>0, <2>4, <2>5, <2>6
  <2>9. QED BY <2>6, <2>7, <2>8, FleetTables
<1>2. ASSUME NEW c \in Connectors, Silent(c) PROVE TableStep /\ ~clean'
  <2>1. PICK row : row = [conns[c] EXCEPT !.fresh = FALSE]
    OBVIOUS
  <2>2. row \in TableRows(Networks) /\ row.of = conns[c].of /\ There(conns[c])
    BY <1>0, <1>2, <2>1 DEF TableRows, Silent
  <2>3. conns' = [conns EXCEPT ![c] = row] /\ Fleet /\ UNCHANGED procs
    BY <1>0, <1>2, <2>1 DEF Silent
  <2>4. agents' \in [AgentIds -> TableRows(Connectors)]
    <3>1. \A a \in AgentIds : [agents[a] EXCEPT !.fresh = FALSE] \in TableRows(Connectors)
      BY <1>0 DEF TableRows
    <3>2. QED BY <1>0, <1>2, <3>1 DEF Silent
  <2>5. conns' \in [Connectors -> TableRows(Networks)]
    BY <1>0, <2>2, <2>3
  <2>6. \A d \in Connectors : There(conns'[d]) => There(conns[d]) /\ conns'[d].of = conns[d].of
    BY <1>0, <2>2, <2>3
  <2>7. QED BY <1>0, <2>3, <2>4, <2>5, <2>6, FleetTables
<1>3. CASE Tick
  <2>1. \A owners : \A row \in TableRows(owners) :
            /\ [row EXCEPT !.st = "offline"] \in TableRows(owners)
            /\ [row EXCEPT !.st = "offline"].of = row.of
    BY DEF TableRows, Rows
  <2>2. /\ conns' = [c \in Connectors |-> IF conns[c].st = "online" /\ ~conns[c].fresh
                                          THEN [conns[c] EXCEPT !.st = "offline"] ELSE conns[c]]
        /\ agents' = [a \in AgentIds |-> IF agents[a].st = "online" /\ ~agents[a].fresh
                                         THEN [agents[a] EXCEPT !.st = "offline"] ELSE agents[a]]
        /\ Fleet /\ UNCHANGED procs
    BY <1>3 DEF Tick
  <2>3. conns' \in [Connectors -> TableRows(Networks)]
    BY <1>0, <2>1, <2>2
  <2>4. agents' \in [AgentIds -> TableRows(Connectors)]
    BY <1>0, <2>1, <2>2
  <2>5. \A d \in Connectors : There(conns'[d]) => There(conns[d]) /\ conns'[d].of = conns[d].of
    BY <1>0, <2>1, <2>2 DEF There
  <2>6. QED BY <1>0, <2>2, <2>3, <2>4, <2>5, FleetTables
<1>4. ASSUME NEW a \in AgentIds, AgentEnrols(a) PROVE TableStep /\ ~clean'
  <2>1. PICK base : base = IF There(agents[a]) THEN agents[a] ELSE Row("offline")
    OBVIOUS
  <2>2. PICK row : row = [base EXCEPT !.fresh = TRUE]
    OBVIOUS
  <2>3. base \in TableRows(Connectors)
    BY <1>0, <2>1, BareRowTyped DEF Rows
  <2>4. row \in TableRows(Connectors)
    BY <2>2, <2>3 DEF TableRows
  <2>5. agents' = [agents EXCEPT ![a] = row] /\ Fleet /\ UNCHANGED << conns, procs >>
    BY <1>4, <2>1, <2>2 DEF AgentEnrols
  <2>6. agents' \in [AgentIds -> TableRows(Connectors)]
    BY <1>0, <2>4, <2>5
  <2>7. QED BY <1>0, <2>5, <2>6, FleetTables
<1>5. ASSUME NEW a \in AgentIds, NEW c \in Connectors, AgentSeen(c, a) PROVE TableStep /\ ~clean'
  <2>1. PICK base : base = IF There(agents[a]) THEN agents[a] ELSE Row("online")
    OBVIOUS
  <2>2. PICK row : row = [base EXCEPT !.st = "online", !.installed = TRUE, !.fresh = TRUE, !.of = c]
    OBVIOUS
  <2>3. base \in TableRows(Connectors)
    BY <1>0, <2>1, BareRowTyped DEF Rows
  <2>4. row \in TableRows(Connectors)
    BY <2>2, <2>3 DEF TableRows, Rows
  <2>5. agents' = [agents EXCEPT ![a] = row] /\ Fleet /\ UNCHANGED << conns, procs >>
    BY <1>5, <2>1, <2>2 DEF AgentSeen
  <2>6. agents' \in [AgentIds -> TableRows(Connectors)]
    BY <1>0, <2>4, <2>5
  <2>7. QED BY <1>0, <2>5, <2>6, FleetTables
<1>6. QED BY <1>1, <1>2, <1>3, <1>4, <1>5 DEF Field

LEMMA ServeTables == ASSUME Shapes, Orphans, NEW f, Serve(f) \/ ServeFails(f) \/ LoseAnswer(f) PROVE TableStep
<1>1. CASE ServeRead(f)
  <2>1. PICK g : ReadMoves(f, g)
    BY <1>1, ReadForm
  <2>2. UNCHANGED << nets, conns, agents, procs, clean, hist >>
    BY <2>1 DEF ReadMoves, server
  <2>3. Shapes'
    BY <2>1, <2>2, MoveShapes DEF ReadMoves, TablesTyped, Shapes, FleetTypeOK
  <2>4. Orphans'
    BY <2>1, <2>2, OrphansStay DEF ReadMoves, Moves
  <2>5. QED BY <2>3, <2>4 DEF TableStep
<1>2. CASE ServeFails(f) \/ LoseAnswer(f)
  <2>1. PICK g : FailMoves(f, g)
    BY <1>2, FailForm
  <2>2. UNCHANGED << nets, conns, agents, procs >> /\ clean' \in BOOLEAN /\ Kept
    BY <2>1 DEF FailMoves, server
  <2>3. Shapes'
    BY <2>1, <2>2, MoveShapes DEF FailMoves, TablesTyped, Shapes, FleetTypeOK
  <2>4. Orphans'
    BY <2>1, <2>2, OrphansStay DEF FailMoves, Moves, Kept
  <2>5. QED BY <2>3, <2>4 DEF TableStep
<1>3. CASE SwallowChange(f) \/ SwallowConnectors(f)
  <2>1. PICK g : SwallowMoves(f, g)
    BY <1>3, SwallowForm
  <2>2. UNCHANGED << nets, conns, agents, procs >> /\ clean' \in BOOLEAN
    BY <2>1 DEF SwallowMoves, server
  <2>3. Shapes'
    BY <2>1, <2>2, MoveShapes DEF SwallowMoves, TablesTyped, Shapes, FleetTypeOK
  <2>4. Orphans'
    BY <2>1, <2>2, OrphansStay DEF SwallowMoves, Moves
  <2>5. QED BY <2>3, <2>4 DEF TableStep
<1>4. QED BY <1>1, <1>2, <1>3, AddConnectorTables, ConnectorTables, AgentTables, AddNetworkTables, DeleteNetworkTables,
             NetworkRowTables DEF Serve

\* An answer ends its request or is followed by one, or the page changes.
LEMMA AnswerForms ==
  ASSUME Shapes, NEW f, Answer(f)
  PROVE  Mounts \/ (Answers(f) /\ (Ends(f) \/ \E g : Follows(f, g)))
  BY TokenForm, AccessForm, DetailDeleteForm, ListedAgentAnswerForm, OffersForm, ListForm, LoadForm DEF Answer

LEMMA MountOrphans == ASSUME Shapes, Orphans, Mounts PROVE Orphans'
<1>1. PICK p \in Pages : Mount(p)
  BY DEF Mounts
<1>2. PICK g, k : flights' \subseteq Survivors \cup {g, k} /\ g.st = "sent" /\ k.st = "sent"
  BY <1>1, MountRequests
<1>3. UNCHANGED << nets, conns >>
  BY <1>1 DEF Mount, server
<1>4. QED BY <1>2, <1>3, OrphansStay DEF Survivors, Mounts, Kept

LEMMA TableInductive == ASSUME Shapes, Orphans, [FleetNext]_fleetVars PROVE TableStep
<1>1. CASE Mounts
  BY <1>1, MountShapes, MountOrphans DEF TableStep
<1>2. CASE Clicks
  <2>1. Orphans'
    BY <1>2, OrphansStay DEF Clicks, Sends, Tidy, Kept, server
  <2>2. QED BY <1>2, <2>1, ClickShapes DEF TableStep
<1>3. CASE Asks
  <2>1. Orphans'
    BY <1>3, OrphansStay DEF Asks, Tidy, Kept, server
  <2>2. QED BY <1>3, <2>1, AskShapes DEF TableStep
<1>4. ASSUME NEW f, Answer(f) PROVE TableStep
  <2>1. CASE Answers(f) /\ (Ends(f) \/ \E g : Follows(f, g))
    <3>1. Orphans'
      BY <2>1, OrphansStay DEF Answers, Ends, Follows, Tidy, Kept, server
    <3>2. QED BY <2>1, <3>1, AnswerShapes DEF TableStep
  <2>2. QED BY <1>1, <1>4, <2>1, AnswerForms
<1>5. CASE UNCHANGED fleetVars
  <2>1. UNCHANGED << nets, conns, agents, procs, page, mount, loading, shown, dialog, busy, clean, token, flights, hist >>
    BY <1>5 DEF fleetVars, server, tab
  <2>2. \A f \in flights' : RequestOK(f)'
    BY <2>1, StaysOK DEF Shapes
  <2>3. Shapes'
    BY <2>1, <2>2 DEF Shapes, FleetTypeOK, Past, Kept
  <2>4. Orphans'
    BY <2>1, OrphansStay
  <2>5. QED BY <2>3, <2>4 DEF TableStep
<1>6. QED BY <1>1, <1>2, <1>3, <1>4, <1>5, UserForms, FieldStep, ServeTables DEF FleetNext

-----------------------------------------------------------------------------
(* What the page shows.                                                    *)

LEMMA ViewStays == ASSUME UNCHANGED << nets, conns, agents, page >> PROVE View(page)' = View(page)
  BY DEF View, ConnectorCard, AgentCard, AgentLine, Counts, ConnectorsOf, LiveConns, LiveAgents, LiveNets, There

LEMMA PendingIs ==
  /\ Pending = { f \in flights : f.m = mount /\ f.kind \notin {"token", "offers"} }
  /\ Pending' = { f \in flights' : f.m = mount' /\ f.kind \notin {"token", "offers"} }
  BY DEF Pending, Waiting, Here

\* With the tables and what the page shows unchanged, a request is in time as
\* it was.
LEMMA InTimeStays ==
  ASSUME UNCHANGED << nets, conns, agents, page, shown, loading >>, hist.swallowed \subseteq hist'.swallowed,
         NEW f, InTime(f)
  PROVE  InTime(f)'
  BY ViewStays DEF InTime, Near, Navigates

LEMMA NothingMoves ==
  ASSUME InStep, UNCHANGED << nets, conns, agents, page, shown, loading >>, hist.swallowed \subseteq hist'.swallowed,
         Pending' = Pending, clean' => clean
  PROVE  InStep'
<1>1. View(page)' = View(page)
  BY ViewStays
<1>2. QED BY <1>1, InTimeStays DEF InStep, Near

\* One request is outstanding, and it is in time.
LEMMA OneInTime ==
  ASSUME NEW g, Pending' = {g}, clean' => InTime(g)'
  PROVE  InStep'
  BY DEF InStep

\* None is outstanding.
LEMMA NoneInTime ==
  ASSUME Pending' = {}, (clean' /\ ~loading') => Near(shown)'
  PROVE  InStep'
  BY DEF InStep

LEMMA MountInStep == ASSUME Shapes, Mounts PROVE InStep'
<1>1. PICK p \in Pages : Mount(p)
  BY DEF Mounts
<1>2. PICK g, k : /\ flights' \subseteq Survivors \cup {g, k} /\ g \in flights'
                  /\ g.kind = "load" /\ g.m = mount' /\ g.st = "sent" /\ k.kind = "token"
  BY <1>1, MountRequests
<1>3. mount' = mount + 1 /\ mount \in Nat /\ loading' = TRUE
  BY <1>1 DEF Mount, Shapes
<1>4. \A f \in Survivors : f.m # mount'
  BY <1>3 DEF Survivors, Shapes, RequestOK, OfPage, Fields
<1>5. Pending' = {g}
  BY <1>2, <1>4, PendingIs
<1>6. InTime(g)'
  BY <1>2, <1>3 DEF InTime, Loads
<1>7. QED BY <1>5, <1>6, OneInTime

LEMMA ClickInStep == ASSUME Shapes, InStep, Clicks PROVE InStep'
<1>1. PICK f : Sends(f)
  BY DEF Clicks
<1>2. UNCHANGED << nets, conns, agents, page, mount, shown, loading >> /\ f.m = mount /\ f.st = "sent" /\ f.kind # "offers"
      /\ flights' = flights \cup {f} /\ (clean' => clean /\ Waiting = {}) /\ hist'.swallowed = hist.swallowed
  BY <1>1 DEF Sends, server, Here, Clicks, Tidy, Kept
<1>3. SUFFICES ASSUME clean' PROVE InStep'
  BY DEF InStep
<1>4. clean /\ Pending = {} /\ (~loading => Near(shown))
  BY <1>2, <1>3 DEF Pending, InStep
<1>5. View(page)' = View(page)
  BY <1>2, ViewStays
<1>6. CASE f.kind = "token"
  <2>1. Pending' = {}
    BY <1>2, <1>4, <1>6, PendingIs
  <2>2. QED BY <1>2, <1>4, <1>5, <2>1, NoneInTime DEF Near
<1>7. CASE f.kind # "token"
  <2>1. Pending' = {f}
    BY <1>2, <1>4, <1>7, PendingIs
  <2>2. InTime(f)'
    BY <1>2, <1>4, <1>5 DEF InTime, Near
  <2>3. QED BY <2>1, <2>2, OneInTime
<1>8. QED BY <1>6, <1>7

LEMMA AskInStep == ASSUME InStep, Asks PROVE InStep'
<1>1. UNCHANGED << nets, conns, agents, page, mount, shown, loading, clean >> /\ hist'.swallowed = hist.swallowed
  BY DEF Asks, Tidy, Kept, server
<1>2. Pending' = Pending
  BY <1>1, PendingIs DEF Asks
<1>3. QED BY <1>1, <1>2, NothingMoves

\* What is pending after a request was served.
LEMMA MovePending ==
  ASSUME Shapes, NEW f, NEW g, Moves(f, g)
  PROVE  /\ f \in Pending => Pending' = (Pending \ {f}) \cup {g}
         /\ f \notin Pending => Pending' = Pending
         /\ f \in Pending <=> (Here(f) /\ f.kind # "offers")
<1>1. /\ f \in flights /\ f.kind # "token" /\ g.kind = f.kind /\ g.m = f.m /\ mount' = mount
      /\ flights \ {f} \subseteq flights' /\ flights' \subseteq (flights \ {f}) \cup {g} /\ (f.m = mount => g \in flights')
  BY DEF Moves, Here
<1>2. f \in Pending <=> (f.m = mount /\ f.kind # "offers")
  BY <1>1, PendingIs
<1>3. f \in Pending => Pending' = (Pending \ {f}) \cup {g}
  BY <1>1, <1>2, PendingIs
<1>4. f \notin Pending => Pending' = Pending
  BY <1>1, <1>2, PendingIs
<1>5. QED BY <1>2, <1>3, <1>4 DEF Here

LEMMA ReadInStep == ASSUME Shapes, InStep, NEW f, NEW g, ReadMoves(f, g) PROVE InStep'
<1>1. UNCHANGED << nets, conns, agents, page, mount, shown, loading, clean, hist >> /\ Moves(f, g)
  BY DEF ReadMoves, Moves, server
<1>2. CASE f \notin Pending
  BY <1>1, <1>2, MovePending, NothingMoves
<1>3. CASE f \in Pending /\ clean'
  <2>1. Pending' = {g}
    BY <1>1, <1>3, MovePending DEF InStep
  <2>2. f.kind \in Loads /\ g.kind \in Loads /\ g.got = View(page)
    BY <1>1, <1>3, MovePending DEF ReadMoves, Moves, Reads
  <2>3. View(page)' = View(page)
    BY <1>1, ViewStays
  <2>4. InTime(g)'
    BY <2>2, <2>3 DEF InTime, Loads
  <2>5. QED BY <2>1, <2>4, OneInTime
<1>4. QED BY <1>2, <1>3 DEF InStep

LEMMA FailInStep == ASSUME Shapes, InStep, NEW f, NEW g, FailMoves(f, g) PROVE InStep'
<1>1. /\ UNCHANGED << nets, conns, agents, page, mount, shown, loading >> /\ Moves(f, g)
      /\ (clean' => clean /\ (f.st = "sent" \/ f.kind \in Reads)) /\ hist'.swallowed = hist.swallowed
  BY DEF FailMoves, Moves, Kept, server
<1>2. CASE f \notin Pending
  BY <1>1, <1>2, MovePending, NothingMoves
<1>3. CASE f \in Pending /\ clean'
  <2>1. Pending' = {g} /\ InTime(f)
    BY <1>1, <1>3, MovePending DEF InStep
  <2>2. View(page)' = View(page)
    BY <1>1, ViewStays
  <2>3. g.kind = f.kind /\ g.st = "failed" /\ (f.st = "sent" \/ f.kind \in Loads)
    BY <1>1, <1>3, MovePending DEF FailMoves, Moves, Reads
  <2>4. InTime(g)'
    BY <1>1, <2>1, <2>2, <2>3 DEF InTime, Near
  <2>5. QED BY <2>1, <2>4, OneInTime
<1>4. QED BY <1>2, <1>3 DEF InStep

\* The page after an error was ignored: the list of agents will lack the row.
LEMMA SwallowInStep == ASSUME Shapes, InStep, NEW f, NEW g, SwallowMoves(f, g) PROVE InStep'
<1>1. /\ UNCHANGED << nets, conns, agents, page, mount, shown, loading >> /\ Moves(f, g)
      /\ (clean' => clean) /\ hist.swallowed \subseteq hist'.swallowed
  BY DEF SwallowMoves, Moves, server
<1>2. CASE f \notin Pending
  BY <1>1, <1>2, MovePending, NothingMoves
<1>3. CASE f \in Pending /\ clean'
  <2>1. Pending' = {g} /\ InTime(f) /\ Here(f)
    BY <1>1, <1>3, MovePending DEF InStep
  <2>2. View(page)' = View(page)
    BY <1>1, ViewStays
  <2>3. g.kind = f.kind /\ g.x = f.x /\ g.y = f.y /\ g.st \in {"ok", "half"} /\ f.st = "sent" /\ f.kind \notin Loads
    BY <1>1 DEF SwallowMoves, Moves, Reads
  <2>4. ASSUME g.kind = "deleteAgent", ~Navigates(g), ~loading PROVE Near({ row \in shown : row[1] # g.x })'
    <3>1. f.kind = "deleteAgent" /\ ~Navigates(f) /\ f \in flights
      BY <1>1, <2>3, <2>4 DEF Navigates, Moves
    <3>2. page.name = "agents"
      BY <2>1, <3>1 DEF Shapes, RequestOK, OfPage
    <3>3. Near(shown)
      BY <2>1, <2>3, <2>4 DEF InTime
    <3>4. f.x \in hist'.swallowed
      BY <3>1 DEF SwallowMoves
    <3>5. QED BY <1>1, <2>2, <2>3, <3>2, <3>3, <3>4 DEF Near
  <2>5. InTime(g)'
    BY <1>1, <2>3, <2>4 DEF InTime, Navigates
  <2>6. QED BY <2>1, <2>5, OneInTime
<1>4. QED BY <1>2, <1>3 DEF InStep

\* The list of agents after an agent was removed.
LEMMA AgentGone ==
  ASSUME Shapes, NEW f, ServeDeleteAgent(f), page.name = "agents"
  PROVE  View(page)' = { row \in View(page) : row[1] # f.x }
<1>1. page' = page /\ agents' = [agents EXCEPT ![f.x] = Row("deleted")] /\ f.x \in AgentIds
  BY DEF ServeDeleteAgent, Served, Change, Shapes, RequestOK, About, AgentCalls
<1>2. ~There(Row("deleted"))
  BY DEF There, Row
<1>3. LiveAgents' = LiveAgents \ {f.x}
  BY <1>1, <1>2 DEF LiveAgents, Shapes, FleetTypeOK
<1>4. \A a \in LiveAgents' : AgentLine(a)' = AgentLine(a)
  BY <1>1, <1>3 DEF AgentLine, LiveAgents, Shapes, FleetTypeOK
<1>5. View(page) = { AgentLine(a) : a \in LiveAgents }
  BY DEF View
<1>6. View(page)' = { AgentLine(a)' : a \in LiveAgents' }
  BY <1>1 DEF View
<1>7. \A a \in LiveAgents : AgentLine(a)[1] = a
  BY DEF AgentLine
<1>8. QED BY <1>3, <1>4, <1>5, <1>6, <1>7

LEMMA ChangeInStep == ASSUME Shapes, InStep, NEW f, NEW g, ChangeMoves(f, g), Serve(f),
                            ~SwallowChange(f), ~SwallowConnectors(f) PROVE InStep'
<1>1. UNCHANGED << page, mount, shown, loading >> /\ Moves(f, g) /\ (clean' => clean /\ Here(f))
      /\ hist'.swallowed = hist.swallowed
  BY DEF ChangeMoves, Moves
<1>2. SUFFICES ASSUME clean' PROVE InStep'
  BY DEF InStep
<1>3. clean /\ f \in Pending
  BY <1>1, <1>2, MovePending DEF ChangeMoves, Reads
<1>4. Pending' = {g} /\ InTime(f)
  BY <1>1, <1>3, MovePending DEF InStep
<1>5. g.kind = f.kind /\ g.x = f.x /\ g.y = f.y /\ g.st \in {"ok", "half"} /\ g.kind \notin Loads
  BY DEF ChangeMoves, Moves, Reads
<1>6. ASSUME g.kind = "deleteAgent", ~Navigates(g), ~loading PROVE Near({ row \in shown : row[1] # g.x })'
  <2>1. f.kind = "deleteAgent" /\ ~Navigates(f) /\ f.st = "sent" /\ f \in flights
    BY <1>1, <1>5, <1>6 DEF Navigates, Moves, ChangeMoves, Shapes, RequestOK, About
  <2>2. ServeDeleteAgent(f)
    BY <2>1 DEF Serve, ServeRead, ServeAddConnector, ServeDeleteConnector, ServeRevokeConnector, ServeGrantConnector,
                ServeAgentAccess, ServeAddNetwork, ServeDeleteNetwork, ServeDeleteNetworkRow, Change, Reads, Loads
  <2>3. page.name = "agents"
    BY <1>1, <1>2, <2>1 DEF Shapes, RequestOK, OfPage
  <2>4. Near(shown)
    BY <1>4, <1>6, <2>1 DEF InTime, Loads
  <2>5. View(page)' = { row \in View(page) : row[1] # f.x }
    BY <2>2, <2>3, AgentGone
  <2>6. QED BY <1>1, <1>5, <2>3, <2>4, <2>5 DEF Near
<1>7. InTime(g)'
  BY <1>1, <1>5, <1>6 DEF InTime, Navigates
<1>8. QED BY <1>4, <1>7, OneInTime

\* What is pending after an answer.
LEMMA AnswerPending ==
  ASSUME NEW f, f \in flights, UNCHANGED mount
  PROVE  /\ Ends(f) => Pending' = Pending \ {f}
         /\ \A g : (Follows(f, g) /\ g.kind \notin {"token", "offers"}) => Pending' = (Pending \ {f}) \cup {g}
         /\ \A g : (Follows(f, g) /\ g.kind = "token") => Pending' = Pending \ {f}
  BY PendingIs DEF Ends, Follows, Here

\* A request that failed is dropped: the page is what it was.
LEMMA FailedEnds ==
  ASSUME InStep, NEW f \in Pending, f.st \in {"failed", "sent"}, f.kind \notin Loads, Ends(f),
         UNCHANGED << nets, conns, agents, page, mount, shown, loading, clean >>, hist'.swallowed = hist.swallowed
  PROVE  InStep'
<1>1. SUFFICES ASSUME clean' PROVE InStep'
  BY DEF InStep
<1>2. Pending = {f} /\ InTime(f)
  BY <1>1 DEF InStep
<1>3. f \in flights
  BY PendingIs
<1>4. Pending' = {}
  BY <1>2, <1>3, AnswerPending
<1>5. View(page)' = View(page)
  BY ViewStays
<1>6. QED BY <1>2, <1>4, <1>5, NoneInTime DEF InTime, Near

\* A request of another page, a token or an offer is dropped.
LEMMA OtherEnds ==
  ASSUME InStep, NEW f \in flights, f \notin Pending, Ends(f),
         UNCHANGED << nets, conns, agents, page, mount, shown, loading, clean >>, hist'.swallowed = hist.swallowed
  PROVE  InStep'
<1>1. Pending' = Pending
  BY AnswerPending
<1>2. QED BY <1>1, NothingMoves

\* A load follows.
LEMMA LoadFollows ==
  ASSUME InStep, NEW f \in Pending, NEW g, Follows(f, g), g.kind \in Loads, clean' => clean, UNCHANGED mount
  PROVE  InStep'
<1>1. SUFFICES ASSUME clean' PROVE InStep'
  BY DEF InStep
<1>2. Pending = {f} /\ f \in flights
  BY <1>1, PendingIs DEF InStep
<1>3. Pending' = {g}
  BY <1>2, AnswerPending DEF Loads
<1>4. InTime(g)'
  BY DEF InTime, Follows, Loads
<1>5. QED BY <1>3, <1>4, OneInTime

LEMMA AnswerInStep == ASSUME Shapes, InStep, NEW f \in flights, Answer(f) PROVE InStep'
<1>a. ASSUME Answers(f) PROVE UNCHANGED << nets, conns, agents, page, mount >> /\ hist'.swallowed = hist.swallowed
  BY <1>a DEF Answers, Tidy, Kept, server
<1>0. RequestOK(f)
  BY DEF Shapes
<1>1. CASE TokenAnswer(f)
  <2>1. Answers(f) /\ Ends(f) /\ f.kind = "token" /\ UNCHANGED << loading, shown, clean >>
    BY <1>1, TokenForm
  <2>2. f \notin Pending
    BY <2>1, PendingIs
  <2>3. QED BY <1>a, <2>1, <2>2, OtherEnds
<1>2. CASE AccessAnswer(f)
  <2>1. /\ Answers(f) /\ UNCHANGED << loading, shown, clean >> /\ f.kind \in AccessCalls /\ Here(f)
        /\ \/ f.st = "ok" /\ \E g : Follows(f, g) /\ g.kind = "reload"
           \/ f.st \in {"half", "failed"} /\ Ends(f)
    BY <1>2, AccessForm
  <2>2. f \in Pending /\ f.st # "half" /\ f.kind \notin Loads
    BY <1>0, <2>1, PendingIs DEF AccessCalls, Here, RequestOK, About, Loads
  <2>3. CASE \E g : Follows(f, g) /\ g.kind = "reload"
    BY <1>a, <2>1, <2>2, <2>3, LoadFollows DEF Loads
  <2>4. CASE f.st \in {"half", "failed"} /\ Ends(f)
    BY <1>a, <2>1, <2>2, <2>4, FailedEnds
  <2>5. QED BY <2>1, <2>3, <2>4
<1>3. CASE DetailDeleteAnswer(f)
  <2>1. /\ Navigates(f)
        /\ \/ Mounts
           \/ Answers(f) /\ Ends(f) /\ UNCHANGED << loading, shown, clean >> /\ (Here(f) => f.st \in {"half", "failed"})
    BY <1>3, DetailDeleteForm
  <2>2. f.kind \in {"deleteConnector", "deleteAgent"}
    BY <2>1 DEF Navigates
  <2>3. f.st # "half" /\ f.kind \notin Loads /\ (f \in Pending <=> Here(f))
    BY <1>0, <2>2, PendingIs DEF Here, RequestOK, About, Loads
  <2>4. CASE Mounts
    BY <2>4, MountInStep
  <2>5. CASE Answers(f) /\ Ends(f) /\ UNCHANGED << loading, shown, clean >> /\ (Here(f) => f.st \in {"half", "failed"})
    <3>1. CASE Here(f)
      BY <1>a, <2>3, <2>5, <3>1, FailedEnds
    <3>2. CASE ~Here(f)
      BY <1>a, <2>3, <2>5, <3>2, OtherEnds
    <3>3. QED BY <3>1, <3>2
  <2>6. QED BY <2>1, <2>4, <2>5
<1>4. CASE ListedAgentAnswer(f)
  <2>1. /\ Answers(f) /\ Ends(f) /\ UNCHANGED << loading, clean >> /\ f.kind = "deleteAgent" /\ ~Navigates(f) /\ Here(f)
        /\ f.st \in {"ok", "half", "failed"}
        /\ shown' = IF f.st = "ok" THEN { row \in shown : row[1] # f.x } ELSE shown
    BY <1>4, ListedAgentAnswerForm
  <2>2. f \in Pending /\ f.st # "half" /\ f.kind \notin Loads
    BY <1>0, <2>1, PendingIs DEF Here, RequestOK, About, Loads
  <2>3. CASE f.st = "failed"
    BY <1>a, <2>1, <2>2, <2>3, FailedEnds
  <2>4. CASE f.st = "ok" /\ clean'
    <3>1. Pending = {f} /\ InTime(f)
      BY <2>1, <2>2, <2>4 DEF InStep
    <3>2. Pending' = {}
      BY <1>a, <2>1, <3>1, AnswerPending
    <3>3. View(page)' = View(page)
      BY <1>a, <2>1, ViewStays
    <3>4. ~loading => Near({ row \in shown : row[1] # f.x })
      BY <2>1, <2>4, <3>1 DEF InTime
    <3>5. QED BY <1>a, <2>1, <2>4, <3>2, <3>3, <3>4, NoneInTime DEF Near
  <2>5. QED BY <2>1, <2>2, <2>3, <2>4 DEF InStep
<1>5. CASE OffersAnswer(f)
  <2>1. Answers(f) /\ Ends(f) /\ UNCHANGED << loading, shown, clean >> /\ f.kind = "offers"
    BY <1>5, OffersForm
  <2>2. f \notin Pending
    BY <2>1, PendingIs
  <2>3. QED BY <1>a, <2>1, <2>2, OtherEnds
<1>6. CASE ListAnswer(f)
  <2>1. /\ Answers(f) /\ UNCHANGED shown /\ Here(f) /\ ~Navigates(f)
        /\ f.kind \in {"addConnector", "addNetwork", "deleteNetwork", "deleteConnector"}
        /\ \/ f.st = "ok" /\ clean' = (clean /\ Waiting = {f}) /\ \E g : Follows(f, g) /\ g.kind = "load"
           \/ f.st = "failed" /\ Ends(f) /\ UNCHANGED << loading, clean >>
    BY <1>6, ListForm
  <2>2. f \in Pending /\ f.kind \notin Loads
    BY <2>1, PendingIs DEF Here, Loads
  <2>3. CASE clean' = (clean /\ Waiting = {f}) /\ \E g : Follows(f, g) /\ g.kind = "load"
    BY <1>a, <2>1, <2>2, <2>3, LoadFollows DEF Loads
  <2>4. CASE f.st = "failed" /\ Ends(f) /\ UNCHANGED << loading, clean >>
    BY <1>a, <2>1, <2>2, <2>4, FailedEnds
  <2>5. QED BY <2>1, <2>3, <2>4
<1>7. CASE LoadAnswer(f)
  <2>1. /\ Answers(f) /\ f.kind \in Loads /\ clean' = (clean /\ f.st = "ok")
        /\ f.st = "ok" => shown' = f.got
        /\ Ends(f) \/ \E g : Follows(f, g) /\ g.kind = "token"
    BY <1>7, LoadForm
  <2>2. f \in Pending
    BY <1>0, <2>1, PendingIs DEF RequestOK, OfPage, Here, Reads, Loads
  <2>3. SUFFICES ASSUME clean' PROVE InStep'
    BY DEF InStep
  <2>4. Pending = {f} /\ InTime(f) /\ f.st = "ok"
    BY <2>1, <2>2, <2>3 DEF InStep
  <2>5. Pending' = {}
    BY <1>a, <2>1, <2>4, AnswerPending
  <2>6. View(page)' = View(page)
    BY <1>a, <2>1, ViewStays
  <2>7. shown' = View(page)
    BY <2>1, <2>4 DEF InTime
  <2>8. QED BY <2>5, <2>6, <2>7, NoneInTime DEF Near
<1>8. QED BY <1>1, <1>2, <1>3, <1>4, <1>5, <1>6, <1>7 DEF Answer

LEMMA ServeInStep == ASSUME Shapes, InStep, NEW f, Serve(f) PROVE InStep'
<1>1. CASE ServeRead(f)
  BY <1>1, ReadForm, ReadInStep
<1>2. CASE SwallowChange(f) \/ SwallowConnectors(f)
  BY <1>2, SwallowForm, SwallowInStep
<1>3. CASE ~ServeRead(f) /\ ~SwallowChange(f) /\ ~SwallowConnectors(f)
  <2>1. ASSUME UNCHANGED hist PROVE Past' /\ hist'.swallowed = hist.swallowed
    BY <2>1 DEF Shapes, Past
  <2>2. ServeAddConnector(f) => Past' /\ hist'.swallowed = hist.swallowed
    BY DEF ServeAddConnector, Shapes, Past
  <2>3. \E g : ChangeMoves(f, g)
    <3>1. CASE ServeAddConnector(f)
      BY <2>2, <3>1, ChangeForm DEF ServeAddConnector, ConnCalls
    <3>2. CASE ServeDeleteConnector(f)
      BY <2>1, <3>2, ChangeForm DEF ServeDeleteConnector, ConnCalls
    <3>3. CASE ServeRevokeConnector(f)
      BY <2>1, <3>3, ChangeForm DEF ServeRevokeConnector, ConnCalls
    <3>4. CASE ServeGrantConnector(f)
      BY <2>1, <3>4, ChangeForm DEF ServeGrantConnector, ConnCalls
    <3>5. CASE ServeDeleteAgent(f)
      BY <2>1, <3>5, ChangeForm DEF ServeDeleteAgent, AgentCalls
    <3>6. CASE ServeAgentAccess(f, "revokeAgent", TRUE) \/ ServeAgentAccess(f, "grantAgent", FALSE)
      BY <2>1, <3>6, ChangeForm DEF ServeAgentAccess, AgentCalls
    <3>7. CASE ServeAddNetwork(f)
      BY <2>1, <3>7, ChangeForm DEF ServeAddNetwork, NetCalls
    <3>8. QED BY <1>3, <3>1, <3>2, <3>3, <3>4, <3>5, <3>6, <3>7, HalfForm, RestForm DEF Serve
  <2>4. QED BY <1>3, <2>3, ChangeInStep
<1>4. QED BY <1>1, <1>2, <1>3

-----------------------------------------------------------------------------
(* The invariant.                                                          *)

LEMMA FleetInitInv == FleetInit => FleetInv
<1> SUFFICES ASSUME FleetInit PROVE FleetInv
  OBVIOUS
<1>1. PICK f : f = [kind |-> "load", m |-> 0, x |-> None, y |-> None, st |-> "sent", got |-> {}, n |-> 0]
  OBVIOUS
<1>2. /\ f.kind = "load" /\ f.m = 0 /\ f.y = None /\ f.st = "sent" /\ f.got = {} /\ Fields(f)
      /\ flights = {f} /\ mount = 0
  BY <1>1 DEF FleetInit, Fields
<1>3. RequestOK(f)
  BY <1>2 DEF RequestOK, About, OfPage, Here, Navigates, Reads, Loads, ConnCalls, AgentCalls, NetCalls
<1>4. PICK home \in Networks \ NewNetworks :
         conns = [c \in Connectors |-> IF c \in NewConnectors THEN Row("unborn") ELSE
                    [Row(IF c \in procs THEN "online" ELSE "offline")
                        EXCEPT !.of = home, !.installed = (c \in procs), !.fresh = (c \in procs)]]
  BY DEF FleetInit
<1>5. conns \in [Connectors -> TableRows(Networks)]
  <2>1. \A b \in BOOLEAN : /\ [Row("online") EXCEPT !.of = home, !.installed = b, !.fresh = b] \in TableRows(Networks)
                           /\ [Row("offline") EXCEPT !.of = home, !.installed = b, !.fresh = b] \in TableRows(Networks)
    BY NewRowTyped DEF Rows
  <2>2. Row("unborn") \in TableRows(Networks)
    BY BareRowTyped DEF Rows
  <2>3. \A c \in Connectors : (c \in procs) \in BOOLEAN
    OBVIOUS
  <2>4. QED BY <1>4, <2>1, <2>2, <2>3
<1>6. agents \in [AgentIds -> TableRows(Connectors)]
  <2>1. Row("unborn") \in TableRows(Connectors)
    BY BareRowTyped DEF Rows
  <2>2. QED BY <2>1 DEF FleetInit
<1>7. nets \in [Networks -> {"unborn", "live", "deleted"}]
  BY DEF FleetInit
<1>8. page \in Pages /\ procs \subseteq Connectors /\ dialog \in [kind : {None, "add"}, offers : SUBSET Networks]
      /\ busy = {} /\ loading \in BOOLEAN /\ clean \in BOOLEAN /\ token \in BOOLEAN
  BY DEF FleetInit, Pages, Closed
<1>9. FleetTypeOK
  BY <1>5, <1>6, <1>7, <1>8 DEF FleetTypeOK
<1>10. Past /\ hist.raced = {}
  BY DEF FleetInit, Past
<1>11. Shapes
  BY <1>2, <1>3, <1>9, <1>10 DEF Shapes
<1>12. Orphans
  <2>1. \A c \in Connectors : c \notin NewConnectors => conns[c].of = home
    BY <1>4 DEF Row
  <2>2. \A c \in NewConnectors : ~There(conns[c])
    BY FleetPagesAssumption, <1>4 DEF There, Row
  <2>3. home \in LiveNets
    BY DEF LiveNets, FleetInit
  <2>4. NoOrphanConnectors
    BY <2>1, <2>2, <2>3 DEF NoOrphanConnectors, LiveConns
  <2>5. QED BY <1>2, <2>4 DEF Orphans, HalfDone
<1>13. InStep
  <2>1. Pending = {f} /\ loading = TRUE
    BY <1>2, PendingIs DEF FleetInit
  <2>2. InTime(f)
    BY <1>2, <2>1 DEF InTime, Loads
  <2>3. QED BY <2>1, <2>2 DEF InStep
<1>14. QED BY <1>11, <1>12, <1>13 DEF FleetInv

LEMMA FleetInductive == FleetInv /\ [FleetNext]_fleetVars => FleetInv'
<1> SUFFICES ASSUME FleetInv, [FleetNext]_fleetVars PROVE FleetInv'
  OBVIOUS
<1>1. Shapes /\ Orphans /\ InStep
  BY DEF FleetInv
<1>2. Shapes' /\ Orphans'
  BY <1>1, TableInductive DEF TableStep
<1>3. InStep'
  <2>1. CASE User \/ Poll
    BY <1>1, <2>1, UserForms, MountInStep, ClickInStep, AskInStep
  <2>2. CASE Field
    BY <1>1, <2>2, FieldStep DEF InStep
  <2>3. ASSUME NEW f \in flights, Serve(f) \/ Answer(f) \/ ServeFails(f) \/ LoseAnswer(f) PROVE InStep'
    BY <1>1, <2>3, ServeInStep, AnswerInStep, FailForm, FailInStep
  <2>4. CASE UNCHANGED fleetVars
    <3>1. UNCHANGED << nets, conns, agents, page, mount, shown, loading, clean, flights, hist >>
      BY <2>4 DEF fleetVars, server, tab
    <3>2. Pending' = Pending
      BY <3>1, PendingIs
    <3>3. QED BY <1>1, <3>1, <3>2, NothingMoves
  <2>5. QED BY <2>1, <2>2, <2>3, <2>4 DEF FleetNext
<1>4. QED BY <1>2, <1>3 DEF FleetInv

LEMMA FleetSafe == FleetSpec => []FleetInv
  BY FleetInitInv, FleetInductive, PTL DEF FleetSpec

\* The tables of networks, connectors and agents and the page keep their
\* shape, and every connector's network exists, but for connectors added to a
\* network that was gone or going (ui_connectors.go 54 checks nothing) and
\* those of a network whose connectors could not be deleted, an error that is
\* ignored (ui_remote_networks.go 184-196).
THEOREM FleetTablesOKTheorem == FleetSpec => []TablesOK
<1>1. FleetInv => TablesOK
  BY DEF FleetInv, Shapes, Orphans, TablesOK
<1>2. QED BY <1>1, FleetSafe, PTL

\* With nothing outstanding, nobody else at work, no answer lost and no two
\* requests crossing, the page shows what the server would answer now, whatever
\* errors the handlers ignore; only the list of agents, which takes a deleted
\* row out instead of reading again, may lack an agent that could not be
\* deleted (AgentsPage.tsx 56, ui_agents.go 81).
THEOREM FleetPageInStepTheorem == FleetSpec => []PageInStep
<1>1. FleetInv => PageInStep
  BY DEF FleetInv, InStep, PageInStep, Pending, Near
<1>2. QED BY <1>1, FleetSafe, PTL

=============================================================================
