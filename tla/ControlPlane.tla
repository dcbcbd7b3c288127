------------------------------ MODULE ControlPlane ------------------------------
(***************************************************************************)
(* How the controller pushes policy snapshots to connectors                *)
(* (services/controller/api/control_plane.go, policy_snapshot.go) and how  *)
(* a connector takes them (services/connector/src/main.rs,                 *)
(* policy/cache.rs).                                                       *)
(*                                                                         *)
(* Three kinds of process interleave: one goroutine per control-plane      *)
(* stream (Connect), one goroutine per admin request that edits the policy *)
(* tables and then broadcasts (a "notifier"), and the connector, which     *)
(* drops its stream and dials again at any time.  sendPolicySnapshot is    *)
(* run by the first two kinds; it reads the policy tables, reads and then  *)
(* writes the version row, and sends, with no transaction or lock around   *)
(* the four steps.                                                         *)
(*                                                                         *)
(* A policy (the compiled resources of the connectors' network) is a       *)
(* member of Contents.  "rev" in a snapshot, edits, newest and skipped are  *)
(* history: the policies committed so far, the newest one a stream was     *)
(* sent, and the newest one whose snapshot was given up for it.            *)
(***************************************************************************)
EXTENDS Naturals, Sequences

CONSTANTS
  Connectors,   \* enrolled connectors, all in the network being edited
  Notifiers,    \* admin requests that may be in flight at the same time
  Contents,     \* compiled policies told apart by policyHash
  NoContent,    \* "no hash" / "no snapshot"
  NoStream,     \* nil client, or no stream at the connector's end
  MaxStreams,   \* bound: streams a connector dials
  MaxEdits,     \* bound: policies committed, the first one included
  MaxRestarts   \* bound: controller restarts

\* A stream is named by its connector and the number of the dial.
Streams == Connectors \X (1..MaxStreams)

Owner(s) == s[1]

Senders == Streams \cup Notifiers

ASSUME ConstantsAssumption ==
  /\ MaxStreams \in Nat /\ MaxEdits \in Nat \ {0} /\ MaxRestarts \in Nat
  /\ NoStream \notin Streams
  /\ NoContent \notin Contents
  /\ Contents # {}
  /\ Notifiers \cap Streams = {}

VARIABLES
  content,   \* the policy tables: what policyResources would return now
  edits,     \* how many policies have been committed (history)
  verRow,    \* connector_policy_versions: per connector, version and hash
  status,    \* connectors.status
  clients,   \* ControlPlaneServer.clients, keyed by the SPIFFE id
  pc,        \* where each sender is
  todo,      \* a notifier's copy of the client list, still to be served
  draft,     \* the snapshot a sender is compiling
  open,      \* the connector's end: the stream it reads, if any
  dials,     \* streams a connector has dialled so far
  key,       \* PolicyCache.signing_key: the TLS session it was derived from
  wire,      \* snapshots on a stream, in order
  cache,     \* PolicyCache: the snapshot in force, if any
  newest,    \* the highest rev ever sent on a stream (history)
  skipped,   \* the highest rev given up for a stream (history)
  restarts   \* controller restarts so far

serverVars == <<verRow, status, clients, pc, todo, draft>>
connVars == <<open, dials, key, cache>>
vars == <<content, edits, serverVars, connVars, wire, newest, skipped, restarts>>

PC == {"off", "accepted", "notify", "read", "select", "upsert", "send",
       "online", "recv", "closing", "done"}

Revs == 0..MaxEdits

\* version is what policyVersion returns; key the signing key of the client.
Snapshots == [rev : Revs, res : Contents, version : Nat, key : Streams]

NoDraft == [to |-> NoStream, rev |-> 0, res |-> NoContent, version |-> 0]

NoSnapshot == [rev |-> 0, res |-> NoContent, version |-> 0, key |-> NoStream]

Drafts == [to : Streams \cup {NoStream}, rev : Revs,
           res : Contents \cup {NoContent}, version : Nat]

TypeOK ==
  /\ content \in Contents
  /\ edits \in Revs
  /\ verRow \in [Connectors -> [version : Nat, hash : Contents \cup {NoContent}]]
  /\ status \in [Connectors -> {"online", "offline"}]
  /\ clients \in [Connectors -> Streams \cup {NoStream}]
  /\ pc \in [Senders -> PC]
  /\ todo \in [Notifiers -> SUBSET Streams]
  /\ draft \in [Senders -> Drafts]
  /\ open \in [Connectors -> Streams \cup {NoStream}]
  /\ dials \in [Connectors -> 0..MaxStreams]
  /\ key \in [Connectors -> Streams \cup {NoStream}]
  /\ wire \in [Streams -> Seq(Snapshots)]
  /\ cache \in [Connectors -> Snapshots \cup {NoSnapshot}]
  /\ newest \in [Streams -> Revs]
  /\ skipped \in [Streams -> Revs]
  /\ restarts \in 0..MaxRestarts

Init ==
  /\ content \in Contents
  /\ edits = 1
  /\ verRow = [c \in Connectors |-> [version |-> 0, hash |-> NoContent]]
  /\ status = [c \in Connectors |-> "offline"]
  /\ clients = [c \in Connectors |-> NoStream]
  /\ pc = [p \in Senders |-> "off"]
  /\ todo = [n \in Notifiers |-> {}]
  /\ draft = [p \in Senders |-> NoDraft]
  /\ open = [c \in Connectors |-> NoStream]
  /\ dials = [c \in Connectors |-> 0]
  /\ key = [c \in Connectors |-> NoStream]
  /\ wire = [s \in Streams |-> <<>>]
  /\ cache = [c \in Connectors |-> NoSnapshot]
  /\ newest = [s \in Streams |-> 0]
  /\ skipped = [s \in Streams |-> 0]
  /\ restarts = 0

\* The stream still has a peer: the connector has not dropped it.
Live(s) == open[Owner(s)] = s

-----------------------------------------------------------------------------
(* The connector's end of a stream.                                        *)

\* Mutant: the key is derived on the first connection only.
DialKeepsKey(c) ==
  /\ open[c] = NoStream
  /\ dials[c] < MaxStreams
  /\ LET s == <<c, dials[c] + 1>> IN
       /\ open' = [open EXCEPT ![c] = s]
       /\ key' = [key EXCEPT ![c] = IF @ = NoStream THEN s ELSE @]
       /\ pc' = [pc EXCEPT ![s] = "accepted"]
  /\ dials' = [dials EXCEPT ![c] = @ + 1]
  /\ UNCHANGED <<content, edits, verRow, status, clients, todo, draft, wire,
                 cache, newest, skipped, restarts>>

\* control_plane_loop calls connect_control_plane: the TLS handshake hands the
\* exported key to set_signing_key, then the stream is opened and the
\* controller starts a Connect goroutine for it.
Dial(c) ==
  /\ open[c] = NoStream
  /\ dials[c] < MaxStreams
  /\ LET s == <<c, dials[c] + 1>> IN
       /\ open' = [open EXCEPT ![c] = s]
       /\ key' = [key EXCEPT ![c] = s]
       /\ pc' = [pc EXCEPT ![s] = "accepted"]
  /\ dials' = [dials EXCEPT ![c] = @ + 1]
  /\ UNCHANGED <<content, edits, verRow, status, clients, todo, draft, wire,
                 cache, newest, skipped, restarts>>

\* stream.message() fails or the stream ends: connect_control_plane returns
\* and what is still on the wire is lost.  The controller's goroutine learns
\* of it later.  The cache and the key outlive the stream.
Drop(c) ==
  /\ open[c] # NoStream
  /\ open' = [open EXCEPT ![c] = NoStream]
  /\ wire' = [wire EXCEPT ![open[c]] = <<>>]
  /\ UNCHANGED <<content, edits, serverVars, dials, key, cache, newest, skipped, restarts>>

\* verify_snapshot: the HMAC under the key the connector holds.
Verifies(c, m) == key[c] # NoStream /\ m.key = key[c]

\* handle_control_message on "policy_snapshot": replace_snapshot takes a
\* snapshot whatever its version, or clears the cache if it does not verify.
Receive(c) ==
  /\ open[c] # NoStream
  /\ wire[open[c]] # <<>>
  /\ LET m == Head(wire[open[c]]) IN
       cache' = [cache EXCEPT ![c] = IF Verifies(c, m) THEN m ELSE NoSnapshot]
  /\ wire' = [wire EXCEPT ![open[c]] = Tail(@)]
  /\ UNCHANGED <<content, edits, serverVars, open, dials, key, newest, skipped, restarts>>

-----------------------------------------------------------------------------
(* sendPolicySnapshot and CompilePolicySnapshot, one database access or send *)
(* per step.  p runs it, for the stream draft[p].to.                         *)

\* Where p goes once sendPolicySnapshot has returned.
AfterSnapshot(p, left) ==
  IF p \in Streams THEN "online" ELSE IF left = {} THEN "off" ELSE "read"

\* sendPolicySnapshot returns before it compiles anything: no signing key was
\* derived for the client, its network cannot be looked up or policyResources
\* fails.  It logs a line, and nobody tries again.
GiveUp(p, s, left) ==
  /\ skipped' = [skipped EXCEPT ![s] = edits]
  /\ pc' = [pc EXCEPT ![p] = AfterSnapshot(p, left)]

\* policyResources.
ReadResources(p, s) ==
  /\ draft' = [draft EXCEPT ![p] =
                 [to |-> s, rev |-> edits, res |-> content, version |-> 0]]
  /\ pc' = [pc EXCEPT ![p] = "select"]

\* policyVersion: the version the snapshot gets, from the row as it is now.
NextVersion(row, res) ==
  IF row.version = 0 \/ row.hash # res THEN row.version + 1 ELSE row.version

WithVersion(d, v) == [to |-> d.to, rev |-> d.rev, res |-> d.res, version |-> v]

SelectVersion(p) ==
  /\ pc[p] = "select"
  /\ draft' = [draft EXCEPT ![p] =
                 WithVersion(@, NextVersion(verRow[Owner(@.to)], @.res))]
  /\ pc' = [pc EXCEPT ![p] = "upsert"]
  /\ UNCHANGED <<content, edits, verRow, status, clients, todo, connVars, wire,
                 newest, skipped, restarts>>

\* policyVersion: the row is overwritten, whatever it holds by now.
UpsertVersion(p) ==
  /\ pc[p] = "upsert"
  /\ verRow' = [verRow EXCEPT ![Owner(draft[p].to)] =
                  [version |-> draft[p].version, hash |-> draft[p].res]]
  /\ pc' = [pc EXCEPT ![p] = "send"]
  /\ UNCHANGED <<content, edits, status, clients, todo, draft, connVars, wire,
                 newest, skipped, restarts>>

\* client.send under sendMu, signed with the key of the client it was compiled
\* for.  On a stream whose peer is gone Send fails and the error is dropped.
\* A handler goes on to mark the connector online, a notifier to its next client.
Send(p) ==
  /\ pc[p] = "send"
  /\ LET d == draft[p]
         s == d.to
         m == [rev |-> d.rev, res |-> d.res, version |-> d.version, key |-> s]
     IN IF Live(s)
        THEN /\ wire' = [wire EXCEPT ![s] = Append(@, m)]
             /\ newest' = [newest EXCEPT ![s] = IF d.rev > @ THEN d.rev ELSE @]
        ELSE UNCHANGED <<wire, newest>>
  /\ pc' = [pc EXCEPT ![p] = AfterSnapshot(p, IF p \in Streams THEN {} ELSE todo[p])]
  /\ draft' = [draft EXCEPT ![p] = NoDraft]
  /\ UNCHANGED <<content, edits, verRow, status, clients, todo, connVars, skipped, restarts>>

-----------------------------------------------------------------------------
(* The Connect goroutine of stream s.                                      *)

\* Mutant: no snapshot is sent when a connector connects.
RegisterOnly(s) ==
  /\ pc[s] = "accepted"
  /\ clients' = [clients EXCEPT ![Owner(s)] = s]
  /\ pc' = [pc EXCEPT ![s] = "online"]
  /\ UNCHANGED <<content, edits, verRow, status, todo, draft, connVars, wire,
                 newest, skipped, restarts>>

\* addClient: the newest stream of a connector takes the map entry.
Register(s) ==
  /\ pc[s] = "accepted"
  /\ clients' = [clients EXCEPT ![Owner(s)] = s]
  /\ pc' = [pc EXCEPT ![s] = "read"]
  /\ UNCHANGED <<content, edits, verRow, status, todo, draft, connVars, wire,
                 newest, skipped, restarts>>

\* The initial snapshot is compiled after the client is registered.
InitialRead(s) ==
  /\ pc[s] = "read"
  /\ ReadResources(s, s)
  /\ UNCHANGED <<content, edits, verRow, status, clients, todo, connVars, wire,
                 newest, skipped, restarts>>

InitialSkip(s) ==
  /\ pc[s] = "read"
  /\ GiveUp(s, s, {})
  /\ UNCHANGED <<content, edits, verRow, status, clients, todo, draft, connVars,
                 wire, newest, restarts>>

MarkOnline(s) ==
  /\ pc[s] = "online"
  /\ status' = [status EXCEPT ![Owner(s)] = "online"]
  /\ pc' = [pc EXCEPT ![s] = "recv"]
  /\ UNCHANGED <<content, edits, verRow, clients, todo, draft, connVars, wire,
                 newest, skipped, restarts>>

\* Mutant: a heartbeat refreshes last_seen but not the status.
HeartbeatNoStatus(s) ==
  /\ pc[s] = "recv" /\ Live(s)
  /\ UNCHANGED vars

\* A heartbeat is received: SaveConnectorToDB sets the row online.
Heartbeat(s) ==
  /\ pc[s] = "recv" /\ Live(s)
  /\ status' = [status EXCEPT ![Owner(s)] = "online"]
  /\ UNCHANGED <<content, edits, verRow, clients, pc, todo, draft, connVars,
                 wire, newest, skipped, restarts>>

\* stream.Recv fails and Connect returns.  Its defers run last in, first out:
\* the row is set offline, and only then is the client removed.
RecvFails(s) ==
  /\ pc[s] = "recv" /\ ~Live(s)
  /\ status' = [status EXCEPT ![Owner(s)] = "offline"]
  /\ pc' = [pc EXCEPT ![s] = "closing"]
  /\ UNCHANGED <<content, edits, verRow, clients, todo, draft, connVars, wire,
                 newest, skipped, restarts>>

\* Mutant: the client is not removed when Connect returns.
LeaveClient(s) ==
  /\ pc[s] = "closing"
  /\ pc' = [pc EXCEPT ![s] = "done"]
  /\ UNCHANGED <<content, edits, verRow, status, clients, todo, draft, connVars,
                 wire, newest, skipped, restarts>>

\* removeClient deletes the entry of the SPIFFE id, whoever holds it by now.
RemoveClient(s) ==
  /\ pc[s] = "closing"
  /\ clients' = [clients EXCEPT ![Owner(s)] = NoStream]
  /\ pc' = [pc EXCEPT ![s] = "done"]
  /\ UNCHANGED <<content, edits, verRow, status, todo, draft, connVars, wire,
                 newest, skipped, restarts>>

-----------------------------------------------------------------------------
(* An admin request that edits the policy tables and then broadcasts.       *)

\* The handler's write, committed before it calls NotifyPolicyChange.
Edit(n) ==
  /\ pc[n] = "off"
  /\ edits < MaxEdits
  /\ content' \in Contents
  /\ edits' = edits + 1
  /\ pc' = [pc EXCEPT ![n] = "notify"]
  /\ UNCHANGED <<verRow, status, clients, todo, draft, connVars, wire, newest,
                 skipped, restarts>>

\* The clients in the map.
Registered == {clients[c] : c \in Connectors} \ {NoStream}

\* Mutant: the broadcast returns without serving the list it copied.
CopyOnly(n) ==
  /\ pc[n] = "notify"
  /\ pc' = [pc EXCEPT ![n] = "off"]
  /\ UNCHANGED <<content, edits, verRow, status, clients, todo, draft, connVars,
                 wire, newest, skipped, restarts>>

\* broadcastPolicySnapshots copies the client list under the lock.
CopyClients(n) ==
  /\ pc[n] = "notify"
  /\ todo' = [todo EXCEPT ![n] = Registered]
  /\ pc' = [pc EXCEPT ![n] = IF Registered = {} THEN "off" ELSE "read"]
  /\ UNCHANGED <<content, edits, verRow, status, clients, draft, connVars, wire,
                 newest, skipped, restarts>>

\* It then serves the clients one at a time, in the order of a Go map.
BroadcastRead(n) ==
  /\ pc[n] = "read"
  /\ \E s \in todo[n] :
       /\ ReadResources(n, s)
       /\ todo' = [todo EXCEPT ![n] = @ \ {s}]
  /\ UNCHANGED <<content, edits, verRow, status, clients, connVars, wire, newest,
                 skipped, restarts>>

\* The broadcast goes on with the next client.
BroadcastSkip(n) ==
  /\ pc[n] = "read"
  /\ \E s \in todo[n] :
       /\ GiveUp(n, s, todo[n] \ {s})
       /\ todo' = [todo EXCEPT ![n] = @ \ {s}]
  /\ UNCHANGED <<content, edits, verRow, status, clients, draft, connVars, wire,
                 newest, restarts>>

-----------------------------------------------------------------------------
(* The controller process as a whole.                                      *)

\* The ticker marks a row offline once its last heartbeat is older than the
\* cutoff.  Heartbeats come more often than that while a stream is received
\* from, so it can only fire for a connector none of whose streams is.
StaleTick(c) ==
  /\ status[c] = "online"
  /\ ~\E s \in Streams : Owner(s) = c /\ pc[s] = "recv" /\ Live(s)
  /\ status' = [status EXCEPT ![c] = "offline"]
  /\ UNCHANGED <<content, edits, verRow, clients, pc, todo, draft, connVars,
                 wire, newest, skipped, restarts>>

\* The process dies and comes back: the clients map and every goroutine are
\* gone, the tables are not, and every connector loses its stream.
Restart ==
  /\ restarts < MaxRestarts
  /\ restarts' = restarts + 1
  /\ clients' = [c \in Connectors |-> NoStream]
  /\ pc' = [p \in Senders |-> IF p \in Streams /\ pc[p] # "off" THEN "done"
                              ELSE "off"]
  /\ todo' = [n \in Notifiers |-> {}]
  /\ draft' = [p \in Senders |-> NoDraft]
  /\ open' = [c \in Connectors |-> NoStream]
  /\ wire' = [s \in Streams |-> <<>>]
  /\ UNCHANGED <<content, edits, verRow, status, dials, key, cache, newest, skipped>>

Sending(p) == SelectVersion(p) \/ UpsertVersion(p) \/ Send(p)

Handler(s) ==
  \/ Register(s) \/ InitialRead(s) \/ InitialSkip(s) \/ Sending(s) \/ MarkOnline(s)
  \/ RecvFails(s) \/ RemoveClient(s)

Broadcast(n) == CopyClients(n) \/ BroadcastRead(n) \/ BroadcastSkip(n) \/ Sending(n)

Next ==
  \/ \E c \in Connectors : Dial(c) \/ Drop(c) \/ Receive(c) \/ StaleTick(c)
  \/ \E s \in Streams : Handler(s) \/ Heartbeat(s)
  \/ \E n \in Notifiers : Edit(n) \/ Broadcast(n)
  \/ Restart

Spec == Init /\ [][Next]_vars

\* What the code keeps doing: goroutines run on, a connector with no stream
\* redials, messages on a live stream are read, heartbeats and the ticker come
\* round.  Nothing forces an edit, a drop or a restart.
Fairness ==
  /\ \A c \in Connectors : WF_vars(Dial(c)) /\ WF_vars(Receive(c)) /\ WF_vars(StaleTick(c))
  /\ \A s \in Streams : WF_vars(Handler(s)) /\ WF_vars(Heartbeat(s))
  /\ \A n \in Notifiers : WF_vars(Broadcast(n))

FairSpec == Spec /\ Fairness

-----------------------------------------------------------------------------
(* Properties.                                                             *)

\* The policy push of every edit has returned.
Quiet == \A n \in Notifiers : pc[n] = "off"

\* The policy in force was sent on s, or giving it up was logged.
Settled(s) == newest[s] = edits \/ skipped[s] = edits

\* Edits cannot fall between a stream's first snapshot and its registration:
\* once every broadcast has returned and the stream's own first snapshot is out,
\* a registered stream has been sent a snapshot compiled after the last edit, or
\* the controller logged that it gave that very snapshot up.  (Connect calls
\* addClient before sendPolicySnapshot; a broadcast copies the client list after
\* the edit is committed.)
NoMissedEdit ==
  \A s \in Streams :
    (/\ clients[Owner(s)] = s /\ Live(s)
     /\ Quiet /\ pc[s] \in {"online", "recv"})
      => Settled(s)

\* A client in the map always belongs to a Connect goroutine that has not yet
\* returned, so that broadcasts never pile up on a stream nobody serves.
NoGhostClient ==
  \A s \in Streams :
    clients[Owner(s)] = s => pc[s] \notin {"off", "accepted", "done"}

\* Every snapshot on a live stream is signed with the key the connector derived
\* from that stream's TLS session, across redials and broadcasts that started
\* before them: replace_snapshot never clears the cache of a connected connector.
NeverRejected ==
  \A c \in Connectors :
    open[c] # NoStream =>
      \A i \in 1..Len(wire[open[c]]) : Verifies(c, wire[open[c]][i])

\* Every edit reaches a connector whose stream stays up and registered: in the
\* end everything sent was received, the policy of the last edit included unless
\* the push of that one was given up.
EditsDelivered ==
  \A s \in Streams :
    <>[](clients[Owner(s)] = s /\ Live(s))
      => <>[](Settled(s) /\ wire[s] = <<>>)

\* connectors.status ends up telling the truth, although the goroutine of an old
\* stream may set it offline after the new one set it online: heartbeats repair
\* one direction, the stale ticker the other.
StatusSettles ==
  \A c \in Connectors :
    <>[](status[c] = IF open[c] = NoStream THEN "offline" ELSE "online")

-----------------------------------------------------------------------------
(* The inductive invariant behind the safety properties.                   *)

Compiling == {"select", "upsert", "send"}

\* A compile in progress is for a stream, a handler's for its own.
DraftOK ==
  \A p \in Senders : pc[p] \in Compiling =>
    /\ draft[p].to \in Streams
    /\ draft[p].res \in Contents
    /\ p \in Streams => draft[p].to = p

\* A connector reads a stream of its own, under that stream's key.
StreamOK ==
  \A c \in Connectors : open[c] # NoStream => Owner(open[c]) = c /\ key[c] = open[c]

\* A stream that has not been dialled has no goroutine.
FreshOK ==
  \A c \in Connectors : \A k \in 1..MaxStreams : k > dials[c] => pc[<<c, k>>] = "off"

\* Snapshots are signed for the stream they travel on.
WireOK == \A s \in Streams : \A i \in 1..Len(wire[s]) : wire[s][i].key = s

\* Nothing is compiled from, or sent as, an edit still to come.
RevOK ==
  /\ \A s \in Streams : newest[s] <= edits /\ skipped[s] <= edits
  /\ \A p \in Senders : draft[p].rev <= edits

\* A notifier that has returned owes nobody a snapshot.
TodoOK == \A n \in Notifiers : pc[n] = "off" => todo[n] = {}

\* p is compiling the current policy for s.
Carries(p, s) == pc[p] \in Compiling /\ draft[p].to = s /\ draft[p].rev = edits

\* Somebody is still bound to send s the current policy.
Owed(s) ==
  \/ pc[s] = "read" \/ Carries(s, s)
  \/ \E n \in Notifiers : pc[n] = "notify" \/ s \in todo[n] \/ Carries(n, s)

\* A registered live stream has the current policy, is owed it or was refused it.
OwedOK ==
  \A s \in Streams :
    (clients[Owner(s)] = s /\ Live(s)) => (Settled(s) \/ Owed(s))

IInv ==
  /\ TypeOK /\ DraftOK /\ StreamOK /\ FreshOK /\ WireOK /\ RevOK /\ TodoOK
  /\ NoGhostClient /\ OwedOK
=============================================================================
