------------------------------- MODULE Enrollment -------------------------------
(***************************************************************************)
(* How a connector or an agent becomes and remains a known workload:       *)
(* enrolment tokens (state/token.go), the certificates issued for them     *)
(* (api/enroll.go), the connectors table and the Registry in memory        *)
(* (state/persistence.go, state/registry.go), the connector's stream       *)
(* (api/control_plane.go), and the admin requests that revoke, delete and  *)
(* grant (admin/server.go, ui_connectors.go, ui_remote_networks.go).       *)
(*                                                                         *)
(* A workload is certified by the CA of a workspace, or by the             *)
(* controller's own (Internal, workspace_id ''); the trust domain of a     *)
(* certificate is that of its CA.                                          *)
(***************************************************************************)
EXTENDS Naturals, Sequences

CONSTANTS
  Connectors, Agents,  \* workload ids
  Tokens,              \* enrolment tokens
  Workspaces,          \* workspaces, each with a CA and a trust domain
  Internal,            \* the controller's CA; also the empty workspace_id
  Nobody,              \* no workload
  Absent,              \* no record, no row, no certificate
  Driver,              \* state.DBDriver
  MaxEnrolments,       \* bound: enrolment requests
  MaxDials,            \* bound: control-plane streams
  MaxRequests,         \* bound: admin requests that revoke, delete or grant
  MaxRestarts          \* bound: controller restarts

Workloads == Connectors \cup Agents

CAs == Workspaces \cup {Internal}

ASSUME ConstantsAssumption ==
  /\ Connectors \cap Agents = {} /\ Nobody \notin Workloads
  /\ Internal \notin Workspaces /\ Absent \notin CAs \cup Tokens
  /\ Driver \in {"sqlite", "postgres"}
  /\ MaxEnrolments \in Nat /\ MaxDials \in Nat /\ MaxRequests \in Nat
  /\ MaxRestarts \in Nat

VARIABLES
  token,     \* the tokens table; an expired row is as good as none
  mu,        \* who holds TokenStore.mu
  req,       \* the enrolment request in flight for a workload id
  cert,      \* the CA of the certificate a workload holds
  live,      \* workloads whose certificate has not expired
  aging,     \* those that have reached the renewal time
  reg,       \* Registry: the workspace of a connector's record
  row,       \* the connectors table
  stream,    \* where the Connect goroutine of a connector is
  rec,       \* the record a heartbeat is about to save
  todo,      \* what an admin request still has to do to a connector
  used,      \* the workloads a token has certified (history)
  entitled,  \* the workspaces a connector was created in or has a token of (history)
  count      \* enrolments, dials, requests, restarts so far

store == <<token, mu, req, used>>
certs == <<cert, live, aging>>
serving == <<stream, rec>>
vars == <<store, certs, reg, row, serving, todo, entitled, count>>

NoToken(state) == [state |-> state, ws |-> Internal, id |-> Nobody]

NoRequest == [pc |-> "off", token |-> Absent, ws |-> Internal]

Rows == [revoked : BOOLEAN, online : BOOLEAN, ws : CAs]

\* What the admin requests do to a connector, in their order.
Steps == {"tokens", "reg", "revoke", "drop"}

TypeOK ==
  /\ token \in [Tokens -> [state : {"new", "fresh", "bound", "gone"}, ws : CAs,
                           id : Workloads \cup {Nobody}]]
  /\ mu \in Workloads \cup {Nobody}
  /\ req \in [Workloads -> [pc : {"off", "update", "issue"},
                           token : Tokens \cup {Absent}, ws : CAs]]
  /\ cert \in [Workloads -> CAs \cup {Absent}]
  /\ live \subseteq Workloads /\ aging \subseteq live
  /\ reg \in [Connectors -> CAs \cup {Absent}]
  /\ row \in [Connectors -> Rows \cup {Absent}]
  /\ stream \in [Connectors -> {"off", "accepted", "recv", "save"}]
  /\ rec \in [Connectors -> CAs]
  /\ todo \in [Connectors -> Seq(Steps)]
  /\ used \in [Tokens -> SUBSET Workloads]
  /\ entitled \in [Connectors -> SUBSET CAs]
  /\ count \in [enrolments : 0..MaxEnrolments, dials : 0..MaxDials,
                requests : 0..MaxRequests, restarts : 0..MaxRestarts]

Init ==
  /\ token = [t \in Tokens |-> NoToken("new")] /\ mu = Nobody
  /\ req = [w \in Workloads |-> NoRequest]
  /\ cert = [w \in Workloads |-> Absent] /\ live = {} /\ aging = {}
  /\ reg = [c \in Connectors |-> Absent] /\ row = [c \in Connectors |-> Absent]
  /\ stream = [c \in Connectors |-> "off"] /\ rec = [c \in Connectors |-> Internal]
  /\ todo = [c \in Connectors |-> <<>>]
  /\ used = [t \in Tokens |-> {}]
  /\ entitled = [c \in Connectors |-> {}]
  /\ count = [enrolments |-> 0, dials |-> 0, requests |-> 0, restarts |-> 0]

-----------------------------------------------------------------------------
(* Tokens.                                                                 *)

\* CreateTokenForWorkspace; a token is a fresh random string.
CreateToken(t, ws) ==
  /\ token[t].state = "new" /\ mu = Nobody
  /\ token' = [token EXCEPT ![t] = [state |-> "fresh", ws |-> ws, id |-> Nobody]]
  /\ UNCHANGED <<mu, req, used, certs, reg, row, serving, todo, entitled, count>>

ExpireToken(t) ==
  /\ token[t].state \in {"fresh", "bound"}
  /\ token' = [token EXCEPT ![t] = NoToken("gone")]
  /\ UNCHANGED <<mu, req, used, certs, reg, row, serving, todo, entitled, count>>

\* Mutant: the mutex is not taken.
SelectUnlocked(w, t) ==
  /\ req[w].pc = "off"
  /\ count.enrolments < MaxEnrolments
  /\ count' = [count EXCEPT !.enrolments = @ + 1]
  /\ token[t].state = "fresh" \/ (token[t].state = "bound" /\ token[t].id = w)
  /\ req' = [req EXCEPT ![w] =
       [pc |-> IF token[t].state = "fresh" THEN "update" ELSE "issue",
        token |-> t, ws |-> token[t].ws]]
  /\ UNCHANGED <<token, mu, used, certs, reg, row, serving, todo, entitled>>

\* ConsumeTokenWithWorkspace, up to its UPDATE: the token is fresh, or was
\* consumed by the same id and is accepted again.  Any other is refused.
SelectToken(w, t) ==
  /\ req[w].pc = "off" /\ mu = Nobody
  /\ count.enrolments < MaxEnrolments
  /\ count' = [count EXCEPT !.enrolments = @ + 1]
  /\ token[t].state = "fresh" \/ (token[t].state = "bound" /\ token[t].id = w)
  /\ req' = [req EXCEPT ![w] =
       [pc |-> IF token[t].state = "fresh" THEN "update" ELSE "issue",
        token |-> t, ws |-> token[t].ws]]
  /\ mu' = IF token[t].state = "fresh" THEN w ELSE Nobody
  /\ UNCHANGED <<token, used, certs, reg, row, serving, todo, entitled>>

\* Its UPDATE.
UpdateToken(w) ==
  /\ req[w].pc = "update"
  /\ token' = [token EXCEPT ![req[w].token] =
       IF @.state = "gone" THEN @ ELSE [state |-> "bound", ws |-> @.ws, id |-> w]]
  /\ mu' = Nobody
  /\ req' = [req EXCEPT ![w].pc = "issue"]
  /\ UNCHANGED <<used, certs, reg, row, serving, todo, entitled, count>>

-----------------------------------------------------------------------------
(* Certificates.                                                           *)

\* EnrollConnector and EnrollTunneler after the token: the certificate is issued
\* by the CA of the token's workspace, and a connector is registered with that
\* workspace.  The response may not arrive.
Issue(w) ==
  /\ req[w].pc = "issue"
  /\ \/ /\ cert' = [cert EXCEPT ![w] = req[w].ws]
        /\ live' = live \cup {w} /\ aging' = aging \ {w}
     \/ UNCHANGED certs
  /\ IF w \in Connectors
     THEN /\ reg' = [reg EXCEPT ![w] = req[w].ws]
          /\ entitled' = [entitled EXCEPT ![w] = @ \cup {req[w].ws}]
     ELSE UNCHANGED <<reg, entitled>>
  /\ used' = [used EXCEPT ![req[w].token] = @ \cup {w}]
  /\ req' = [req EXCEPT ![w] = NoRequest]
  /\ UNCHANGED <<token, mu, row, serving, todo, count>>

\* The token was consumed over the internal HTTP endpoint, which issues nothing,
\* or the workspace or its CA cannot be loaded.
IssueNothing(w) ==
  /\ req[w].pc = "issue"
  /\ req' = [req EXCEPT ![w] = NoRequest]
  /\ UNCHANGED <<token, mu, used, certs, reg, row, serving, todo, entitled, count>>

\* 70% of the certificate's life is over.
CertAges(w) ==
  /\ w \in live \ aging
  /\ aging' = aging \cup {w}
  /\ UNCHANGED <<store, cert, live, reg, row, serving, todo, entitled, count>>

CertExpires(w) ==
  /\ w \in aging
  /\ live' = live \ {w} /\ aging' = aging \ {w}
  /\ UNCHANGED <<store, cert, reg, row, serving, todo, entitled, count>>

\* The TLS handshake with the controller: each side shows only its leaf; the
\* controller's pool holds its own CA, which also signed its certificate, and
\* the workload trusts the CA it was given at enrolment.
Trusted(w) == w \in live /\ cert[w] = Internal

\* The CA Renew signs with.
RenewalCA(w) == IF w \in Connectors /\ reg[w] \in Workspaces THEN reg[w] ELSE Internal

\* renewal_loop and Renew; the workload takes the certificate only if the CA is
\* still the same.
Renew(w) ==
  /\ w \in aging /\ Trusted(w)
  /\ RenewalCA(w) = cert[w]
  /\ aging' = aging \ {w}
  /\ UNCHANGED <<store, cert, live, reg, row, serving, todo, entitled, count>>

-----------------------------------------------------------------------------
(* The connector's stream.                                                 *)

\* SELECT revoked ... WHERE id = ?, which is not passed through Rebind: on
\* PostgreSQL the statement is an error, and an error counts as not revoked.
SeenRevoked(c) == Driver = "sqlite" /\ row[c] # Absent /\ row[c].revoked

\* Connect, up to its check of the row.
Dial(c) ==
  /\ stream[c] = "off" /\ Trusted(c)
  /\ count.dials < MaxDials
  /\ ~SeenRevoked(c)
  /\ count' = [count EXCEPT !.dials = @ + 1]
  /\ stream' = [stream EXCEPT ![c] = "accepted"]
  /\ UNCHANGED <<store, certs, reg, row, rec, todo, entitled>>

\* An UPDATE of the connector's row does nothing if there is none.
SetOnline(c, on) ==
  row' = [row EXCEPT ![c] =
    IF @ = Absent THEN Absent ELSE [revoked |-> @.revoked, online |-> on, ws |-> @.ws]]

MarkOnline(c) ==
  /\ stream[c] = "accepted"
  /\ SetOnline(c, TRUE)
  /\ stream' = [stream EXCEPT ![c] = "recv"]
  /\ UNCHANGED <<store, certs, reg, rec, todo, entitled, count>>

\* RecordHeartbeat: a connector without a record gets one without a workspace.
Heartbeat(c) ==
  /\ stream[c] = "recv"
  /\ reg' = [reg EXCEPT ![c] = IF @ = Absent THEN Internal ELSE @]
  /\ rec' = [rec EXCEPT ![c] = reg'[c]]
  /\ stream' = [stream EXCEPT ![c] = "save"]
  /\ UNCHANGED <<store, certs, row, todo, entitled, count>>

\* Mutant: the upsert writes every column.
SaveGranted(c) ==
  /\ stream[c] = "save"
  /\ row' = [row EXCEPT ![c] = [revoked |-> FALSE, online |-> TRUE, ws |-> rec[c]]]
  /\ stream' = [stream EXCEPT ![c] = "recv"]
  /\ rec' = [rec EXCEPT ![c] = Internal]
  /\ UNCHANGED <<store, certs, reg, todo, entitled, count>>

\* SaveConnectorToDB: an upsert that leaves revoked alone.
SaveConnector(c) ==
  /\ stream[c] = "save"
  /\ row' = IF SeenRevoked(c) THEN row
            ELSE [row EXCEPT ![c] = [revoked |-> @ # Absent /\ @.revoked,
                                     online |-> TRUE, ws |-> rec[c]]]
  /\ stream' = [stream EXCEPT ![c] = "recv"]
  /\ rec' = [rec EXCEPT ![c] = Internal]
  /\ UNCHANGED <<store, certs, reg, todo, entitled, count>>

\* The stream ends: the deferred UPDATE sets the row offline.
Drop(c) ==
  /\ stream[c] = "recv"
  /\ SetOnline(c, FALSE)
  /\ stream' = [stream EXCEPT ![c] = "off"]
  /\ UNCHANGED <<store, certs, reg, rec, todo, entitled, count>>

\* The stale ticker.
StaleTick(c) ==
  /\ row[c] # Absent /\ row[c].online /\ stream[c] = "off"
  /\ SetOnline(c, FALSE)
  /\ UNCHANGED <<store, certs, reg, serving, todo, entitled, count>>

-----------------------------------------------------------------------------
(* Admin requests.                                                         *)

\* POST /api/connectors: a row under a fresh id, in the caller's workspace.
CreateConnector(c, ws) ==
  /\ row[c] = Absent /\ entitled[c] = {} /\ stream[c] = "off" /\ req[c] = NoRequest
  /\ row' = [row EXCEPT ![c] = [revoked |-> FALSE, online |-> FALSE, ws |-> ws]]
  /\ entitled' = [entitled EXCEPT ![c] = {ws}]
  /\ UNCHANGED <<store, certs, reg, serving, todo, count>>

\* POST .../revoke, DELETE /api/connectors/:id, DELETE /api/admin/connectors/:id
\* and DELETE /api/remote-networks/:id, as the steps they take.
Requests ==
  {<<"reg", "revoke", "tokens">>, <<"tokens", "reg", "revoke">>,
   <<"reg", "drop", "tokens">>, <<"tokens", "reg", "drop">>}

Count == /\ count.requests < MaxRequests
         /\ count' = [count EXCEPT !.requests = @ + 1]

\* The connector is in the console's lists.
Request(c) ==
  /\ todo[c] = <<>>
  /\ row[c] # Absent \/ reg[c] # Absent
  /\ Count
  /\ \E steps \in Requests : todo' = [todo EXCEPT ![c] = steps]
  /\ UNCHANGED <<store, certs, reg, row, serving, entitled>>

\* DeleteByConnectorID, which does not take the mutex.
DeleteTokens(w) ==
  [t \in Tokens |->
     IF token[t].state = "bound" /\ token[t].id = w THEN NoToken("gone") ELSE token[t]]

\* RevokeConnectorInDB.
RevokeRow(c) ==
  [row EXCEPT ![c] = IF @ = Absent THEN Absent
                     ELSE [revoked |-> TRUE, online |-> FALSE, ws |-> @.ws]]

RequestStep(c) ==
  /\ todo[c] # <<>>
  /\ todo' = [todo EXCEPT ![c] = Tail(@)]
  /\ LET step == Head(todo[c]) IN
       /\ token' = IF step = "tokens" THEN DeleteTokens(c) ELSE token
       /\ reg' = IF step = "reg" THEN [reg EXCEPT ![c] = Absent] ELSE reg
       /\ row' = CASE step = "revoke" -> RevokeRow(c)
                   [] step = "drop" -> [row EXCEPT ![c] = Absent]
                   [] OTHER -> row
  /\ UNCHANGED <<mu, req, used, certs, serving, entitled, count>>

\* GrantConnectorInDB.
Grant(c) ==
  /\ row[c] # Absent
  /\ Count
  /\ row' = [row EXCEPT ![c] = [revoked |-> FALSE, online |-> FALSE, ws |-> @.ws]]
  /\ UNCHANGED <<store, certs, reg, serving, todo, entitled>>

\* DELETE /api/admin/agents/:id: its statements are not passed through Rebind.
DeleteAgent(a) ==
  /\ Count
  /\ token' = IF Driver = "sqlite" THEN DeleteTokens(a) ELSE token
  /\ UNCHANGED <<mu, req, used, certs, reg, row, serving, todo, entitled>>

\* Mutant: a column that cannot be scanned keeps the value of the row before.
RestartCarried ==
  /\ count.restarts < MaxRestarts
  /\ count' = [count EXCEPT !.restarts = @ + 1]
  /\ mu' = Nobody /\ req' = [w \in Workloads |-> NoRequest]
  /\ \E d \in Connectors :
       /\ row[d] # Absent
       /\ reg' = [c \in Connectors |-> IF row[c] = Absent THEN Absent ELSE row[d].ws]
  /\ stream' = [c \in Connectors |-> "off"]
  /\ rec' = [c \in Connectors |-> Internal]
  /\ todo' = [c \in Connectors |-> <<>>]
  /\ UNCHANGED <<token, used, certs, row, entitled>>

\* The controller restarts: LoadConnectorsFromDB fills the Registry from the rows,
\* revoked ones included; requests and streams are gone.
Restart ==
  /\ count.restarts < MaxRestarts
  /\ count' = [count EXCEPT !.restarts = @ + 1]
  /\ mu' = Nobody /\ req' = [w \in Workloads |-> NoRequest]
  /\ reg' = [c \in Connectors |-> IF row[c] = Absent THEN Absent ELSE row[c].ws]
  /\ stream' = [c \in Connectors |-> "off"]
  /\ rec' = [c \in Connectors |-> Internal]
  /\ todo' = [c \in Connectors |-> <<>>]
  /\ UNCHANGED <<token, used, certs, row, entitled>>

Enrol(w) ==
  \/ \E t \in Tokens : SelectToken(w, t)
  \/ UpdateToken(w) \/ Issue(w) \/ IssueNothing(w)

Stream(c) == Dial(c) \/ MarkOnline(c) \/ Heartbeat(c) \/ SaveConnector(c) \/ Drop(c)

Next ==
  \/ \E t \in Tokens : ExpireToken(t) \/ \E ws \in CAs : CreateToken(t, ws)
  \/ \E w \in Workloads : Enrol(w) \/ CertAges(w) \/ CertExpires(w) \/ Renew(w)
  \/ \E c \in Connectors : \/ Stream(c) \/ StaleTick(c) \/ Request(c) \/ RequestStep(c)
                           \/ Grant(c) \/ \E ws \in CAs : CreateConnector(c, ws)
  \/ \E a \in Agents : DeleteAgent(a)
  \/ Restart

Spec == Init /\ [][Next]_vars

\* control_plane_loop redials for ever, and the Connect goroutine runs on.
Fairness ==
  \A c \in Connectors : WF_vars(Dial(c)) /\ WF_vars(MarkOnline(c)) /\ WF_vars(SaveConnector(c))

FairSpec == Spec /\ Fairness

-----------------------------------------------------------------------------
(* Properties.                                                             *)

\* A token certifies one workload id at most, however enrolments, retries with a
\* token already consumed, deletions and restarts interleave.  (TokenStore.mu is
\* held from the SELECT to the UPDATE.)
TokenSingleUse == \A t \in Tokens : \A v, w \in used[t] : v = w

\* Tokens, records and rows keep their shape, and a token serves one workload
\* (token.go 60-95).
TokensOK == TypeOK /\ TokenSingleUse

\* A connector never turns up in a workspace that it was neither created in nor
\* holds a token of: not by a heartbeat saved late, a record loaded after a
\* restart, or a deletion under a stream that goes on.
NoForeignWorkspace ==
  \A c \in Connectors :
    /\ reg[c] \in Workspaces => reg[c] \in entitled[c]
    /\ row[c] # Absent /\ row[c].ws \in Workspaces => row[c].ws \in entitled[c]

\* A revoked row stays revoked until it is granted or dropped, whatever the
\* connector's stream, the ticker and other requests write to it meanwhile.
RevocationSticks ==
  [][\A c \in Connectors :
       (row[c] # Absent /\ row[c].revoked) =>
         \/ row'[c] = Absent \/ row'[c].revoked
         \/ Grant(c)]_vars

\* interceptor.go: "Accept global trust domain or any workspace trust domain".  A
\* connector that enrolled with a token of a workspace gets a stream while its
\* certificate is valid.  (The TLS handshake comes before the
\* interceptor: the server's pool lacks the workspace's CA, and the CA the
\* connector was given did not sign the server's certificate.)
WorkspaceConnects ==
  \A c \in Connectors :
    (c \in live /\ cert[c] \in Workspaces) ~> (c \notin live \/ stream[c] # "off")

\* ui_connectors.go: a deleted connector is kept as a tombstone "so the running
\* connector process cannot re-register via gRPC", and SaveConnectorToDB "checks
\* revoked=1 and skips the upsert".  Once the request that revoked it is done,
\* Connect lets it in no more and no heartbeat of a stream that is still up is
\* saved.  (What a Connect that had passed its check before the request writes
\* afterwards is not held against this.)
TombstoneHolds ==
  [][\A c \in Connectors :
       (row[c] # Absent /\ row[c].revoked /\ todo[c] = <<>>) =>
         ~Dial(c) /\ (SaveConnector(c) => UNCHANGED row)]_vars
=============================================================================
