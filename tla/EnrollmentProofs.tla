---------------------------- MODULE EnrollmentProofs ----------------------------
(***************************************************************************)
(* Proofs about Enrollment for any workloads, tokens, workspaces and       *)
(* bounds.                                                                 *)
(***************************************************************************)
EXTENDS Enrollment, TLAPS

\* A request past its SELECT has a token.
ReqOK == \A w \in Workloads : req[w].pc # "off" => req[w].token \in Tokens

\* Between its SELECT and its UPDATE a request holds the mutex.
MutexHeld == \A w \in Workloads : req[w].pc = "update" => mu = w

\* Token t has certified w, or is about to.
Claims(w, t) == w \in used[t] \/ (req[w].pc = "issue" /\ req[w].token = t)

\* w is between the SELECT and the UPDATE of token t.
Updates(w, t) == req[w].pc = "update" /\ req[w].token = t

\* What the state of a token says about those after it.
TokenInv(t) ==
  /\ \A v, w \in Workloads : Claims(v, t) /\ Claims(w, t) => v = w
  /\ \A v, w \in Workloads : Updates(v, t) => ~Claims(w, t)
  /\ token[t].state \in {"new", "fresh"} => \A w \in Workloads : ~Claims(w, t)
  /\ token[t].state \in {"new", "bound"} => \A w \in Workloads : ~Updates(w, t)
  /\ token[t].state = "bound" => \A w \in Workloads : Claims(w, t) => w = token[t].id

TokenStoreOK == ReqOK /\ MutexHeld /\ \A t \in Tokens : TokenInv(t)

\* A record a heartbeat is about to save is of a workspace of the connector's.
RecEntitled == \A c \in Connectors : rec[c] \in Workspaces => rec[c] \in entitled[c]

IInv == TypeOK /\ TokenStoreOK /\ NoForeignWorkspace /\ RecEntitled

-----------------------------------------------------------------------------
(* Types.                                                                  *)

Counts == [enrolments : 0..MaxEnrolments, dials : 0..MaxDials,
           requests : 0..MaxRequests, restarts : 0..MaxRestarts]

TokenRecords == [state : {"new", "fresh", "bound", "gone"}, ws : CAs, id : Workloads \cup {Nobody}]

RequestRecords == [pc : {"off", "update", "issue"}, token : Tokens \cup {Absent}, ws : CAs]

\* What is counted stays within its bound.
LEMMA CountType ==
  ASSUME TypeOK
  PROVE  /\ count.enrolments < MaxEnrolments => [count EXCEPT !.enrolments = @ + 1] \in Counts
         /\ count.dials < MaxDials => [count EXCEPT !.dials = @ + 1] \in Counts
         /\ count.requests < MaxRequests => [count EXCEPT !.requests = @ + 1] \in Counts
         /\ count.restarts < MaxRestarts => [count EXCEPT !.restarts = @ + 1] \in Counts
<1>1. \A n, m \in Nat : n < m => n + 1 \in 0..m
  OBVIOUS
<1>2. /\ count.enrolments < MaxEnrolments => count.enrolments + 1 \in 0..MaxEnrolments
      /\ count.dials < MaxDials => count.dials + 1 \in 0..MaxDials
      /\ count.requests < MaxRequests => count.requests + 1 \in 0..MaxRequests
      /\ count.restarts < MaxRestarts => count.restarts + 1 \in 0..MaxRestarts
  BY <1>1, ConstantsAssumption DEF TypeOK
<1>. QED
  BY <1>2 DEF TypeOK, Counts

\* DeleteTokens leaves the tokens well typed.
LEMMA DeleteTokensType ==
  ASSUME TypeOK, NEW w
  PROVE  DeleteTokens(w) \in [Tokens -> TokenRecords]
  BY DEF TypeOK, DeleteTokens, NoToken, CAs, TokenRecords

\* An UPDATE of the online flag leaves the rows well typed.
LEMMA OnlineType ==
  ASSUME TypeOK, NEW c \in Connectors, NEW on \in BOOLEAN, SetOnline(c, on)
  PROVE  row' \in [Connectors -> Rows \cup {Absent}]
<1>1. row[c] # Absent => [revoked |-> row[c].revoked, online |-> on, ws |-> row[c].ws] \in Rows
  BY DEF TypeOK, Rows
<1>. QED
  BY <1>1 DEF TypeOK, SetOnline

\* Every step keeps the state well typed.
LEMMA TypeStep == TypeOK /\ ReqOK /\ [Next]_vars => TypeOK'
<1>. SUFFICES ASSUME TypeOK, ReqOK, [Next]_vars PROVE TypeOK'
  OBVIOUS
<1>. USE ConstantsAssumption DEF store, certs, serving, Counts, TokenRecords, RequestRecords
<1>1. ASSUME NEW t \in Tokens, NEW ws \in CAs, CreateToken(t, ws) PROVE TypeOK'
  BY <1>1 DEF CreateToken, TypeOK
<1>2. ASSUME NEW t \in Tokens, ExpireToken(t) PROVE TypeOK'
  BY <1>2 DEF ExpireToken, NoToken, TypeOK, CAs
<1>3. ASSUME NEW w \in Workloads, NEW t \in Tokens, SelectToken(w, t) PROVE TypeOK'
  <2>1. count' \in Counts
    BY <1>3, CountType DEF SelectToken
  <2>2. token[t].ws \in CAs
    BY DEF TypeOK
  <2>3. req' \in [Workloads -> RequestRecords]
    BY <1>3, <2>2 DEF SelectToken, TypeOK
  <2>. QED
    BY <1>3, <2>1, <2>3 DEF SelectToken, TypeOK
<1>4. ASSUME NEW w \in Workloads, UpdateToken(w) PROVE TypeOK'
  <2>1. req[w].token \in Tokens
    BY <1>4 DEF UpdateToken, ReqOK
  <2>2. token' \in [Tokens -> TokenRecords]
    BY <1>4, <2>1 DEF UpdateToken, TypeOK
  <2>3. req' \in [Workloads -> RequestRecords]
    BY <1>4 DEF UpdateToken, TypeOK
  <2>. QED
    BY <1>4, <2>2, <2>3 DEF UpdateToken, TypeOK
<1>5. ASSUME NEW w \in Workloads, Issue(w) PROVE TypeOK'
  <2>1. req[w].token \in Tokens /\ req[w].ws \in CAs
    BY <1>5 DEF Issue, ReqOK, TypeOK
  <2>2. NoRequest \in RequestRecords
    BY DEF NoRequest, CAs
  <2>3. req' \in [Workloads -> RequestRecords]
    BY <1>5, <2>2 DEF Issue, TypeOK
  <2>4. cert' \in [Workloads -> CAs \cup {Absent}] /\ live' \subseteq Workloads /\ aging' \subseteq live'
    BY <1>5, <2>1 DEF Issue, TypeOK
  <2>5. reg' \in [Connectors -> CAs \cup {Absent}]
    BY <1>5, <2>1 DEF Issue, TypeOK
  <2>6. entitled' \in [Connectors -> SUBSET CAs]
    <3>1. w \in Connectors => entitled[w] \cup {req[w].ws} \in SUBSET CAs
      BY <2>1 DEF TypeOK
    <3>. QED
      BY <1>5, <3>1 DEF Issue, TypeOK
  <2>7. used' \in [Tokens -> SUBSET Workloads]
    BY <1>5, <2>1 DEF Issue, TypeOK
  <2>. QED
    BY <1>5, <2>3, <2>4, <2>5, <2>6, <2>7 DEF Issue, TypeOK
<1>6. ASSUME NEW w \in Workloads, IssueNothing(w) PROVE TypeOK'
  BY <1>6 DEF IssueNothing, NoRequest, TypeOK, CAs
<1>7. ASSUME NEW w \in Workloads, CertAges(w) \/ CertExpires(w) \/ Renew(w) PROVE TypeOK'
  BY <1>7 DEF CertAges, CertExpires, Renew, TypeOK
<1>8. ASSUME NEW c \in Connectors, Dial(c) PROVE TypeOK'
  <2>1. count' \in Counts
    BY <1>8, CountType DEF Dial
  <2>. QED
    BY <1>8, <2>1 DEF Dial, TypeOK
<1>9. ASSUME NEW c \in Connectors, MarkOnline(c) \/ Drop(c) \/ StaleTick(c) PROVE TypeOK'
  <2>1. row' \in [Connectors -> Rows \cup {Absent}]
    BY <1>9, OnlineType DEF MarkOnline, Drop, StaleTick
  <2>. QED
    BY <1>9, <2>1 DEF MarkOnline, Drop, StaleTick, TypeOK
<1>10. ASSUME NEW c \in Connectors, Heartbeat(c) PROVE TypeOK'
  <2>1. reg' \in [Connectors -> CAs \cup {Absent}] /\ reg'[c] \in CAs
    BY <1>10 DEF Heartbeat, TypeOK, CAs
  <2>. QED
    BY <1>10, <2>1 DEF Heartbeat, TypeOK
<1>11. ASSUME NEW c \in Connectors, SaveConnector(c) PROVE TypeOK'
  <2>1. rec[c] \in CAs /\ (row[c] # Absent /\ row[c].revoked) \in BOOLEAN
    BY DEF TypeOK, Rows
  <2>2. [revoked |-> row[c] # Absent /\ row[c].revoked, online |-> TRUE, ws |-> rec[c]] \in Rows
    BY <2>1 DEF Rows
  <2>3. row' \in [Connectors -> Rows \cup {Absent}]
    BY <1>11, <2>2 DEF SaveConnector, TypeOK
  <2>. QED
    BY <1>11, <2>3 DEF SaveConnector, TypeOK, CAs
<1>12. ASSUME NEW c \in Connectors, NEW ws \in CAs, CreateConnector(c, ws) PROVE TypeOK'
  <2>1. [revoked |-> FALSE, online |-> FALSE, ws |-> ws] \in Rows
    BY DEF Rows
  <2>. QED
    BY <1>12, <2>1 DEF CreateConnector, TypeOK
<1>13. ASSUME NEW c \in Connectors, Request(c) PROVE TypeOK'
  <2>1. Requests \subseteq Seq(Steps)
    BY DEF Requests, Steps
  <2>2. todo' \in [Connectors -> Seq(Steps)]
    BY <1>13, <2>1 DEF Request, TypeOK
  <2>. QED
    BY <1>13, <2>2, CountType DEF Request, Count, TypeOK
<1>14. ASSUME NEW c \in Connectors, RequestStep(c) PROVE TypeOK'
  <2>1. todo' \in [Connectors -> Seq(Steps)]
    BY <1>14 DEF RequestStep, TypeOK
  <2>2. token' \in [Tokens -> TokenRecords]
    BY <1>14, DeleteTokensType DEF RequestStep, TypeOK
  <2>3. reg' \in [Connectors -> CAs \cup {Absent}]
    BY <1>14 DEF RequestStep, TypeOK
  <2>4. row[c] # Absent => [revoked |-> TRUE, online |-> FALSE, ws |-> row[c].ws] \in Rows
    BY DEF TypeOK, Rows
  <2>5. RevokeRow(c) \in [Connectors -> Rows \cup {Absent}]
    BY <2>4 DEF RevokeRow, TypeOK
  <2>6. row' \in [Connectors -> Rows \cup {Absent}]
    BY <1>14, <2>5 DEF RequestStep, TypeOK
  <2>. QED
    BY <1>14, <2>1, <2>2, <2>3, <2>6 DEF RequestStep, TypeOK
<1>15. ASSUME NEW c \in Connectors, Grant(c) PROVE TypeOK'
  <2>1. [revoked |-> FALSE, online |-> FALSE, ws |-> row[c].ws] \in Rows
    BY <1>15 DEF Grant, TypeOK, Rows
  <2>2. row' \in [Connectors -> Rows \cup {Absent}]
    BY <1>15, <2>1 DEF Grant, TypeOK
  <2>. QED
    BY <1>15, <2>2, CountType DEF Grant, Count, TypeOK
<1>16. ASSUME NEW a \in Agents, DeleteAgent(a) PROVE TypeOK'
  <2>1. token' \in [Tokens -> TokenRecords]
    BY <1>16, DeleteTokensType DEF DeleteAgent, TypeOK
  <2>. QED
    BY <1>16, <2>1, CountType DEF DeleteAgent, Count, TypeOK
<1>17. CASE Restart
  <2>1. count' \in Counts
    BY <1>17, CountType DEF Restart
  <2>2. reg' \in [Connectors -> CAs \cup {Absent}]
    BY <1>17 DEF Restart, TypeOK, Rows
  <2>3. req' \in [Workloads -> RequestRecords]
    BY <1>17 DEF Restart, NoRequest, CAs
  <2>. QED
    BY <1>17, <2>1, <2>2, <2>3 DEF Restart, TypeOK, CAs
<1>18. CASE UNCHANGED vars
  BY <1>18 DEF vars, TypeOK
<1>. QED
  BY <1>1, <1>2, <1>3, <1>4, <1>5, <1>6, <1>7, <1>8, <1>9, <1>10, <1>11, <1>12, <1>13, <1>14,
     <1>15, <1>16, <1>17, <1>18 DEF Next, Enrol, Stream

-----------------------------------------------------------------------------
(* The token store.                                                        *)

\* A token is as safe as it was when nobody new is after it and its row is
\* unchanged or gone.
LEMMA TokenFrame ==
  ASSUME NEW t \in Tokens, TokenInv(t),
         token'[t] = token[t] \/ token'[t].state = "gone",
         \A w \in Workloads : (Claims(w, t)' => Claims(w, t)) /\ (Updates(w, t)' => Updates(w, t))
  PROVE  TokenInv(t)'
<1>1. "gone" \notin {"new", "fresh", "bound"}
  OBVIOUS
<1>. QED
  BY <1>1 DEF TokenInv

\* So it is for every token when requests and history stay and rows can only go.
LEMMA StoreFrame ==
  ASSUME TokenStoreOK, UNCHANGED <<mu, req, used>>,
         \A t \in Tokens : token'[t] = token[t] \/ token'[t].state = "gone"
  PROVE  TokenStoreOK'
<1>1. ReqOK' /\ MutexHeld'
  BY DEF TokenStoreOK, ReqOK, MutexHeld
<1>2. ASSUME NEW t \in Tokens PROVE TokenInv(t)'
  <2>1. \A w \in Workloads : (Claims(w, t)' => Claims(w, t)) /\ (Updates(w, t)' => Updates(w, t))
    BY DEF Claims, Updates
  <2>. QED
    BY <2>1, TokenFrame DEF TokenStoreOK
<1>. QED
  BY <1>1, <1>2 DEF TokenStoreOK

\* Every step keeps the token store in order: the mutex keeps a second SELECT
\* away from a token that is being updated.
LEMMA TokenStoreStep == TypeOK /\ TokenStoreOK /\ [Next]_vars => TokenStoreOK'
<1>. SUFFICES ASSUME TypeOK, TokenStoreOK, [Next]_vars PROVE TokenStoreOK'
  OBVIOUS
<1>. USE ConstantsAssumption DEF store
<1>1. ReqOK /\ MutexHeld /\ \A t \in Tokens : TokenInv(t)
  BY DEF TokenStoreOK
<1>2. ASSUME NEW t \in Tokens, NEW ws \in CAs, CreateToken(t, ws) PROVE TokenStoreOK'
  <2>1. UNCHANGED <<mu, req, used>> /\ token[t].state = "new"
        /\ token'[t].state = "fresh" /\ \A u \in Tokens \ {t} : token'[u] = token[u]
    BY <1>2 DEF CreateToken, TypeOK
  <2>2. ASSUME NEW u \in Tokens PROVE TokenInv(u)'
    <3>1. \A w \in Workloads : (Claims(w, u)' <=> Claims(w, u)) /\ (Updates(w, u)' <=> Updates(w, u))
      BY <2>1 DEF Claims, Updates
    <3>2. CASE u # t
      BY <1>1, <2>1, <3>1, <3>2, TokenFrame
    <3>3. CASE u = t
      BY <1>1, <2>1, <3>1, <3>3 DEF TokenInv
    <3>. QED
      BY <3>2, <3>3
  <2>3. ReqOK' /\ MutexHeld'
    BY <1>1, <2>1 DEF ReqOK, MutexHeld
  <2>. QED
    BY <2>2, <2>3 DEF TokenStoreOK
<1>3. ASSUME NEW t \in Tokens, ExpireToken(t) PROVE TokenStoreOK'
  <2>1. UNCHANGED <<mu, req, used>> /\ \A u \in Tokens : token'[u] = token[u] \/ token'[u].state = "gone"
    BY <1>3 DEF ExpireToken, NoToken, TypeOK
  <2>. QED
    BY <2>1, StoreFrame
<1>4. ASSUME NEW w \in Workloads, NEW t \in Tokens, SelectToken(w, t) PROVE TokenStoreOK'
  <2>1. UNCHANGED <<token, used>> /\ mu = Nobody /\ req[w].pc = "off"
    BY <1>4 DEF SelectToken
  <2>2. \A v \in Workloads : req[v].pc # "update"
    BY <1>1, <2>1 DEF MutexHeld
  <2>3. /\ req'[w].token = t /\ \A v \in Workloads \ {w} : req'[v] = req[v]
        /\ \/ token[t].state = "fresh" /\ req'[w].pc = "update" /\ mu' = w
           \/ token[t].state = "bound" /\ token[t].id = w /\ req'[w].pc = "issue" /\ mu' = Nobody
    BY <1>4 DEF SelectToken, TypeOK
  <2>4. ReqOK' /\ MutexHeld'
    BY <1>1, <2>2, <2>3 DEF ReqOK, MutexHeld
  <2>5. ASSUME NEW u \in Tokens PROVE TokenInv(u)'
    <3>1. \A v \in Workloads : v # w => (Claims(v, u)' <=> Claims(v, u)) /\ ~Updates(v, u)'
      BY <2>1, <2>2, <2>3 DEF Claims, Updates
    <3>2. CASE u # t
      <4>1. (Claims(w, u)' => Claims(w, u)) /\ ~Updates(w, u)'
        BY <2>1, <2>3, <3>2 DEF Claims, Updates
      <4>. QED
        BY <1>1, <2>1, <3>1, <4>1, TokenFrame
    <3>3. CASE u = t /\ token[t].state = "fresh"
      <4>1. \A v \in Workloads : ~Claims(v, t)'
        BY <1>1, <2>1, <2>3, <3>1, <3>3 DEF TokenInv, Claims
      <4>. QED
        BY <2>1, <3>3, <4>1 DEF TokenInv
    <3>4. CASE u = t /\ token[t].state = "bound"
      <4>1. \A v \in Workloads : (Claims(v, t)' => v = w) /\ ~Updates(v, t)'
        BY <1>1, <2>3, <3>1, <3>4 DEF TokenInv, Updates
      <4>. QED
        BY <2>1, <2>3, <3>4, <4>1 DEF TokenInv
    <3>. QED
      BY <2>3, <3>2, <3>3, <3>4
  <2>. QED
    BY <2>4, <2>5 DEF TokenStoreOK
<1>5. ASSUME NEW w \in Workloads, UpdateToken(w) PROVE TokenStoreOK'
  <2>1. PICK t \in Tokens : req[w].token = t /\ req[w].pc = "update"
    BY <1>1, <1>5 DEF UpdateToken, ReqOK
  <2>2. /\ req'[w].pc = "issue" /\ req'[w].token = t /\ \A v \in Workloads \ {w} : req'[v] = req[v]
        /\ mu = w /\ mu' = Nobody /\ used' = used
        /\ \A u \in Tokens \ {t} : token'[u] = token[u]
        /\ \/ token'[t].state = "gone"
           \/ token'[t].state = "bound" /\ token'[t].id = w
    BY <1>1, <1>5, <2>1 DEF UpdateToken, TypeOK, MutexHeld
  <2>3. \A v \in Workloads : req'[v].pc # "update"
    BY <1>1, <2>2 DEF MutexHeld
  <2>4. ReqOK' /\ MutexHeld'
    BY <1>1, <2>1, <2>2, <2>3 DEF ReqOK, MutexHeld
  <2>5. ASSUME NEW u \in Tokens PROVE TokenInv(u)'
    <3>1. \A v \in Workloads : ~Updates(v, u)'
      BY <2>3 DEF Updates
    <3>2. CASE u # t
      <4>1. \A v \in Workloads : Claims(v, u)' => Claims(v, u)
        BY <2>2, <3>2 DEF Claims
      <4>. QED
        BY <1>1, <2>2, <3>1, <3>2, <4>1, TokenFrame
    <3>3. CASE u = t
      <4>1. \A v \in Workloads : ~Claims(v, t)
        BY <1>1, <2>1 DEF TokenInv, Updates
      <4>2. \A v \in Workloads : Claims(v, t)' => v = w
        BY <2>2, <4>1 DEF Claims
      <4>. QED
        BY <2>2, <3>1, <3>3, <4>2 DEF TokenInv
    <3>. QED
      BY <3>2, <3>3
  <2>. QED
    BY <2>4, <2>5 DEF TokenStoreOK
<1>6. ASSUME NEW w \in Workloads, Issue(w) \/ IssueNothing(w) PROVE TokenStoreOK'
  <2>1. PICK t \in Tokens : req[w].token = t /\ req[w].pc = "issue"
    BY <1>1, <1>6 DEF Issue, IssueNothing, ReqOK
  <2>2. /\ UNCHANGED <<token, mu>> /\ req'[w] = NoRequest /\ \A v \in Workloads \ {w} : req'[v] = req[v]
    BY <1>6 DEF Issue, IssueNothing, TypeOK
  <2>3. \A u \in Tokens : used'[u] = used[u] \/ (u = t /\ used'[u] = used[u] \cup {w})
    BY <1>6, <2>1 DEF Issue, IssueNothing, TypeOK
  <2>4. NoRequest.pc = "off"
    BY DEF NoRequest
  <2>5. ReqOK' /\ MutexHeld'
    BY <1>1, <2>2, <2>4 DEF ReqOK, MutexHeld
  <2>6. ASSUME NEW u \in Tokens PROVE TokenInv(u)'
    <3>1. \A v \in Workloads : (Claims(v, u)' => Claims(v, u)) /\ (Updates(v, u)' => Updates(v, u))
      BY <2>1, <2>2, <2>3, <2>4 DEF Claims, Updates
    <3>. QED
      BY <1>1, <2>2, <3>1, TokenFrame
  <2>. QED
    BY <2>5, <2>6 DEF TokenStoreOK
<1>7. ASSUME NEW w \in Workloads, UNCHANGED <<mu, req, used>>, token' = DeleteTokens(w) \/ token' = token
      PROVE  TokenStoreOK'
  <2>1. \A u \in Tokens : token'[u] = token[u] \/ token'[u].state = "gone"
    BY <1>7 DEF DeleteTokens, NoToken
  <2>. QED
    BY <1>7, <2>1, StoreFrame
<1>8. ASSUME NEW c \in Connectors, RequestStep(c) PROVE TokenStoreOK'
  BY <1>7, <1>8 DEF RequestStep, Workloads
<1>9. ASSUME NEW a \in Agents, DeleteAgent(a) PROVE TokenStoreOK'
  BY <1>7, <1>9 DEF DeleteAgent, Workloads
<1>10. CASE Restart
  <2>1. UNCHANGED <<token, used>> /\ \A v \in Workloads : req'[v].pc = "off"
    BY <1>10 DEF Restart, NoRequest
  <2>2. ASSUME NEW u \in Tokens PROVE TokenInv(u)'
    <3>1. \A v \in Workloads : (Claims(v, u)' => Claims(v, u)) /\ (Updates(v, u)' => Updates(v, u))
      BY <2>1 DEF Claims, Updates
    <3>. QED
      BY <1>1, <2>1, <3>1, TokenFrame
  <2>. QED
    BY <2>1, <2>2 DEF TokenStoreOK, ReqOK, MutexHeld
<1>11. CASE UNCHANGED store
  BY <1>11, StoreFrame
<1>12. ASSUME NEW w \in Workloads, CertAges(w) \/ CertExpires(w) \/ Renew(w) PROVE UNCHANGED store
  BY <1>12 DEF CertAges, CertExpires, Renew
<1>13. ASSUME NEW c \in Connectors,
              Stream(c) \/ StaleTick(c) \/ Request(c) \/ Grant(c) \/ \E ws \in CAs : CreateConnector(c, ws)
       PROVE  UNCHANGED store
  BY <1>13 DEF Stream, Dial, MarkOnline, Heartbeat, SaveConnector, Drop, StaleTick, Request, Grant,
               CreateConnector
<1>14. UNCHANGED vars => UNCHANGED store
  BY DEF vars
<1>. QED
  BY <1>2, <1>3, <1>4, <1>5, <1>6, <1>8, <1>9, <1>10, <1>11, <1>12, <1>13, <1>14 DEF Next, Enrol

-----------------------------------------------------------------------------
(* Workspaces.                                                             *)

\* What a connector is entitled to only grows.
LEMMA EntitledGrows ==
  ASSUME TypeOK, [Next]_vars
  PROVE  \A c \in Connectors : entitled[c] \subseteq entitled'[c]
<1>1. ASSUME NEW w \in Workloads, Issue(w) PROVE \A c \in Connectors : entitled[c] \subseteq entitled'[c]
  <2>1. \A c \in Connectors : entitled'[c] = entitled[c] \/ entitled'[c] = entitled[c] \cup {req[c].ws}
    BY <1>1 DEF Issue, TypeOK
  <2>. QED
    BY <2>1
<1>2. ASSUME NEW c \in Connectors, NEW ws \in CAs, CreateConnector(c, ws)
      PROVE  \A d \in Connectors : entitled[d] \subseteq entitled'[d]
  BY <1>2 DEF CreateConnector, TypeOK
<1>3. CASE UNCHANGED entitled
  BY <1>3
<1>4. \/ \E w \in Workloads : Issue(w)
      \/ \E c \in Connectors : \E ws \in CAs : CreateConnector(c, ws)
      \/ UNCHANGED entitled
  BY DEF Next, Enrol, Stream, vars, CreateToken, ExpireToken, SelectToken, UpdateToken, IssueNothing,
         CertAges, CertExpires, Renew, Dial, MarkOnline, Heartbeat, SaveConnector, Drop, StaleTick,
         Request, RequestStep, Grant, DeleteAgent, Restart
<1>. QED
  BY <1>1, <1>2, <1>3, <1>4

\* Every step keeps connectors within their workspaces.
LEMMA WorkspaceStep ==
  TypeOK /\ NoForeignWorkspace /\ RecEntitled /\ [Next]_vars => NoForeignWorkspace' /\ RecEntitled'
<1>. SUFFICES ASSUME TypeOK, NoForeignWorkspace, RecEntitled, [Next]_vars, NEW c \in Connectors
              PROVE  /\ (reg[c] \in Workspaces => reg[c] \in entitled[c])'
                     /\ (row[c] # Absent /\ row[c].ws \in Workspaces => row[c].ws \in entitled[c])'
                     /\ (rec[c] \in Workspaces => rec[c] \in entitled[c])'
  BY DEF NoForeignWorkspace, RecEntitled
<1>. USE ConstantsAssumption DEF certs, serving, CAs
<1>1. entitled[c] \subseteq entitled'[c]
  BY EntitledGrows
<1>2. /\ reg[c] \in Workspaces => reg[c] \in entitled[c]
      /\ row[c] # Absent /\ row[c].ws \in Workspaces => row[c].ws \in entitled[c]
      /\ rec[c] \in Workspaces => rec[c] \in entitled[c]
  BY DEF NoForeignWorkspace, RecEntitled
<1>3. CASE UNCHANGED <<reg[c], row[c], rec[c]>>
  BY <1>1, <1>2, <1>3
<1>4. ASSUME NEW w \in Workloads, Issue(w) PROVE
        /\ UNCHANGED <<row[c], rec[c]>>
        /\ UNCHANGED reg[c] \/ reg'[c] \in entitled'[c]
  BY <1>4 DEF Issue, TypeOK
<1>5. ASSUME NEW d \in Connectors, MarkOnline(d) \/ Drop(d) \/ StaleTick(d) \/ Grant(d) PROVE
        /\ UNCHANGED <<reg[c], rec[c]>>
        /\ UNCHANGED row[c] \/ (row[c] # Absent /\ row'[c].ws = row[c].ws)
  BY <1>5 DEF MarkOnline, Drop, StaleTick, Grant, SetOnline, TypeOK
<1>6. ASSUME NEW d \in Connectors, Heartbeat(d) PROVE
        /\ UNCHANGED row[c]
        /\ UNCHANGED reg[c] \/ reg'[c] = Internal
        /\ UNCHANGED rec[c] \/ rec'[c] = reg'[c]
  BY <1>6 DEF Heartbeat, TypeOK
<1>7. ASSUME NEW d \in Connectors, SaveConnector(d) PROVE
        /\ UNCHANGED reg[c]
        /\ UNCHANGED row[c] \/ row'[c].ws = rec[c]
        /\ UNCHANGED rec[c] \/ rec'[c] = Internal
  BY <1>7 DEF SaveConnector, TypeOK
<1>8. ASSUME NEW d \in Connectors, NEW ws \in CAs, CreateConnector(d, ws) PROVE
        /\ UNCHANGED <<reg[c], rec[c]>>
        /\ UNCHANGED row[c] \/ row'[c].ws \in entitled'[c]
  BY <1>8 DEF CreateConnector, TypeOK
<1>9. ASSUME NEW d \in Connectors, RequestStep(d) PROVE
        /\ UNCHANGED rec[c]
        /\ UNCHANGED reg[c] \/ reg'[c] = Absent
        /\ \/ UNCHANGED row[c] \/ row'[c] = Absent
           \/ row[c] # Absent /\ row'[c].ws = row[c].ws
  BY <1>9 DEF RequestStep, RevokeRow, TypeOK
<1>10. CASE Restart
  <2>1. /\ UNCHANGED row[c] /\ rec'[c] = Internal
        /\ reg'[c] = Absent \/ (row[c] # Absent /\ reg'[c] = row[c].ws)
    BY <1>10 DEF Restart
  <2>. QED
    BY <1>1, <1>2, <2>1
<1>11. UNCHANGED vars => UNCHANGED <<reg[c], row[c], rec[c]>>
  BY DEF vars
<1>12. ASSUME NEW t \in Tokens, ExpireToken(t) \/ \E ws \in CAs : CreateToken(t, ws)
       PROVE  UNCHANGED <<reg[c], row[c], rec[c]>>
  BY <1>12 DEF ExpireToken, CreateToken
<1>13. ASSUME NEW w \in Workloads,
              \/ \E t \in Tokens : SelectToken(w, t)
              \/ UpdateToken(w) \/ IssueNothing(w) \/ CertAges(w) \/ CertExpires(w) \/ Renew(w)
       PROVE  UNCHANGED <<reg[c], row[c], rec[c]>>
  BY <1>13 DEF SelectToken, UpdateToken, IssueNothing, CertAges, CertExpires, Renew
<1>14. ASSUME NEW d \in Connectors, Dial(d) \/ Request(d) PROVE UNCHANGED <<reg[c], row[c], rec[c]>>
  BY <1>14 DEF Dial, Request
<1>15. ASSUME NEW a \in Agents, DeleteAgent(a) PROVE UNCHANGED <<reg[c], row[c], rec[c]>>
  BY <1>15 DEF DeleteAgent
<1>. QED
  BY <1>1, <1>2, <1>3, <1>4, <1>5, <1>6, <1>7, <1>8, <1>9, <1>10, <1>11, <1>12, <1>13, <1>14, <1>15
     DEF Next, Enrol, Stream

-----------------------------------------------------------------------------
(* The invariant and what follows from it.                                 *)

\* Before the first request no token is claimed and no connector is known.
LEMMA InitInv == Init => IInv
<1>. SUFFICES ASSUME Init PROVE IInv
  OBVIOUS
<1>. USE ConstantsAssumption
<1>1. TypeOK
  BY DEF Init, TypeOK, NoToken, NoRequest, CAs, Workloads
<1>2. TokenStoreOK
  BY DEF Init, TokenStoreOK, ReqOK, MutexHeld, TokenInv, Claims, Updates, NoRequest
<1>3. NoForeignWorkspace /\ RecEntitled
  BY DEF Init, NoForeignWorkspace, RecEntitled, CAs
<1>. QED
  BY <1>1, <1>2, <1>3 DEF IInv

\* The inductive invariant holds throughout.
LEMMA Invariance == Spec => []IInv
<1>1. IInv /\ [Next]_vars => IInv'
  BY TypeStep, TokenStoreStep, WorkspaceStep DEF IInv, TokenStoreOK
<1>. QED
  BY <1>1, InitInv, PTL DEF Spec

\* A token certifies one workload at most, for any number of requests, retries,
\* deletions and restarts (ConsumeTokenWithWorkspace holds the mutex).
THEOREM TokensOKTheorem == Spec => []TokensOK
<1>1. ASSUME IInv PROVE TokensOK
  <2>1. \A t \in Tokens : used[t] \subseteq Workloads
    BY <1>1 DEF IInv, TypeOK
  <2>2. TokenSingleUse
    BY <1>1, <2>1 DEF IInv, TokenStoreOK, TokenInv, Claims, TokenSingleUse
  <2>. QED
    BY <1>1, <2>2 DEF IInv, TokensOK
<1>. QED
  BY <1>1, Invariance, PTL

\* No connector turns up in a workspace it was neither created in nor enrolled
\* into, by a late heartbeat save or by what a restart loads.
THEOREM NoForeignWorkspaceTheorem == Spec => []NoForeignWorkspace
<1>1. IInv => NoForeignWorkspace
  BY DEF IInv
<1>. QED
  BY <1>1, Invariance, PTL

\* Only a grant or a deletion ends a revocation: the upsert of SaveConnectorToDB
\* and the UPDATEs of the online flag leave it alone.
THEOREM RevocationSticksTheorem == Spec => RevocationSticks
<1>. DEFINE Kept(c) == (row[c] # Absent /\ row[c].revoked) =>
                         \/ row'[c] = Absent \/ row'[c].revoked
                         \/ Grant(c)
<1>1. ASSUME TypeOK, [Next]_vars, NEW c \in Connectors PROVE Kept(c)
  <2>. USE DEF certs, serving
  <2>1. CASE UNCHANGED row
    BY <2>1
  <2>2. ASSUME NEW d \in Connectors, MarkOnline(d) \/ Drop(d) \/ StaleTick(d)
        PROVE  UNCHANGED row[c] \/ (row[c] # Absent /\ row'[c].revoked = row[c].revoked)
    <3>1. PICK on \in BOOLEAN : SetOnline(d, on)
      BY <2>2 DEF MarkOnline, Drop, StaleTick
    <3>2. CASE c # d \/ row[c] = Absent
      BY <1>1, <3>1, <3>2 DEF SetOnline, TypeOK
    <3>3. CASE c = d /\ row[c] # Absent
      <4>1. row'[c] = [revoked |-> row[c].revoked, online |-> on, ws |-> row[c].ws]
        BY <1>1, <3>1, <3>3 DEF SetOnline, TypeOK
      <4>. QED
        BY <3>3, <4>1
    <3>. QED
      BY <3>2, <3>3
  <2>3. ASSUME NEW d \in Connectors, SaveConnector(d)
        PROVE  UNCHANGED row[c] \/ row'[c].revoked = (row[c] # Absent /\ row[c].revoked)
    BY <1>1, <2>3 DEF SaveConnector, TypeOK
  <2>4. ASSUME NEW d \in Connectors, NEW ws \in CAs, CreateConnector(d, ws)
        PROVE  UNCHANGED row[c] \/ row[c] = Absent
    BY <1>1, <2>4 DEF CreateConnector, TypeOK
  <2>5. ASSUME NEW d \in Connectors, RequestStep(d)
        PROVE  UNCHANGED row[c] \/ row'[c] = Absent \/ row'[c].revoked = TRUE
    BY <1>1, <2>5 DEF RequestStep, RevokeRow, TypeOK
  <2>6. ASSUME NEW d \in Connectors, Grant(d) PROVE UNCHANGED row[c] \/ Grant(c)
    <3>1. CASE c # d
      BY <1>1, <2>6, <3>1 DEF Grant, TypeOK
    <3>. QED
      BY <2>6, <3>1
  <2>7. \/ UNCHANGED row
        \/ \E d \in Connectors : \/ MarkOnline(d) \/ Drop(d) \/ StaleTick(d) \/ SaveConnector(d)
                                 \/ RequestStep(d) \/ Grant(d) \/ \E ws \in CAs : CreateConnector(d, ws)
    BY <1>1 DEF Next, Enrol, Stream, vars, CreateToken, ExpireToken, SelectToken, UpdateToken, Issue,
                IssueNothing, CertAges, CertExpires, Renew, Dial, Heartbeat, Request, DeleteAgent, Restart
  <2>. QED
    BY <2>1, <2>2, <2>3, <2>4, <2>5, <2>6, <2>7
<1>2. TypeOK /\ [Next]_vars => [\A c \in Connectors : Kept(c)]_vars
  BY <1>1
<1>3. IInv => TypeOK
  BY DEF IInv
<1>. QED
  BY <1>2, <1>3, Invariance, PTL DEF Spec, RevocationSticks
=============================================================================
