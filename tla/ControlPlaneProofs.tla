--------------------------- MODULE ControlPlaneProofs ---------------------------
(* Theorems about ControlPlane, for any number of connectors, notifiers,   *)
(* policies, streams, edits and restarts, and then about GroupPages, the   *)
(* pages on which the groups of a policy are edited.                       *)
EXTENDS ControlPlane, GroupPages, TLAPS

\* A stream belongs to a connector, and the n-th dial of c names a stream of c.
LEMMA StreamFacts ==
  /\ \A s \in Streams : Owner(s) \in Connectors
  /\ \A c \in Connectors, k \in 1..MaxStreams :
       <<c, k>> \in Streams /\ Owner(<<c, k>>) = c
  BY DEF Streams, Owner

\* A snapshot version is a natural number.
LEMMA NextVersionNat ==
  ASSUME NEW res,
         NEW row \in [version : Nat, hash : Contents \cup {NoContent}]
  PROVE  NextVersion(row, res) \in Nat
  BY DEF NextVersion

\* The initial states are well typed.
LEMMA InitType == Init => TypeOK
<1>. SUFFICES ASSUME Init PROVE TypeOK
  OBVIOUS
<1>1. NoDraft \in Drafts
  BY ConstantsAssumption DEF NoDraft, Drafts, Revs
<1>2. 0 \in Revs /\ 1 \in Revs
  BY ConstantsAssumption DEF Revs
<1>. QED
  BY <1>1, <1>2, ConstantsAssumption DEF Init, TypeOK, PC

\* A step of the system is one action of one process, or changes nothing.
LEMMA StepCases ==
  ASSUME [Next]_vars
  PROVE  \/ \E c \in Connectors : Dial(c) \/ Drop(c) \/ Receive(c) \/ StaleTick(c)
         \/ \E s \in Streams : \/ Register(s) \/ InitialRead(s) \/ InitialSkip(s) \/ MarkOnline(s)
                               \/ Heartbeat(s) \/ RecvFails(s) \/ RemoveClient(s)
         \/ \E p \in Senders : SelectVersion(p) \/ UpsertVersion(p) \/ Send(p)
         \/ \E n \in Notifiers : Edit(n) \/ CopyClients(n) \/ BroadcastRead(n) \/ BroadcastSkip(n)
         \/ Restart
         \/ UNCHANGED vars
  BY DEF Next, Handler, Sending, Broadcast, Senders

\* Every step keeps the state well typed.
LEMMA TypeStep == TypeOK /\ DraftOK /\ [Next]_vars => TypeOK'
<1>. SUFFICES ASSUME TypeOK, DraftOK, [Next]_vars PROVE TypeOK'
  OBVIOUS
<1>. USE StreamFacts
<1>1. ASSUME NEW c \in Connectors, Dial(c) PROVE TypeOK'
  <2>1. dials[c] + 1 \in 1..MaxStreams
    BY <1>1, ConstantsAssumption DEF Dial, TypeOK
  <2>2. <<c, dials[c] + 1>> \in Streams
    BY <2>1
  <2>. QED
    BY <1>1, <2>1, <2>2, ConstantsAssumption DEF Dial, TypeOK, PC, Senders
<1>2. ASSUME NEW c \in Connectors, Drop(c) PROVE TypeOK'
  <2>1. open' \in [Connectors -> Streams \cup {NoStream}] /\ wire' \in [Streams -> Seq(Snapshots)]
    BY <1>2 DEF Drop, TypeOK
  <2>. QED
    BY <1>2, <2>1 DEF Drop, TypeOK, serverVars
<1>3. ASSUME NEW c \in Connectors, Receive(c) PROVE TypeOK'
  <2>1. open[c] \in Streams /\ wire[open[c]] \in Seq(Snapshots)
    BY <1>3 DEF Receive, TypeOK
  <2>2. Head(wire[open[c]]) \in Snapshots /\ Tail(wire[open[c]]) \in Seq(Snapshots)
    BY <1>3, <2>1 DEF Receive
  <2>. QED
    BY <1>3, <2>1, <2>2 DEF Receive, TypeOK, serverVars
<1>4. ASSUME NEW c \in Connectors, StaleTick(c) PROVE TypeOK'
  BY <1>4 DEF StaleTick, TypeOK, connVars
<1>5. ASSUME NEW s \in Streams, Register(s) PROVE TypeOK'
  BY <1>5 DEF Register, TypeOK, connVars, PC, Senders
<1>6. ASSUME NEW p \in Senders, NEW s \in Streams, ReadResources(p, s)
      PROVE  draft' \in [Senders -> Drafts] /\ pc' \in [Senders -> PC]
  BY <1>6 DEF ReadResources, TypeOK, PC, Drafts
<1>7. ASSUME NEW s \in Streams, InitialRead(s) PROVE TypeOK'
  <2>1. draft' \in [Senders -> Drafts] /\ pc' \in [Senders -> PC]
    BY <1>6, <1>7 DEF InitialRead, Senders
  <2>. QED
    BY <1>7, <2>1 DEF InitialRead, TypeOK, connVars
<1>8. ASSUME NEW p \in Senders, SelectVersion(p) PROVE TypeOK'
  <2>1. NextVersion(verRow[Owner(draft[p].to)], draft[p].res) \in Nat
    BY <1>8, NextVersionNat DEF SelectVersion, DraftOK, Compiling, TypeOK
  <2>. QED
    BY <1>8, <2>1 DEF SelectVersion, WithVersion, TypeOK, connVars, PC, Drafts
<1>9. ASSUME NEW p \in Senders, UpsertVersion(p) PROVE TypeOK'
  <2>1. [version |-> draft[p].version, hash |-> draft[p].res]
          \in [version : Nat, hash : Contents \cup {NoContent}]
    BY <1>9 DEF TypeOK, Drafts
  <2>. QED
    BY <1>9, <2>1 DEF UpsertVersion, TypeOK, connVars, PC
<1>10. ASSUME NEW p \in Senders, Send(p) PROVE TypeOK'
  <2>. DEFINE d == draft[p]
              m == [rev |-> d.rev, res |-> d.res, version |-> d.version, key |-> d.to]
  <2>1. d \in Drafts /\ d.to \in Streams /\ d.res \in Contents
    BY <1>10 DEF Send, DraftOK, Compiling, TypeOK
  <2>2. m \in Snapshots
    BY <2>1 DEF Snapshots, Drafts
  <2>3. wire' \in [Streams -> Seq(Snapshots)]
    <3>1. Append(wire[d.to], m) \in Seq(Snapshots)
      BY <2>1, <2>2 DEF TypeOK
    <3>2. wire' = wire \/ wire' = [wire EXCEPT ![d.to] = Append(@, m)]
      BY <1>10 DEF Send
    <3>. HIDE DEF m
    <3>. QED
      BY <2>1, <3>1, <3>2 DEF TypeOK
  <2>4. newest' \in [Streams -> Revs]
    BY <1>10, <2>1 DEF Send, TypeOK, Drafts
  <2>5. pc' \in [Senders -> PC]
    BY <1>10 DEF Send, AfterSnapshot, TypeOK, PC
  <2>6. draft' \in [Senders -> Drafts]
    <3>1. NoDraft \in Drafts
      BY ConstantsAssumption DEF NoDraft, Drafts, Revs
    <3>. QED
      BY <1>10, <3>1 DEF Send, TypeOK
  <2>. QED
    BY <1>10, <2>3, <2>4, <2>5, <2>6 DEF Send, TypeOK, connVars
<1>11. ASSUME NEW s \in Streams,
              MarkOnline(s) \/ Heartbeat(s) \/ RecvFails(s) \/ RemoveClient(s)
       PROVE  TypeOK'
  BY <1>11 DEF MarkOnline, Heartbeat, RecvFails, RemoveClient, TypeOK, connVars, PC,
               Senders
<1>12. ASSUME NEW n \in Notifiers, Edit(n) PROVE TypeOK'
  BY <1>12, ConstantsAssumption DEF Edit, TypeOK, connVars, PC, Senders, Revs
<1>13. ASSUME NEW n \in Notifiers, CopyClients(n) PROVE TypeOK'
  <2>1. Registered \in SUBSET Streams
    BY DEF Registered, TypeOK
  <2>. QED
    BY <1>13, <2>1 DEF CopyClients, TypeOK, connVars, PC, Senders
<1>14. ASSUME NEW n \in Notifiers, BroadcastRead(n) PROVE TypeOK'
  <2>1. PICK s \in todo[n] : ReadResources(n, s) /\ todo' = [todo EXCEPT ![n] = @ \ {s}]
    BY <1>14 DEF BroadcastRead
  <2>2. s \in Streams
    BY <2>1 DEF TypeOK
  <2>3. draft' \in [Senders -> Drafts] /\ pc' \in [Senders -> PC]
    BY <1>6, <2>1, <2>2 DEF Senders
  <2>. QED
    BY <1>14, <2>1, <2>3 DEF BroadcastRead, TypeOK, connVars
<1>17. ASSUME NEW s \in Streams, InitialSkip(s) PROVE TypeOK'
  BY <1>17 DEF InitialSkip, GiveUp, AfterSnapshot, TypeOK, connVars, PC, Senders
<1>18. ASSUME NEW n \in Notifiers, BroadcastSkip(n) PROVE TypeOK'
  <2>1. PICK s \in todo[n] : GiveUp(n, s, todo[n] \ {s}) /\ todo' = [todo EXCEPT ![n] = @ \ {s}]
    BY <1>18 DEF BroadcastSkip
  <2>2. s \in Streams
    BY <2>1 DEF TypeOK
  <2>3. pc' \in [Senders -> PC] /\ skipped' \in [Streams -> Revs]
    BY <2>1, <2>2 DEF GiveUp, AfterSnapshot, TypeOK, PC, Senders
  <2>. QED
    BY <1>18, <2>1, <2>3 DEF BroadcastSkip, TypeOK, connVars
<1>15. ASSUME Restart PROVE TypeOK'
  <2>1. NoDraft \in Drafts
    BY ConstantsAssumption DEF NoDraft, Drafts, Revs
  <2>. QED
    BY <1>15, <2>1, ConstantsAssumption DEF Restart, TypeOK, PC
<1>16. ASSUME UNCHANGED vars PROVE TypeOK'
  BY <1>16 DEF vars, serverVars, connVars, TypeOK
<1>. QED
  BY StepCases, <1>1, <1>2, <1>3, <1>4, <1>5, <1>7, <1>8, <1>9, <1>10, <1>11, <1>12,
     <1>13, <1>14, <1>15, <1>16, <1>17, <1>18

\* A compile in progress stays tied to its stream.
LEMMA DraftStep == TypeOK /\ DraftOK /\ [Next]_vars => DraftOK'
<1>. SUFFICES ASSUME TypeOK, DraftOK, [Next]_vars PROVE DraftOK'
  OBVIOUS
<1>. USE DEF DraftOK, Compiling
<1>1. ASSUME NEW c \in Connectors,
             Dial(c) \/ Drop(c) \/ Receive(c) \/ StaleTick(c)
      PROVE  DraftOK'
  BY <1>1 DEF Dial, Drop, Receive, StaleTick, serverVars, TypeOK, Senders
<1>2. ASSUME NEW s \in Streams,
             Register(s) \/ MarkOnline(s) \/ Heartbeat(s) \/ RecvFails(s) \/ RemoveClient(s)
      PROVE  DraftOK'
  BY <1>2 DEF Register, MarkOnline, Heartbeat, RecvFails, RemoveClient, TypeOK, Senders
<1>3. ASSUME NEW p \in Senders, NEW s \in Streams, ReadResources(p, s),
             p \in Streams => p = s
      PROVE  DraftOK'
  BY <1>3 DEF ReadResources, TypeOK
<1>4. ASSUME NEW s \in Streams, InitialRead(s) PROVE DraftOK'
  BY <1>3, <1>4 DEF InitialRead, Senders
<1>5. ASSUME NEW p \in Senders, SelectVersion(p) \/ UpsertVersion(p) PROVE DraftOK'
  <2>1. \A q \in Senders : pc'[q] \in Compiling => pc[q] \in Compiling
    BY <1>5 DEF SelectVersion, UpsertVersion, TypeOK
  <2>2. \A q \in Senders : draft'[q].to = draft[q].to /\ draft'[q].res = draft[q].res
    <3>1. CASE SelectVersion(p)
      BY <3>1 DEF SelectVersion, WithVersion, TypeOK
    <3>2. CASE UpsertVersion(p)
      BY <3>2 DEF UpsertVersion
    <3>. QED
      BY <1>5, <3>1, <3>2
  <2>. QED
    BY <2>1, <2>2
<1>6. ASSUME NEW p \in Senders, Send(p) PROVE DraftOK'
  BY <1>6 DEF Send, AfterSnapshot, TypeOK
<1>11. ASSUME NEW p \in Senders, NEW s, NEW left, GiveUp(p, s, left), draft' = draft PROVE DraftOK'
  BY <1>11 DEF GiveUp, AfterSnapshot, TypeOK
<1>12. ASSUME NEW s \in Streams, InitialSkip(s) PROVE DraftOK'
  BY <1>11, <1>12 DEF InitialSkip, Senders
<1>13. ASSUME NEW n \in Notifiers, BroadcastSkip(n) PROVE DraftOK'
  BY <1>11, <1>13 DEF BroadcastSkip, Senders
<1>7. ASSUME NEW n \in Notifiers, Edit(n) \/ CopyClients(n) PROVE DraftOK'
  BY <1>7 DEF Edit, CopyClients, TypeOK, Senders
<1>8. ASSUME NEW n \in Notifiers, BroadcastRead(n) PROVE DraftOK'
  <2>1. PICK s \in todo[n] : ReadResources(n, s)
    BY <1>8 DEF BroadcastRead
  <2>2. s \in Streams /\ n \notin Streams
    BY ConstantsAssumption DEF TypeOK
  <2>. QED
    BY <1>3, <2>1, <2>2 DEF Senders
<1>9. ASSUME Restart PROVE DraftOK'
  BY <1>9 DEF Restart
<1>10. ASSUME UNCHANGED vars PROVE DraftOK'
  BY <1>10 DEF vars, serverVars
<1>. QED
  BY StepCases, <1>1, <1>2, <1>4, <1>5, <1>6, <1>7, <1>8, <1>9, <1>10, <1>12, <1>13

\* Ownership of streams and keys, and the state of streams not yet dialled.
LEMMA StreamStep ==
  TypeOK /\ DraftOK /\ StreamOK /\ FreshOK /\ [Next]_vars => StreamOK' /\ FreshOK'
<1>. SUFFICES ASSUME TypeOK, DraftOK, StreamOK, FreshOK, [Next]_vars
              PROVE  StreamOK' /\ FreshOK'
  OBVIOUS
<1>. USE StreamFacts DEF StreamOK, FreshOK
<1>1. ASSUME NEW c \in Connectors, Dial(c) PROVE StreamOK' /\ FreshOK'
  <2>. DEFINE s == <<c, dials[c] + 1>>
  <2>0. dials[c] + 1 \in 1..MaxStreams
    BY <1>1, ConstantsAssumption DEF Dial, TypeOK
  <2>1. s \in Streams /\ Owner(s) = c
    BY <2>0
  <2>2. StreamOK'
    <3>1. open' = [open EXCEPT ![c] = s] /\ key' = [key EXCEPT ![c] = s]
      BY <1>1 DEF Dial
    <3>. HIDE DEF s
    <3>. QED
      BY <2>1, <3>1 DEF TypeOK
  <2>3. FreshOK'
    <3>. SUFFICES ASSUME NEW b \in Connectors, NEW k \in 1..MaxStreams, k > dials'[b]
                  PROVE  pc'[<<b, k>>] = "off"
      OBVIOUS
    <3>1. <<b, k>> # s
      BY <1>1, <2>0 DEF Dial, TypeOK
    <3>2. k > dials[b]
      BY <1>1, ConstantsAssumption DEF Dial, TypeOK
    <3>. QED
      BY <1>1, <3>1, <3>2 DEF Dial, TypeOK, Senders
  <2>. QED
    BY <2>2, <2>3
<1>2. ASSUME NEW c \in Connectors, Drop(c) \/ Receive(c) \/ StaleTick(c)
      PROVE  StreamOK' /\ FreshOK'
  <2>1. CASE Drop(c)
    BY <2>1 DEF Drop, serverVars, TypeOK
  <2>2. CASE Receive(c) \/ StaleTick(c)
    BY <2>2 DEF Receive, StaleTick, serverVars, connVars
  <2>. QED
    BY <1>2, <2>1, <2>2
<1>3. ASSUME NEW p \in Senders, pc[p] # "off", UNCHANGED connVars,
             NEW x, pc' = [pc EXCEPT ![p] = x]
      PROVE  StreamOK' /\ FreshOK'
  BY <1>3 DEF connVars, TypeOK, Senders
<1>4. ASSUME NEW n \in Notifiers, UNCHANGED connVars,
             NEW x, pc' = [pc EXCEPT ![n] = x]
      PROVE  StreamOK' /\ FreshOK'
  BY <1>4, ConstantsAssumption DEF connVars, TypeOK, Senders
<1>5. ASSUME NEW s \in Streams, Register(s) \/ MarkOnline(s) \/ RecvFails(s) \/ RemoveClient(s)
      PROVE  StreamOK' /\ FreshOK'
  BY <1>3, <1>5 DEF Register, MarkOnline, RecvFails, RemoveClient, Senders
<1>6. ASSUME NEW s \in Streams, InitialRead(s) PROVE StreamOK' /\ FreshOK'
  BY <1>3, <1>6 DEF InitialRead, ReadResources, Senders
<1>7. ASSUME NEW s \in Streams, Heartbeat(s) PROVE StreamOK' /\ FreshOK'
  BY <1>7 DEF Heartbeat, connVars
<1>8. ASSUME NEW p \in Senders, SelectVersion(p) \/ UpsertVersion(p)
      PROVE  StreamOK' /\ FreshOK'
  BY <1>3, <1>8 DEF SelectVersion, UpsertVersion
<1>9. ASSUME NEW p \in Senders, Send(p) PROVE StreamOK' /\ FreshOK'
  BY <1>3, <1>9 DEF Send
<1>10. ASSUME NEW n \in Notifiers, Edit(n) \/ CopyClients(n) PROVE StreamOK' /\ FreshOK'
  BY <1>4, <1>10 DEF Edit, CopyClients
<1>11. ASSUME NEW n \in Notifiers, BroadcastRead(n) PROVE StreamOK' /\ FreshOK'
  BY <1>4, <1>11 DEF BroadcastRead, ReadResources
<1>14. ASSUME NEW s \in Streams, InitialSkip(s) PROVE StreamOK' /\ FreshOK'
  BY <1>3, <1>14 DEF InitialSkip, GiveUp, Senders
<1>15. ASSUME NEW n \in Notifiers, BroadcastSkip(n) PROVE StreamOK' /\ FreshOK'
  BY <1>4, <1>15 DEF BroadcastSkip, GiveUp
<1>12. ASSUME Restart PROVE StreamOK' /\ FreshOK'
  BY <1>12 DEF Restart, TypeOK, Senders
<1>13. ASSUME UNCHANGED vars PROVE StreamOK' /\ FreshOK'
  BY <1>13 DEF vars, serverVars, connVars
<1>. QED
  BY StepCases, <1>1, <1>2, <1>5, <1>6, <1>7, <1>8, <1>9, <1>10, <1>11, <1>12, <1>13,
     <1>14, <1>15

\* A snapshot is signed for the stream it is put on, and stays on that stream.
LEMMA WireStep == TypeOK /\ DraftOK /\ WireOK /\ [Next]_vars => WireOK'
<1>. SUFFICES ASSUME TypeOK, DraftOK, WireOK, [Next]_vars PROVE WireOK'
  OBVIOUS
<1>1. ASSUME UNCHANGED wire PROVE WireOK'
  BY <1>1 DEF WireOK
<1>2. ASSUME NEW c \in Connectors, Drop(c) PROVE WireOK'
  BY <1>2 DEF Drop, WireOK, TypeOK
<1>3. ASSUME NEW c \in Connectors, Receive(c) PROVE WireOK'
  <2>1. open[c] \in Streams /\ wire[open[c]] \in Seq(Snapshots) /\ wire[open[c]] # <<>>
    BY <1>3 DEF Receive, TypeOK
  <2>2. \A i \in 1..Len(Tail(wire[open[c]])) :
          Tail(wire[open[c]])[i].key = open[c]
    BY <2>1 DEF WireOK
  <2>. QED
    BY <1>3, <2>1, <2>2 DEF Receive, WireOK, TypeOK
<1>4. ASSUME NEW p \in Senders, Send(p) PROVE WireOK'
  <2>. DEFINE d == draft[p]
              m == [rev |-> d.rev, res |-> d.res, version |-> d.version, key |-> d.to]
  <2>1. d.to \in Streams
    BY <1>4 DEF Send, DraftOK, Compiling, TypeOK
  <2>2. wire' = wire \/ wire' = [wire EXCEPT ![d.to] = Append(@, m)]
    BY <1>4 DEF Send
  <2>3. wire[d.to] \in Seq(Snapshots) /\ m.key = d.to
    BY <2>1 DEF TypeOK
  <2>. HIDE DEF m
  <2>4. \A i \in 1..Len(Append(wire[d.to], m)) : Append(wire[d.to], m)[i].key = d.to
    BY <2>1, <2>3 DEF WireOK
  <2>. QED
    BY <2>1, <2>2, <2>4 DEF WireOK, TypeOK
<1>5. ASSUME Restart PROVE WireOK'
  BY <1>5 DEF Restart, WireOK
<1>6. \/ UNCHANGED wire
      \/ \E c \in Connectors : Drop(c) \/ Receive(c)
      \/ \E p \in Senders : Send(p)
      \/ Restart
  BY StepCases DEF Dial, StaleTick, Register, InitialRead, MarkOnline, Heartbeat,
     RecvFails, RemoveClient, SelectVersion, UpsertVersion, Edit, CopyClients,
     BroadcastRead, InitialSkip, BroadcastSkip, vars
<1>. QED
  BY <1>1, <1>2, <1>3, <1>4, <1>5, <1>6

\* No snapshot is newer than the last edit; a returned notifier has no debts.
LEMMA RevTodoStep ==
  TypeOK /\ RevOK /\ TodoOK /\ [Next]_vars => RevOK' /\ TodoOK'
<1>. SUFFICES ASSUME TypeOK, RevOK, TodoOK, [Next]_vars PROVE RevOK' /\ TodoOK'
  OBVIOUS
<1>0. edits \in Nat /\ 0 <= edits /\ Revs \subseteq Nat
  BY ConstantsAssumption DEF TypeOK, Revs
<1>. USE <1>0 DEF RevOK, TodoOK
<1>1. ASSUME NEW c \in Connectors, Dial(c) PROVE RevOK' /\ TodoOK'
  <2>1. <<c, dials[c] + 1>> \in Streams
    BY <1>1, StreamFacts, ConstantsAssumption DEF Dial, TypeOK
  <2>. QED
    BY <1>1, <2>1, ConstantsAssumption DEF Dial, TypeOK, Senders
<1>2. ASSUME NEW c \in Connectors, Drop(c) \/ Receive(c) \/ StaleTick(c)
      PROVE  RevOK' /\ TodoOK'
  BY <1>2 DEF Drop, Receive, StaleTick, serverVars
<1>3. ASSUME NEW s \in Streams, Register(s) \/ MarkOnline(s) \/ RecvFails(s) \/ RemoveClient(s)
      PROVE  RevOK' /\ TodoOK'
  <2>1. \A n \in Notifiers : pc'[n] = pc[n]
    BY <1>3, ConstantsAssumption
       DEF Register, MarkOnline, RecvFails, RemoveClient, TypeOK, Senders
  <2>2. UNCHANGED <<newest, skipped, edits, draft, todo>>
    BY <1>3 DEF Register, MarkOnline, RecvFails, RemoveClient
  <2>. QED
    BY <2>1, <2>2
<1>4. ASSUME NEW s \in Streams, InitialRead(s) PROVE RevOK' /\ TodoOK'
  BY <1>4, ConstantsAssumption DEF InitialRead, ReadResources, TypeOK, Senders
<1>5. ASSUME NEW s \in Streams, Heartbeat(s) PROVE RevOK' /\ TodoOK'
  BY <1>5 DEF Heartbeat
<1>6. ASSUME NEW p \in Senders, SelectVersion(p) PROVE RevOK' /\ TodoOK'
  <2>1. \A q \in Senders : draft'[q].rev = draft[q].rev
    BY <1>6 DEF SelectVersion, WithVersion, TypeOK
  <2>2. newest' = newest /\ skipped' = skipped /\ edits' = edits
    BY <1>6 DEF SelectVersion
  <2>3. TodoOK'
    BY <1>6 DEF SelectVersion, TypeOK, Senders
  <2>. QED
    BY <2>1, <2>2, <2>3
<1>7. ASSUME NEW p \in Senders, UpsertVersion(p) PROVE RevOK' /\ TodoOK'
  BY <1>7 DEF UpsertVersion, TypeOK, Senders
<1>8. ASSUME NEW p \in Senders, Send(p) PROVE RevOK' /\ TodoOK'
  <2>1. \A s \in Streams : newest'[s] = newest[s] \/ newest'[s] = draft[p].rev
    BY <1>8 DEF Send, TypeOK
  <2>2. \A q \in Senders : draft'[q].rev = draft[q].rev \/ draft'[q].rev = 0
    BY <1>8 DEF Send, TypeOK, NoDraft
  <2>3. TodoOK'
    BY <1>8, ConstantsAssumption DEF Send, AfterSnapshot, TypeOK, Senders
  <2>4. edits' = edits /\ skipped' = skipped
    BY <1>8 DEF Send
  <2>. QED
    BY <2>1, <2>2, <2>3, <2>4
<1>9. ASSUME NEW n \in Notifiers, Edit(n) PROVE RevOK' /\ TodoOK'
  <2>1. \A s \in Streams : newest[s] \in Nat /\ skipped[s] \in Nat
    BY DEF TypeOK
  <2>2. \A p \in Senders : draft[p].rev \in Nat
    BY DEF TypeOK, Drafts
  <2>3. /\ edits' = edits + 1 /\ newest' = newest /\ skipped' = skipped
        /\ draft' = draft /\ todo' = todo
    BY <1>9 DEF Edit
  <2>4. TodoOK'
    BY <1>9 DEF Edit, TypeOK, Senders
  <2>5. \A s \in Streams : newest'[s] <= edits' /\ skipped'[s] <= edits'
    BY <2>1, <2>3
  <2>6. \A p \in Senders : draft'[p].rev <= edits'
    BY <2>2, <2>3
  <2>. QED
    BY <2>4, <2>5, <2>6
<1>10. ASSUME NEW n \in Notifiers, CopyClients(n) PROVE RevOK' /\ TodoOK'
  BY <1>10 DEF CopyClients, TypeOK, Senders
<1>11. ASSUME NEW n \in Notifiers, BroadcastRead(n) PROVE RevOK' /\ TodoOK'
  <2>1. PICK s \in todo[n] : ReadResources(n, s) /\ todo' = [todo EXCEPT ![n] = @ \ {s}]
    BY <1>11 DEF BroadcastRead
  <2>2. TodoOK'
    BY <2>1 DEF ReadResources, TypeOK, Senders
  <2>3. RevOK'
    BY <1>11, <2>1 DEF BroadcastRead, ReadResources, TypeOK, Senders
  <2>. QED
    BY <2>2, <2>3
<1>14. ASSUME NEW s \in Streams, skipped' = [skipped EXCEPT ![s] = edits],
              newest' = newest, edits' = edits, draft' = draft
       PROVE  RevOK'
  BY <1>14 DEF TypeOK
<1>15. ASSUME NEW s \in Streams, InitialSkip(s) PROVE RevOK' /\ TodoOK'
  <2>1. RevOK'
    BY <1>14, <1>15 DEF InitialSkip, GiveUp
  <2>2. TodoOK'
    BY <1>15, ConstantsAssumption DEF InitialSkip, GiveUp, TypeOK, Senders
  <2>. QED
    BY <2>1, <2>2
<1>16. ASSUME NEW n \in Notifiers, BroadcastSkip(n) PROVE RevOK' /\ TodoOK'
  <2>1. PICK s \in todo[n] : GiveUp(n, s, todo[n] \ {s}) /\ todo' = [todo EXCEPT ![n] = @ \ {s}]
    BY <1>16 DEF BroadcastSkip
  <2>2. s \in Streams
    BY <2>1 DEF TypeOK
  <2>3. RevOK'
    BY <1>14, <1>16, <2>1, <2>2 DEF BroadcastSkip, GiveUp
  <2>4. TodoOK'
    BY <2>1, ConstantsAssumption DEF GiveUp, AfterSnapshot, TypeOK, Senders
  <2>. QED
    BY <2>3, <2>4
<1>12. ASSUME Restart PROVE RevOK' /\ TodoOK'
  BY <1>12 DEF Restart, NoDraft
<1>13. ASSUME UNCHANGED vars PROVE RevOK' /\ TodoOK'
  BY <1>13 DEF vars, serverVars
<1>. QED
  BY StepCases, <1>1, <1>2, <1>3, <1>4, <1>5, <1>6, <1>7, <1>8, <1>9, <1>10, <1>11,
     <1>12, <1>13, <1>15, <1>16

\* The map only holds clients of goroutines that will remove them.
LEMMA GhostStep ==
  TypeOK /\ FreshOK /\ NoGhostClient /\ [Next]_vars => NoGhostClient'
<1>. SUFFICES ASSUME TypeOK, FreshOK, NoGhostClient, [Next]_vars PROVE NoGhostClient'
  OBVIOUS
<1>. USE StreamFacts DEF NoGhostClient
<1>1. ASSUME NEW c \in Connectors, Dial(c) PROVE NoGhostClient'
  <2>1. dials[c] + 1 \in 1..MaxStreams /\ dials[c] + 1 > dials[c]
    BY <1>1, ConstantsAssumption DEF Dial, TypeOK
  <2>2. <<c, dials[c] + 1>> \in Streams /\ pc[<<c, dials[c] + 1>>] = "off"
    BY <2>1 DEF FreshOK
  <2>. QED
    BY <1>1, <2>2 DEF Dial, TypeOK, Senders
<1>2. ASSUME UNCHANGED <<clients, pc>> PROVE NoGhostClient'
  BY <1>2
<1>3. ASSUME NEW s \in Streams, Register(s) \/ RemoveClient(s) PROVE NoGhostClient'
  <2>. SUFFICES ASSUME NEW t \in Streams, clients'[Owner(t)] = t
                PROVE  pc'[t] \notin {"off", "accepted", "done"}
    OBVIOUS
  <2>1. CASE t = s
    BY <1>3, <2>1, ConstantsAssumption DEF Register, RemoveClient, TypeOK, Senders
  <2>2. CASE t # s
    <3>1. pc'[t] = pc[t]
      BY <1>3, <2>2 DEF Register, RemoveClient, TypeOK, Senders
    <3>2. Owner(t) # Owner(s)
      BY <1>3, <2>2, ConstantsAssumption DEF Register, RemoveClient, TypeOK
    <3>3. clients[Owner(t)] = t
      BY <1>3, <3>2 DEF Register, RemoveClient, TypeOK
    <3>. QED
      BY <3>1, <3>3
  <2>. QED
    BY <2>1, <2>2
<1>4. ASSUME NEW s \in Streams, MarkOnline(s) \/ RecvFails(s) PROVE NoGhostClient'
  BY <1>4 DEF MarkOnline, RecvFails, TypeOK, Senders
<1>5. ASSUME NEW s \in Streams, InitialRead(s) PROVE NoGhostClient'
  BY <1>5 DEF InitialRead, ReadResources, TypeOK, Senders
<1>6. ASSUME NEW p \in Senders, SelectVersion(p) \/ UpsertVersion(p) PROVE NoGhostClient'
  BY <1>6 DEF SelectVersion, UpsertVersion, TypeOK, Senders
<1>7. ASSUME NEW p \in Senders, Send(p) PROVE NoGhostClient'
  <2>1. clients' = clients
    BY <1>7 DEF Send
  <2>2. \A s \in Streams : pc'[s] = pc[s] \/ pc'[s] = "online"
    BY <1>7, ConstantsAssumption DEF Send, AfterSnapshot, TypeOK, Senders
  <2>. QED
    BY <2>1, <2>2
<1>8. ASSUME NEW n \in Notifiers, Edit(n) \/ CopyClients(n) PROVE NoGhostClient'
  BY <1>8, ConstantsAssumption DEF Edit, CopyClients, TypeOK, Senders
<1>9. ASSUME NEW n \in Notifiers, BroadcastRead(n) PROVE NoGhostClient'
  BY <1>9, ConstantsAssumption DEF BroadcastRead, ReadResources, TypeOK, Senders
<1>12. ASSUME NEW s \in Streams, InitialSkip(s) PROVE NoGhostClient'
  BY <1>12 DEF InitialSkip, GiveUp, AfterSnapshot, TypeOK, Senders
<1>13. ASSUME NEW n \in Notifiers, BroadcastSkip(n) PROVE NoGhostClient'
  <2>1. clients' = clients /\ \A s \in Streams : pc'[s] = pc[s]
    BY <1>13, ConstantsAssumption DEF BroadcastSkip, GiveUp, TypeOK, Senders
  <2>. QED
    BY <2>1
<1>10. ASSUME Restart PROVE NoGhostClient'
  BY <1>10, ConstantsAssumption DEF Restart
<1>11. \/ \E c \in Connectors : Dial(c)
       \/ UNCHANGED <<clients, pc>>
       \/ \E s \in Streams : \/ Register(s) \/ RemoveClient(s) \/ MarkOnline(s)
                             \/ RecvFails(s) \/ InitialRead(s) \/ InitialSkip(s)
       \/ \E p \in Senders : SelectVersion(p) \/ UpsertVersion(p) \/ Send(p)
       \/ \E n \in Notifiers : Edit(n) \/ CopyClients(n) \/ BroadcastRead(n) \/ BroadcastSkip(n)
       \/ Restart
  BY StepCases DEF Drop, Receive, StaleTick, Heartbeat, vars, serverVars
<1>. QED
  BY <1>1, <1>2, <1>3, <1>4, <1>5, <1>6, <1>7, <1>8, <1>9, <1>10, <1>11, <1>12, <1>13

\* The heart of NoMissedEdit: a registered live stream keeps having, or keeps
\* being owed, the current policy.
LEMMA OwedStep ==
  IInv /\ [Next]_vars => OwedOK'
<1>. SUFFICES ASSUME IInv, [Next]_vars,
                     NEW s \in Streams, clients'[Owner(s)] = s, Live(s)'
              PROVE  Settled(s)' \/ Owed(s)'
  BY DEF OwedOK
<1>0. /\ TypeOK /\ DraftOK /\ FreshOK /\ RevOK /\ NoGhostClient /\ OwedOK
      /\ Owner(s) \in Connectors /\ s \in Senders /\ s # NoStream
      /\ \A n \in Notifiers : n \in Senders /\ n \notin Streams
      /\ edits \in Nat
  BY StreamFacts, ConstantsAssumption DEF IInv, Senders, TypeOK, Revs
<1>. USE <1>0 DEF Settled
\* Steps that neither create nor settle a debt to s.
<1>1. ASSUME clients[Owner(s)] = s, Live(s), newest'[s] = newest[s], skipped'[s] = skipped[s],
             edits' = edits,
             pc'[s] = pc[s], draft'[s] = draft[s],
             \A n \in Notifiers : pc'[n] = pc[n] /\ draft'[n] = draft[n],
             todo' = todo
      PROVE  Settled(s)' \/ Owed(s)'
  BY <1>1 DEF OwedOK, Owed, Carries
<1>2. ASSUME NEW c \in Connectors, Dial(c) PROVE Settled(s)' \/ Owed(s)'
  <2>. DEFINE t == <<c, dials[c] + 1>>
  <2>1. dials[c] + 1 \in 1..MaxStreams /\ dials[c] + 1 > dials[c]
    BY <1>2, ConstantsAssumption DEF Dial, TypeOK
  <2>2. t \in Streams /\ pc[t] = "off" /\ Owner(t) = c
    BY <2>1, StreamFacts DEF FreshOK
  <2>3. /\ open' = [open EXCEPT ![c] = t] /\ pc' = [pc EXCEPT ![t] = "accepted"]
        /\ UNCHANGED <<clients, newest, skipped, edits, draft, todo>>
    BY <1>2 DEF Dial
  <2>. HIDE DEF t
  <2>4. s # t
    BY <2>2, <2>3 DEF NoGhostClient
  <2>5. Live(s)
    BY <2>2, <2>3, <2>4 DEF Live, TypeOK
  <2>. QED
    BY <1>1, <2>2, <2>3, <2>4, <2>5 DEF TypeOK
<1>3. ASSUME NEW c \in Connectors, Drop(c) PROVE Settled(s)' \/ Owed(s)'
  <2>1. Live(s)
    BY <1>3 DEF Drop, Live, TypeOK
  <2>. QED
    BY <1>1, <1>3, <2>1 DEF Drop, serverVars
<1>4. ASSUME NEW c \in Connectors, Receive(c) \/ StaleTick(c)
      PROVE  Settled(s)' \/ Owed(s)'
  BY <1>1, <1>4 DEF Receive, StaleTick, serverVars, connVars, Live
<1>5. ASSUME NEW r \in Streams, Register(r) PROVE Settled(s)' \/ Owed(s)'
  <2>1. CASE r = s
    BY <1>5, <2>1 DEF Register, Owed, TypeOK
  <2>2. CASE r # s
    <3>1. clients[Owner(s)] = s
      BY <1>5, <2>2 DEF Register, TypeOK
    <3>. QED
      BY <1>1, <1>5, <2>2, <3>1 DEF Register, TypeOK, connVars, Live
  <2>. QED
    BY <2>1, <2>2
<1>6. ASSUME NEW r \in Streams, InitialRead(r) PROVE Settled(s)' \/ Owed(s)'
  <2>1. CASE r = s
    BY <1>6, <2>1 DEF InitialRead, ReadResources, Owed, Carries, Compiling, TypeOK
  <2>2. CASE r # s
    BY <1>1, <1>6, <2>2 DEF InitialRead, ReadResources, TypeOK, connVars, Live
  <2>. QED
    BY <2>1, <2>2
<1>7. ASSUME NEW r \in Streams, MarkOnline(r) \/ RecvFails(r) \/ RemoveClient(r)
      PROVE  Settled(s)' \/ Owed(s)'
  <2>1. /\ clients[Owner(s)] = s /\ Live(s)
        /\ UNCHANGED <<newest, skipped, edits, draft, todo>>
        /\ \A n \in Notifiers : pc'[n] = pc[n]
    BY <1>7 DEF MarkOnline, RecvFails, RemoveClient, connVars, Live, TypeOK
  <2>2. CASE r = s
    <3>1. pc[s] \notin Compiling /\ pc[s] # "read"
      BY <1>7, <2>2 DEF MarkOnline, RecvFails, RemoveClient, Compiling
    <3>. QED
      BY <2>1, <3>1 DEF OwedOK, Owed, Carries
  <2>3. CASE r # s
    BY <1>1, <1>7, <2>1, <2>3 DEF MarkOnline, RecvFails, RemoveClient, TypeOK
  <2>. QED
    BY <2>2, <2>3
<1>8. ASSUME NEW r \in Streams, Heartbeat(r) PROVE Settled(s)' \/ Owed(s)'
  BY <1>1, <1>8 DEF Heartbeat, connVars, Live
<1>9. ASSUME NEW p \in Senders, SelectVersion(p) \/ UpsertVersion(p)
      PROVE  Settled(s)' \/ Owed(s)'
  <2>1. /\ clients[Owner(s)] = s /\ Live(s) /\ UNCHANGED <<newest, skipped, edits, todo>>
    BY <1>9 DEF SelectVersion, UpsertVersion, connVars, Live
  <2>2. \A q \in Senders : draft'[q].to = draft[q].to /\ draft'[q].rev = draft[q].rev
    <3>1. CASE SelectVersion(p)
      BY <3>1 DEF SelectVersion, WithVersion, TypeOK
    <3>2. CASE UpsertVersion(p)
      BY <3>2 DEF UpsertVersion
    <3>. QED
      BY <1>9, <3>1, <3>2
  <2>3. \A q \in Senders : /\ pc[q] \in Compiling => pc'[q] \in Compiling
                           /\ pc[q] \in {"read", "notify"} => pc'[q] = pc[q]
    BY <1>9 DEF SelectVersion, UpsertVersion, Compiling, TypeOK
  <2>. QED
    BY <2>1, <2>2, <2>3 DEF OwedOK, Owed, Carries
<1>10. ASSUME NEW p \in Senders, Send(p) PROVE Settled(s)' \/ Owed(s)'
  <2>1. /\ clients[Owner(s)] = s /\ Live(s) /\ UNCHANGED <<skipped, edits, todo>>
    BY <1>10 DEF Send, connVars, Live
  <2>2. \A q \in Senders : q # p => pc'[q] = pc[q] /\ draft'[q] = draft[q]
    BY <1>10 DEF Send, TypeOK
  <2>3. newest[s] \in Nat /\ draft[p].rev \in Nat /\ newest[s] <= edits /\ draft[p].rev <= edits
    BY ConstantsAssumption DEF TypeOK, RevOK, Drafts, Revs
  <2>4. newest'[s] = IF draft[p].to = s /\ draft[p].rev > newest[s]
                     THEN draft[p].rev ELSE newest[s]
    BY <1>10, <2>1 DEF Send, TypeOK
  <2>5. CASE Settled(s) \/ Carries(p, s)
    <3>1. newest'[s] = edits \/ skipped[s] = edits
      BY <2>3, <2>4, <2>5 DEF Carries
    <3>. QED
      BY <2>1, <3>1
  <2>6. CASE ~(Settled(s) \/ Carries(p, s))
    <3>1. pc[p] = "send"
      BY <1>10 DEF Send
    <3>2. Owed(s)
      BY <2>1, <2>6 DEF OwedOK
    <3>. QED
      BY <2>1, <2>2, <2>6, <3>1, <3>2 DEF Owed, Carries
  <2>. QED
    BY <2>5, <2>6
<1>11. ASSUME NEW n \in Notifiers, Edit(n) PROVE Settled(s)' \/ Owed(s)'
  BY <1>11 DEF Edit, Owed, TypeOK
<1>12. ASSUME NEW n \in Notifiers, CopyClients(n) PROVE Settled(s)' \/ Owed(s)'
  <2>1. s \in Registered
    BY <1>12 DEF CopyClients, Registered
  <2>2. s \in todo'[n]
    BY <1>12, <2>1 DEF CopyClients, TypeOK
  <2>. QED
    BY <2>2 DEF Owed
<1>13. ASSUME NEW n \in Notifiers, BroadcastRead(n) PROVE Settled(s)' \/ Owed(s)'
  <2>1. PICK t \in todo[n] : ReadResources(n, t) /\ todo' = [todo EXCEPT ![n] = @ \ {t}]
    BY <1>13 DEF BroadcastRead
  <2>2. /\ clients[Owner(s)] = s /\ Live(s) /\ UNCHANGED <<newest, skipped, edits>> /\ pc[n] = "read"
    BY <1>13 DEF BroadcastRead, connVars, Live
  <2>3. \A q \in Senders : q # n => pc'[q] = pc[q] /\ draft'[q] = draft[q]
    BY <2>1 DEF ReadResources, TypeOK
  <2>4. CASE t = s
    <3>1. Carries(n, s)'
      BY <2>1, <2>2, <2>4 DEF ReadResources, Carries, Compiling, TypeOK
    <3>. QED
      BY <3>1 DEF Owed
  <2>5. CASE t # s
    <3>1. \A m \in Notifiers : s \in todo[m] => s \in todo'[m]
      BY <2>1, <2>5 DEF TypeOK
    <3>. QED
      BY <2>2, <2>3, <3>1 DEF OwedOK, Owed, Carries, Compiling
  <2>. QED
    BY <2>4, <2>5
<1>16. ASSUME NEW r \in Streams, InitialSkip(r) PROVE Settled(s)' \/ Owed(s)'
  <2>1. /\ clients[Owner(s)] = s /\ Live(s) /\ UNCHANGED <<newest, edits, draft, todo>>
        /\ skipped' = [skipped EXCEPT ![r] = edits] /\ pc' = [pc EXCEPT ![r] = "online"]
    BY <1>16 DEF InitialSkip, GiveUp, AfterSnapshot, connVars, Live
  <2>2. CASE r = s
    BY <2>1, <2>2 DEF TypeOK
  <2>3. CASE r # s
    BY <1>1, <2>1, <2>3 DEF TypeOK
  <2>. QED
    BY <2>2, <2>3
<1>17. ASSUME NEW n \in Notifiers, BroadcastSkip(n) PROVE Settled(s)' \/ Owed(s)'
  <2>1. PICK t \in todo[n] : GiveUp(n, t, todo[n] \ {t}) /\ todo' = [todo EXCEPT ![n] = @ \ {t}]
    BY <1>17 DEF BroadcastSkip
  <2>2. /\ clients[Owner(s)] = s /\ Live(s) /\ UNCHANGED <<newest, edits, draft>> /\ pc[n] = "read"
    BY <1>17 DEF BroadcastSkip, connVars, Live
  <2>3. t \in Streams /\ skipped' = [skipped EXCEPT ![t] = edits] /\ \A q \in Senders : q # n => pc'[q] = pc[q]
    BY <2>1 DEF GiveUp, TypeOK
  <2>4. CASE t = s
    BY <2>2, <2>3, <2>4 DEF TypeOK
  <2>5. CASE t # s
    <3>1. \A m \in Notifiers : s \in todo[m] => s \in todo'[m]
      BY <2>1, <2>5 DEF TypeOK
    <3>2. skipped'[s] = skipped[s]
      BY <2>3, <2>5 DEF TypeOK
    <3>. QED
      BY <2>2, <2>3, <3>1, <3>2 DEF OwedOK, Owed, Carries, Compiling
  <2>. QED
    BY <2>4, <2>5
<1>14. ASSUME Restart PROVE Settled(s)' \/ Owed(s)'
  BY <1>14 DEF Restart
<1>15. ASSUME UNCHANGED vars PROVE Settled(s)' \/ Owed(s)'
  BY <1>1, <1>15 DEF vars, serverVars, connVars, Live
<1>. QED
  BY StepCases, <1>2, <1>3, <1>4, <1>5, <1>6, <1>7, <1>8, <1>9, <1>10, <1>11, <1>12,
     <1>13, <1>14, <1>15, <1>16, <1>17

\* The inductive invariant holds initially.
LEMMA InitInv == Init => IInv
<1>. SUFFICES ASSUME Init PROVE IInv
  OBVIOUS
<1>1. TypeOK
  BY InitType
<1>2. DraftOK /\ StreamOK /\ WireOK /\ TodoOK
  BY DEF Init, DraftOK, StreamOK, WireOK, TodoOK, Compiling
<1>3. FreshOK
  BY StreamFacts DEF Init, FreshOK, Senders
<1>4. RevOK
  BY DEF Init, RevOK, NoDraft
<1>5. NoGhostClient /\ OwedOK
  BY StreamFacts, ConstantsAssumption DEF Init, NoGhostClient, OwedOK
<1>. QED
  BY <1>1, <1>2, <1>3, <1>4, <1>5 DEF IInv

\* IInv is an invariant of the specification.
LEMMA Invariance == Spec => []IInv
<1>1. IInv /\ [Next]_vars => IInv'
  BY TypeStep, DraftStep, StreamStep, WireStep, RevTodoStep, GhostStep, OwedStep DEF IInv
<1>. QED
  BY InitInv, <1>1, PTL DEF Spec

\* Type correctness of the control plane.
THEOREM TypeCorrect == Spec => []TypeOK
<1>1. IInv => TypeOK
  BY DEF IInv
<1>. QED
  BY Invariance, <1>1, PTL

\* However handlers, broadcasts, redials and restarts interleave, no edit is
\* missed by a registered live stream, unless its snapshot is given up with a log
\* line: addClient before the first compile, and the commit before the copy of
\* the client list, are enough.
THEOREM NoMissedEditTheorem == Spec => []NoMissedEdit
<1>1. IInv => NoMissedEdit
  <2>. SUFFICES ASSUME IInv, NEW s \in Streams, clients[Owner(s)] = s, Live(s), Quiet,
                       pc[s] \in {"online", "recv"}
                PROVE  Settled(s)
    BY DEF NoMissedEdit
  <2>1. ~Owed(s)
    BY DEF IInv, TodoOK, Quiet, Owed, Carries, Compiling
  <2>. QED
    BY <2>1 DEF IInv, OwedOK
<1>. QED
  BY Invariance, <1>1, PTL

\* The clients map never holds the client of a Connect that has returned.
THEOREM NoGhostClientTheorem == Spec => []NoGhostClient
<1>1. IInv => NoGhostClient
  BY DEF IInv
<1>. QED
  BY Invariance, <1>1, PTL

\* No snapshot that reaches a connector is rejected for its signature.
THEOREM NeverRejectedTheorem == Spec => []NeverRejected
<1>1. IInv => NeverRejected
  BY DEF IInv, TypeOK, StreamOK, WireOK, NeverRejected, Verifies
<1>. QED
  BY Invariance, <1>1, PTL

-----------------------------------------------------------------------------
(***************************************************************************)
(* Proofs about GroupPages, the console's pages on the groups and users a  *)
(* policy is made of, for any users, groups, resources and bounds.         *)
(***************************************************************************)

-----------------------------------------------------------------------------
(* The shape of the state.                                                 *)

\* What a page shows or was sent; the page of a group shows users.
ViewOK(v, name) ==
    /\ v \in [found : BOOLEAN, items : {v.items}, res : {v.res}]
    /\ name = "group" => v.items \subseteq Users

\* A request is a record with these fields,
Fields(f) ==
    f \in [kind : {f.kind}, g : {f.g}, u : {f.u}, n : {f.n}, todo : {f.todo}, then : {f.then}, status : {f.status},
           kept : BOOLEAN, got : {f.got}, st : {f.st}, at : {f.at}]

\* and what it is about and sends fits its kind.
RequestOK(f) ==
    /\ Fields(f) /\ f.kind \in GroupCalls \cup MemberCalls \cup UserCalls \cup Reads
    /\ f.st \in {"sent", "ok", "failed"} /\ f.at \in {"here", "page", "gone"}
    /\ f.at = "gone" => f.st = "sent"
    /\ f.kind \in GroupCalls \cup MemberCalls => f.g \in Groups
    /\ f.kind = "addGroupResources" => f.u \in Resources
    /\ f.kind \in UserCalls \cup {"getUser", "refresh", "removeGroupMember"} => f.u \in Users
    /\ f.kind \in {"addUser", "updateUser"} => f.status \in Statuses
    /\ f.todo \subseteq Users

\* Requests whose continuation will run are of the page that is shown.
OfPage(f) ==
    /\ f.at # "gone" => /\ f.kind \in MemberCalls \cup {"getUser", "refresh"} => page.name = "group"
                        /\ f.kind \in MemberCalls => f.g = page.group
                        /\ page.name = "group" => f.then \subseteq Users
    /\ f.kind = "load" => ViewOK(f.got, page.name)

PageOK ==
    /\ page.name = "group" => page.group \in Groups
    /\ ViewOK(shown, page.name)
    /\ modal.kind = "updateGroup" => modal.item \in Groups
    /\ modal.kind = "updateUser" => modal.item \in Users

Histories == [ops : Nat, other : Nat, overlap : BOOLEAN, failed : BOOLEAN, surprise : SUBSET Users, lost : SUBSET Users,
              flipped : BOOLEAN]

Shapes ==
    /\ GroupTypeOK /\ PageOK
    /\ \A f \in flights : RequestOK(f) /\ OfPage(f)
    /\ hist \in Histories /\ (~hist.failed => hist.lost = {})

-----------------------------------------------------------------------------
(* An administrator who waits for answers.                                 *)

\* has one request outstanding at most, of the page that is shown, and no
\* dialog open but the one that made it,
OneRequest ==
    ~hist.overlap => /\ \A f, g \in flights : f = g
                     /\ \A f \in flights : /\ f.at = "here" /\ (f.st = "failed" => hist.failed)
                                           /\ modal.kind \in {None, f.kind}

\* The members of the group whose page is open.
InGroup == { u \in Present : << page.group, u >> \in member }

\* Those the page may take for its members: the answer to a removal of the
\* others was lost.
Known == InGroup \cup hist.lost

\* works on a group that exists and shows none but these.  A request to
\* add members names them and users that were picked; those it has dealt
\* with are members.
AloneReq(f) ==
    /\ (f.kind = "load" /\ page.name = "group" /\ f.got.found) => page.group \in LiveGroups /\ f.got.items \subseteq Known
    /\ f.kind = "deleteGroup" => page.name = "groups"
    /\ f.kind = "updateGroupMembers" =>
          /\ page.name = "group" /\ page.group \in LiveGroups /\ f.g = page.group
          /\ f.then \subseteq Present \cup hist.lost /\ f.todo \subseteq f.then /\ f.then \ f.todo \subseteq Known
          /\ f.then \ f.got.items \subseteq Known
          /\ f.st = "ok" => f.todo = {}
    /\ (f.kind \in {"removeGroupMember", "deleteUser"} /\ page.name = "group") =>
          f.then \subseteq Known /\ f.u \notin f.then
    /\ (f.kind \in {"updateUser", "refresh"} /\ page.name = "group" /\ shown.found) => f.then \subseteq Known

\* A removal the controller has carried out and the page does not know of.
Removed(f) == Removal(f) /\ f.st = "ok"

Sound ==
    /\ hist.surprise \subseteq hist.lost
    /\ \A m \in member : m[1] \in LiveGroups /\ m[2] \in Present \cup hist.lost
    /\ (page.name = "group" /\ shown.found) => page.group \in LiveGroups
    /\ (page.name = "group" /\ shown.found) =>
          \A u \in shown.items : u \in Known \/ \E f \in flights : Removed(f) /\ f.u = u
    /\ modal.kind = "updateGroupMembers" => modal.subjects \subseteq Present
    /\ \A f \in flights : AloneReq(f)
AloneInv == Alone => Sound

\* If nothing fails, what the page shows is what the tables hold, or will be
\* when the answer that is under way is in.
ResOf == { r \in Resources : << page.group, r >> \in grants }
Reads1(f) ==
    /\ f.st # "failed"
    /\ f.kind = "load" /\ f.st = "ok" => f.got = View(page)
    /\ (page.name = "group" /\ shown.found /\ f.kind \notin {"load", "addGroupResources"}) => shown.res = ResOf
    /\ f.kind = "updateGroupMembers" => InGroup \subseteq f.then
    /\ (f.kind \in {"removeGroupMember", "deleteUser"} /\ page.name = "group") =>
          f.then = InGroup \ {f.u} /\ (f.st = "ok" => f.u \notin InGroup)
    /\ (f.kind \in {"deactivateUser", "getUser"} /\ page.name = "group" /\ shown.found) => shown.items = InGroup
    /\ (f.kind \in {"updateUser", "refresh"} /\ page.name = "group" /\ shown.found) => f.then = InGroup
True1 == PageInStep /\ \A f \in flights : Reads1(f)
TrueInv == Calm => True1

\* The dialog on a user starts from what the table holds.
Change(f) ==
    /\ f.kind = "getUser" /\ f.st = "ok" => f.status = users[f.u]
    /\ f.kind = "updateUser" /\ f.st = "sent" /\ f.kept => f.status = users[f.u]
Change1 ==
    /\ ~hist.flipped
    /\ \A f \in flights : Change(f)
    /\ modal.kind = "updateUser" /\ flights = {} => modal.status = users[modal.item]
ChangeInv == Calm => Change1

GroupInv == Shapes /\ OneRequest /\ AloneInv /\ TrueInv /\ ChangeInv

-----------------------------------------------------------------------------
(* Requests.                                                               *)

AllCalls == GroupCalls \cup MemberCalls \cup UserCalls \cup Reads

\* What a new request carries.
LEMMA RequestFields ==
  ASSUME NEW kind, NEW g, NEW u, NEW f, f = Request(kind, g, u)
  PROVE  /\ Fields(f) /\ f.kind = kind /\ f.g = g /\ f.u = u /\ f.todo = {} /\ f.then = {} /\ f.status = None
         /\ f.got = Nothing /\ f.st = "sent" /\ f.at = "here"
<1>1. PICK n : f = [kind |-> kind, g |-> g, u |-> u, n |-> n, todo |-> {}, then |-> {}, status |-> None,
                    kept |-> FALSE, got |-> Nothing, st |-> "sent", at |-> "here"]
  BY DEF Request, Call
<1>2. QED BY <1>1 DEF Fields

\* A request to load the page.
NewLoad(f) ==
    /\ RequestOK(f) /\ f.kind = "load" /\ f.st = "sent" /\ f.at = "here" /\ f.then = {} /\ f.got = Nothing

LEMMA LoadForm == ASSUME NEW f, f = Request("load", None, None) PROVE NewLoad(f)
<1>1. /\ Fields(f) /\ f.kind = "load" /\ f.todo = {} /\ f.then = {} /\ f.got = Nothing
      /\ f.st = "sent" /\ f.at = "here"
  BY RequestFields
<1>2. QED BY <1>1 DEF NewLoad, RequestOK, GroupCalls, MemberCalls, UserCalls, Reads

LEMMA NothingOK == ASSUME NEW name PROVE ViewOK(Nothing, name)
  BY DEF ViewOK, Nothing

\* What a page reads.
LEMMA ViewForm ==
  ASSUME Shapes
  PROVE  /\ ViewOK(View(page), page.name)
         /\ page.name = "groups" => View(page) = GroupsView
         /\ page.name = "users" => View(page) = UsersView
         /\ page.name = "group" => View(page) = GroupView(page.group)
<1>1. page.name \in {"groups", "group", "users"}
  BY DEF Shapes, GroupTypeOK
<1>2. page.name = "groups" => View(page) = GroupsView
  BY DEF View
<1>3. page.name = "users" => View(page) = UsersView
  BY DEF View
<1>4. page.name = "group" => View(page) = GroupView(page.group)
  BY DEF View
<1>5. ViewOK(GroupsView, "groups")
  BY DEF ViewOK, GroupsView
<1>6. ViewOK(UsersView, "users")
  BY DEF ViewOK, UsersView
<1>7. ASSUME NEW g PROVE ViewOK(GroupView(g), "group")
  <2>1. CASE g \in LiveGroups
    <3>1. GroupView(g) = [found |-> TRUE, items |-> { u \in Present : << g, u >> \in member },
                        res |-> { r \in Resources : << g, r >> \in grants }]
      BY <2>1 DEF GroupView
    <3>2. QED BY <3>1 DEF ViewOK, Present
  <2>2. CASE g \notin LiveGroups
    BY <2>2, NothingOK DEF GroupView
  <2>3. QED BY <2>1, <2>2
<1>8. QED BY <1>1, <1>2, <1>3, <1>4, <1>5, <1>6, <1>7

-----------------------------------------------------------------------------
(* What the user does.                                                     *)

\* A click sends request f.
Sends(f) ==
    /\ Acts /\ RequestOK(f) /\ OfPage(f) /\ f.st = "sent" /\ f.at = "here" /\ f.kind \notin {"load", "refresh"}
    /\ flights' = flights \cup {f}
    /\ modal'.kind \in {None, f.kind}
    /\ modal' = modal \/ modal'.kind \notin {"updateUser", "updateGroupMembers", "updateGroup"}
    /\ UNCHANGED << page, loading, shown >> /\ UNCHANGED server

\* What it sends, of what the page shows.
SendsShown(f) ==
    /\ f.kind = "deleteGroup" => page.name = "groups"
    /\ f.kind = "updateGroupMembers" =>
          /\ page.name = "group" /\ shown.found /\ modal.kind = "updateGroupMembers"
          /\ f.todo = f.then /\ shown.items \subseteq f.then
          /\ f.then \ shown.items \subseteq f.got.items /\ f.then \ shown.items \subseteq modal.subjects
    /\ (f.kind \in {"removeGroupMember", "deleteUser"} /\ page.name = "group") =>
          shown.found /\ f.then = shown.items \ {f.u}
    /\ f.kind \in {"deactivateUser", "getUser"} => shown.found
    /\ f.kind = "updateUser" =>
          /\ modal.kind = "updateUser" /\ f.u = modal.item /\ f.then = shown.items
          /\ f.kept => f.status = modal.status

\* A request that carries nothing but what it is about.
LEMMA PlainSends ==
  ASSUME Shapes, NEW kind, NEW g, NEW u, NEW m, SendRequest(Request(kind, g, u), m),
         kind \in {"addGroup", "updateGroup", "deleteGroup", "getUser", "deactivateUser", "deleteUser"},
         kind \in GroupCalls => g \in Groups, kind \notin GroupCalls => u \in Users,
         kind = "getUser" => page.name = "group", kind = "deleteUser" => page.name # "group",
         kind = "deleteGroup" => page.name = "groups",
         kind \in {"getUser", "deactivateUser"} => shown.found,
         m.kind \in {None, kind}, m = modal \/ m.kind = "addGroup"
  PROVE  \E f : Sends(f) /\ SendsShown(f)
<1>1. PICK f : f = Request(kind, g, u)
  OBVIOUS
<1>2. /\ Fields(f) /\ f.kind = kind /\ f.g = g /\ f.u = u /\ f.todo = {} /\ f.then = {}
      /\ f.st = "sent" /\ f.at = "here"
  BY <1>1, RequestFields
<1>3. RequestOK(f)
  BY <1>2 DEF RequestOK, GroupCalls, MemberCalls, UserCalls, Reads
<1>4. OfPage(f)
  BY <1>2 DEF OfPage, MemberCalls
<1>5. SendRequest(f, m)
  BY <1>1
<1>6. Sends(f)
  BY <1>2, <1>3, <1>4, <1>5 DEF Sends, SendRequest
<1>7. SendsShown(f)
  BY <1>2 DEF SendsShown
<1>8. QED BY <1>6, <1>7

LEMMA AddMembersSends ==
  ASSUME Shapes, NEW picks \in SUBSET Users, AddMembers(picks)
  PROVE  \E f : Sends(f) /\ SendsShown(f)
<1>1. PICK r : r = Request("updateGroupMembers", page.group, None)
  OBVIOUS
<1>2. PICK f : f = [r EXCEPT !.todo = shown.items \cup picks, !.then = shown.items \cup picks,
                             !.got = [Nothing EXCEPT !.items = picks]]
  OBVIOUS
<1>3. SendRequest(f, modal) /\ page.name = "group" /\ shown.found /\ modal.kind = "updateGroupMembers"
      /\ picks \subseteq modal.subjects \ shown.items
  BY <1>1, <1>2 DEF AddMembers, Submit, On, Pickable
<1>4. Fields(r) /\ r.kind = "updateGroupMembers" /\ r.g = page.group /\ r.st = "sent" /\ r.at = "here"
  BY <1>1, RequestFields
<1>5. [Nothing EXCEPT !.items = picks].items = picks
  BY DEF Nothing
<1>6. /\ Fields(f) /\ f.kind = "updateGroupMembers" /\ f.g = page.group /\ f.st = "sent" /\ f.at = "here"
      /\ f.todo = shown.items \cup picks /\ f.then = shown.items \cup picks /\ f.got.items = picks
  BY <1>2, <1>4, <1>5 DEF Fields
<1>7. shown.items \subseteq Users /\ page.group \in Groups
  BY <1>3 DEF Shapes, PageOK, ViewOK
<1>8. RequestOK(f)
  BY <1>6, <1>7 DEF RequestOK, GroupCalls, MemberCalls, UserCalls, Reads
<1>9. OfPage(f)
  BY <1>3, <1>6, <1>7 DEF OfPage, MemberCalls
<1>10. Sends(f)
  BY <1>3, <1>6, <1>8, <1>9 DEF Sends, SendRequest
<1>11. SendsShown(f)
  BY <1>3, <1>6 DEF SendsShown
<1>12. QED BY <1>10, <1>11

LEMMA UserSends ==
  ASSUME Shapes,
         \/ \E u \in Users, s \in Statuses : AddUser(u, s)
         \/ \E s \in Statuses : UpdateUser(s)
  PROVE  \E f : Sends(f) /\ SendsShown(f)
<1>1. CASE \E u \in Users, s \in Statuses : AddUser(u, s)
  <2>1. PICK u \in Users, s \in Statuses : AddUser(u, s)
    BY <1>1
  <2>2. PICK r : r = Request("addUser", None, u)
    OBVIOUS
  <2>3. PICK f : f = [r EXCEPT !.status = s]
    OBVIOUS
  <2>4. PICK m : m = Dialog("addUser", u)
    OBVIOUS
  <2>5. m.kind = "addUser"
    BY <2>4 DEF Dialog, Closed
  <2>6. SendRequest(f, m) /\ page.name = "users"
    BY <2>1, <2>2, <2>3, <2>4 DEF AddUser, Submit, On
  <2>7. /\ Fields(r) /\ r.kind = "addUser" /\ r.u = u /\ r.todo = {} /\ r.st = "sent" /\ r.at = "here"
    BY <2>2, RequestFields
  <2>8. /\ Fields(f) /\ f.kind = "addUser" /\ f.u = u /\ f.todo = {} /\ f.st = "sent" /\ f.at = "here" /\ f.status = s
    BY <2>3, <2>7 DEF Fields
  <2>9. RequestOK(f)
    BY <2>1, <2>8 DEF RequestOK, GroupCalls, MemberCalls, UserCalls, Reads
  <2>10. OfPage(f)
    BY <2>6, <2>8 DEF OfPage, MemberCalls
  <2>11. Sends(f)
    BY <2>5, <2>6, <2>8, <2>9, <2>10 DEF Sends, SendRequest
  <2>12. SendsShown(f)
    BY <2>8 DEF SendsShown
  <2>13. QED BY <2>11, <2>12
<1>2. CASE \E s \in Statuses : UpdateUser(s)
  <2>1. PICK s \in Statuses : UpdateUser(s)
    BY <1>2
  <2>2. PICK r : r = Request("updateUser", None, modal.item)
    OBVIOUS
  <2>3. PICK f : f = [r EXCEPT !.status = s, !.kept = (s = modal.status), !.then = shown.items]
    OBVIOUS
  <2>4. SendRequest(f, modal) /\ modal.kind = "updateUser"
    BY <2>1, <2>2, <2>3 DEF UpdateUser, Submit
  <2>5. /\ Fields(r) /\ r.kind = "updateUser" /\ r.u = modal.item /\ r.todo = {} /\ r.st = "sent" /\ r.at = "here"
    BY <2>2, RequestFields
  <2>6. (s = modal.status) \in BOOLEAN
    OBVIOUS
  <2>7. /\ Fields(f) /\ f.kind = "updateUser" /\ f.u = modal.item /\ f.todo = {} /\ f.st = "sent" /\ f.at = "here"
        /\ f.status = s /\ f.then = shown.items
    BY <2>3, <2>5, <2>6 DEF Fields
  <2>8. f.kept => f.status = modal.status
    BY <2>3, <2>5, <2>7 DEF Fields
  <2>9. modal.item \in Users /\ (page.name = "group" => shown.items \subseteq Users)
    BY <2>4 DEF Shapes, PageOK, ViewOK
  <2>10. RequestOK(f)
    BY <2>1, <2>7, <2>9 DEF RequestOK, GroupCalls, MemberCalls, UserCalls, Reads
  <2>11. OfPage(f)
    BY <2>7, <2>9 DEF OfPage, MemberCalls
  <2>12. Sends(f)
    BY <2>4, <2>7, <2>10, <2>11 DEF Sends, SendRequest
  <2>13. SendsShown(f)
    BY <2>4, <2>7, <2>8 DEF SendsShown
  <2>14. QED BY <2>12, <2>13
<1>3. QED BY <1>1, <1>2

\* A dialog opens or closes.
Opens ==
    /\ Acts \/ (modal' = Closed /\ UNCHANGED hist)
    /\ modal'.kind = "updateGroup" => modal'.item \in Groups
    /\ modal'.kind = "updateUser" =>
          /\ modal'.item \in Users /\ page.name = "users" /\ shown.found
          /\ << modal'.item, modal'.status >> \in shown.items
    /\ modal'.kind = "updateGroupMembers" => modal'.subjects = Present
    /\ UNCHANGED << page, loading, shown, flights >> /\ UNCHANGED server

\* A page is visited; f is its request to load.
Visits(f) ==
    /\ Acts /\ NewLoad(f)
    /\ page'.name \in {"groups", "users", "group"} /\ page'.group \in Groups \cup {None}
    /\ page'.name = "group" => page'.group \in Groups
    /\ loading' = TRUE /\ shown' = Nothing /\ modal' = Closed
    /\ flights' = { [x EXCEPT !.at = "gone"] : x \in { y \in flights : y.kind \notin Reads /\ y.st = "sent" } } \cup {f}
    /\ UNCHANGED server

LEMMA VisitForm ==
  ASSUME NEW p, Visit(p), p.name \in {"groups", "users", "group"}, p.group \in Groups \cup {None},
         p.name = "group" => p.group \in Groups
  PROVE  \E f : Visits(f)
<1>1. PICK f : f = Request("load", None, None)
  OBVIOUS
<1>2. NewLoad(f)
  BY <1>1, LoadForm
<1>3. page' = p
  BY DEF Visit
<1>4. QED BY <1>1, <1>2, <1>3 DEF Visits, Visit

LEMMA OpenForm ==
  ASSUME Shapes,
         \/ CloseDialog \/ OpenAddMembers
         \/ \E g \in Groups : OpenEditGroup(g)
         \/ \E u \in Users, s \in Statuses : OpenEditUser(u, s)
  PROVE  Opens
<1>1. CASE CloseDialog
  BY <1>1 DEF CloseDialog, Opens, Closed, None
<1>2. CASE OpenAddMembers
  <2>1. PICK m : m = [Dialog("updateGroupMembers", None) EXCEPT !.subjects = Subjects]
    OBVIOUS
  <2>2. m.kind = "updateGroupMembers" /\ m.subjects = Present
    BY <2>1 DEF Dialog, Closed, Subjects
  <2>3. Open(m)
    BY <1>2, <2>1 DEF OpenAddMembers
  <2>4. modal' = m
    BY <2>3 DEF Open
  <2>5. QED BY <2>2, <2>3, <2>4 DEF Opens, Open
<1>3. CASE \E g \in Groups : OpenEditGroup(g)
  <2>1. PICK g \in Groups : OpenEditGroup(g)
    BY <1>3
  <2>2. PICK m : m = Dialog("updateGroup", g)
    OBVIOUS
  <2>3. m.kind = "updateGroup" /\ m.item = g
    BY <2>2 DEF Dialog, Closed
  <2>4. Open(m)
    BY <2>1, <2>2 DEF OpenEditGroup
  <2>5. modal' = m
    BY <2>4 DEF Open
  <2>6. QED BY <2>3, <2>4, <2>5 DEF Opens, Open
<1>4. CASE \E u \in Users, s \in Statuses : OpenEditUser(u, s)
  <2>1. PICK u \in Users, s \in Statuses : OpenEditUser(u, s)
    BY <1>4
  <2>2. PICK m : m = [Dialog("updateUser", u) EXCEPT !.status = s]
    OBVIOUS
  <2>3. m.kind = "updateUser" /\ m.item = u /\ m.status = s
    BY <2>2 DEF Dialog, Closed
  <2>4. Open(m) /\ page.name = "users" /\ shown.found /\ << u, s >> \in shown.items
    BY <2>1, <2>2 DEF OpenEditUser, On
  <2>5. modal' = m
    BY <2>4 DEF Open
  <2>6. QED BY <2>3, <2>4, <2>5 DEF Opens, Open
<1>5. QED BY <1>1, <1>2, <1>3, <1>4

\* Every click has one of the three forms.
ClickForms == Opens \/ (\E f : Visits(f)) \/ \E f : Sends(f) /\ SendsShown(f)

LEMMA ThenSends ==
  ASSUME Shapes, NEW f, NEW m, SendRequest(f, m), Fields(f), f.todo = {}, f.st = "sent", f.at = "here",
         f.kind \in {"removeGroupMember", "deleteUser", "addGroupResources"}, page.name = "group", shown.found,
         f.kind # "deleteUser" => f.g = page.group, f.kind # "addGroupResources" => f.u \in Users,
         f.kind = "addGroupResources" => f.u \in Resources,
         f.then \subseteq shown.items, f.kind # "addGroupResources" => f.then = shown.items \ {f.u},
         m.kind \in {None, f.kind}, m = modal \/ m.kind = "addGroupResources"
  PROVE  ClickForms
<1>1. shown.items \subseteq Users /\ page.group \in Groups
  BY DEF Shapes, PageOK, ViewOK
<1>2. RequestOK(f)
  BY <1>1 DEF RequestOK, GroupCalls, MemberCalls, UserCalls, Reads
<1>3. OfPage(f)
  BY <1>1 DEF OfPage, MemberCalls
<1>4. Sends(f)
  BY <1>2, <1>3 DEF Sends, SendRequest
<1>5. SendsShown(f)
  BY DEF SendsShown
<1>6. QED BY <1>4, <1>5 DEF ClickForms

LEMMA DialogKind == ASSUME NEW kind, NEW item PROVE Dialog(kind, item).kind = kind
  BY DEF Dialog, Closed

LEMMA GroupClicks ==
  ASSUME Shapes, NEW g \in Groups, OpenGroupPage(g) \/ AddGroup(g) \/ OpenEditGroup(g) \/ DeleteGroup(g)
  PROVE  ClickForms
<1>1. CASE OpenGroupPage(g)
  <2>1. PICK p : p = [name |-> "group", group |-> g]
    OBVIOUS
  <2>2. p.name = "group" /\ p.group = g
    BY <2>1
  <2>3. Visit(p)
    BY <1>1, <2>1 DEF OpenGroupPage
  <2>4. \E f : Visits(f)
    BY <2>2, <2>3, VisitForm
  <2>5. QED BY <2>4 DEF ClickForms
<1>2. CASE AddGroup(g)
  <2>1. PICK m : m = Dialog("addGroup", g)
    OBVIOUS
  <2>2. m.kind = "addGroup" /\ SendRequest(Request("addGroup", g, None), m)
    BY <1>2, <2>1, DialogKind DEF AddGroup, Submit
  <2>3. QED BY <2>2, PlainSends DEF ClickForms, GroupCalls
<1>3. CASE OpenEditGroup(g)
  BY <1>3, OpenForm DEF ClickForms
<1>4. CASE DeleteGroup(g)
  <2>1. SendRequest(Request("deleteGroup", g, None), modal) /\ modal.kind = None /\ page.name = "groups"
    BY <1>4 DEF DeleteGroup, On, Idle
  <2>2. QED BY <2>1, PlainSends DEF ClickForms, GroupCalls
<1>5. QED BY <1>1, <1>2, <1>3, <1>4

LEMMA UserClicks ==
  ASSUME Shapes, NEW u \in Users,
         \/ RemoveMember(u) \/ EditMember(u) \/ DeactivateMember(u) \/ DeleteMember(u)
         \/ DeactivateUser(u) \/ DeleteUser(u)
  PROVE  ClickForms
<1>1. CASE RemoveMember(u)
  <2>1. PICK r : r = Request("removeGroupMember", page.group, u)
    OBVIOUS
  <2>2. PICK f : f = [r EXCEPT !.then = shown.items \ {u}]
    OBVIOUS
  <2>3. SendRequest(f, modal) /\ modal.kind = None /\ page.name = "group" /\ shown.found
    BY <1>1, <2>1, <2>2 DEF RemoveMember, On, Idle
  <2>4. /\ Fields(r) /\ r.kind = "removeGroupMember" /\ r.u = u /\ r.todo = {} /\ r.st = "sent" /\ r.at = "here" /\ r.g = page.group
    BY <2>1, RequestFields
  <2>5. /\ Fields(f) /\ f.kind = "removeGroupMember" /\ f.u = u /\ f.todo = {} /\ f.st = "sent" /\ f.at = "here" /\ f.g = page.group
        /\ f.then = shown.items \ {u}
    BY <2>2, <2>4 DEF Fields
  <2>6. QED BY <2>3, <2>5, ThenSends
<1>2. CASE EditMember(u)
  <2>1. SendRequest(Request("getUser", None, u), modal) /\ modal.kind = None /\ page.name = "group" /\ shown.found
    BY <1>2 DEF EditMember, On, Idle
  <2>2. QED BY <2>1, PlainSends DEF ClickForms, GroupCalls
<1>3. CASE DeactivateMember(u)
  <2>1. SendRequest(Request("deactivateUser", None, u), modal) /\ modal.kind = None /\ shown.found
    BY <1>3 DEF DeactivateMember, On, Idle
  <2>2. QED BY <2>1, PlainSends DEF ClickForms, GroupCalls
<1>4. CASE DeleteMember(u)
  <2>1. PICK r : r = Request("deleteUser", None, u)
    OBVIOUS
  <2>2. PICK f : f = [r EXCEPT !.then = shown.items \ {u}]
    OBVIOUS
  <2>3. SendRequest(f, modal) /\ modal.kind = None /\ page.name = "group" /\ shown.found
    BY <1>4, <2>1, <2>2 DEF DeleteMember, On, Idle
  <2>4. /\ Fields(r) /\ r.kind = "deleteUser" /\ r.u = u /\ r.todo = {} /\ r.st = "sent" /\ r.at = "here"
    BY <2>1, RequestFields
  <2>5. /\ Fields(f) /\ f.kind = "deleteUser" /\ f.u = u /\ f.todo = {} /\ f.st = "sent" /\ f.at = "here"
        /\ f.then = shown.items \ {u}
    BY <2>2, <2>4 DEF Fields
  <2>6. QED BY <2>3, <2>5, ThenSends
<1>5. CASE DeactivateUser(u)
  <2>1. SendRequest(Request("deactivateUser", None, u), modal) /\ modal.kind = None /\ shown.found
    BY <1>5 DEF DeactivateUser, On, Idle
  <2>2. QED BY <2>1, PlainSends DEF ClickForms, GroupCalls
<1>6. CASE DeleteUser(u)
  <2>1. SendRequest(Request("deleteUser", None, u), modal) /\ modal.kind = None /\ page.name = "users"
    BY <1>6 DEF DeleteUser, On, Idle
  <2>2. QED BY <2>1, PlainSends DEF ClickForms, GroupCalls
<1>7. QED BY <1>1, <1>2, <1>3, <1>4, <1>5, <1>6

LEMMA ClicksHaveForms == ASSUME Shapes, Click PROVE ClickForms
<1>1. CASE OpenGroupsPage \/ OpenUsersPage
  <2>1. PICK p : Visit(p) /\ p.name \in {"groups", "users"} /\ p.group = None
    BY <1>1 DEF OpenGroupsPage, OpenUsersPage
  <2>2. \E f : Visits(f)
    BY <2>1, VisitForm
  <2>3. QED BY <2>2 DEF ClickForms
<1>2. CASE UpdateGroup
  <2>1. SendRequest(Request("updateGroup", modal.item, None), modal) /\ modal.kind = "updateGroup"
    BY <1>2 DEF UpdateGroup, Submit
  <2>2. modal.item \in Groups
    BY <2>1 DEF Shapes, PageOK
  <2>3. QED BY <2>1, <2>2, PlainSends DEF ClickForms, GroupCalls
<1>3. CASE \E r \in Resources : AddResources(r)
  <2>1. PICK r \in Resources : AddResources(r)
    BY <1>3
  <2>2. PICK m : m = Dialog("addGroupResources", r)
    OBVIOUS
  <2>3. PICK q : q = Request("addGroupResources", page.group, r)
    OBVIOUS
  <2>4. PICK f : f = [q EXCEPT !.then = shown.items]
    OBVIOUS
  <2>5. m.kind = "addGroupResources" /\ page.name = "group" /\ shown.found /\ SendRequest(f, m)
    BY <2>1, <2>2, <2>3, <2>4, DialogKind DEF AddResources, Submit, On
  <2>6. /\ Fields(q) /\ q.kind = "addGroupResources" /\ q.u = r /\ q.todo = {} /\ q.st = "sent" /\ q.at = "here"
        /\ q.g = page.group
    BY <2>3, RequestFields
  <2>7. /\ Fields(f) /\ f.kind = "addGroupResources" /\ f.u = r /\ f.todo = {} /\ f.st = "sent" /\ f.at = "here"
        /\ f.g = page.group /\ f.then = shown.items
    BY <2>4, <2>6 DEF Fields
  <2>8. QED BY <2>1, <2>5, <2>7, ThenSends
<1>4. CASE CloseDialog \/ OpenAddMembers \/ \E u \in Users, s \in Statuses : OpenEditUser(u, s)
  BY <1>4, OpenForm DEF ClickForms
<1>5. CASE \/ \E picks \in SUBSET Users : AddMembers(picks)
           \/ \E u \in Users, s \in Statuses : AddUser(u, s)
           \/ \E s \in Statuses : UpdateUser(s)
  BY <1>5, AddMembersSends, UserSends DEF ClickForms
<1>6. CASE \E g \in Groups : OpenGroupPage(g) \/ AddGroup(g) \/ OpenEditGroup(g) \/ DeleteGroup(g)
  BY <1>6, GroupClicks
<1>7. CASE \E u \in Users : \/ RemoveMember(u) \/ EditMember(u) \/ DeactivateMember(u) \/ DeleteMember(u)
                            \/ DeactivateUser(u) \/ DeleteUser(u)
  BY <1>7, UserClicks
<1>8. QED BY <1>1, <1>2, <1>3, <1>4, <1>5, <1>6, <1>7 DEF Click

-----------------------------------------------------------------------------
(* What a click preserves.                                                 *)

\* The user who acts while nothing is outstanding.
LEMMA ActsPast ==
  ASSUME Shapes, Acts
  PROVE  /\ hist' \in Histories /\ hist'.other = hist.other
         /\ hist'.failed = hist.failed /\ hist'.surprise = hist.surprise /\ hist'.flipped = hist.flipped
         /\ hist'.lost = hist.lost
         /\ ~hist'.overlap => ~hist.overlap /\ flights = {}
<1>1. hist \in Histories
  BY DEF Shapes
<1>2. PICK b \in BOOLEAN : b = (hist.overlap \/ flights # {})
  OBVIOUS
<1>3. hist' = [hist EXCEPT !.ops = @ + 1, !.overlap = b]
  BY <1>2 DEF Acts
<1>4. hist' \in Histories
  <2>1. PICK n \in Nat : n = hist.ops + 1
    BY <1>1 DEF Histories
  <2>2. hist' = [hist EXCEPT !.ops = n, !.overlap = b]
    BY <1>3, <2>1
  <2>3. QED BY <1>1, <1>2, <2>1, <2>2 DEF Histories
<1>5. /\ hist'.other = hist.other /\ hist'.failed = hist.failed /\ hist'.surprise = hist.surprise
      /\ hist'.flipped = hist.flipped /\ hist'.overlap = b /\ hist'.lost = hist.lost
  BY <1>1, <1>3 DEF Histories
<1>6. QED BY <1>2, <1>4, <1>5

LEMMA SameView ==
  ASSUME UNCHANGED server, UNCHANGED page
  PROVE  View(page)' = View(page) /\ InGroup' = InGroup /\ ResOf' = ResOf /\ LiveGroups' = LiveGroups /\ Present' = Present
         /\ (hist'.lost = hist.lost => Known' = Known)
<1>1. LiveGroups' = LiveGroups /\ Present' = Present /\ member' = member
  BY DEF server, LiveGroups, Present
<1>2. UserGroups' = UserGroups
  BY <1>1 DEF UserGroups
<1>3. UsersView' = UsersView /\ GroupsView' = GroupsView
  BY <1>1, <1>2 DEF server, UsersView, GroupsView
<1>4. InGroup' = InGroup /\ ResOf' = ResOf
  BY <1>1 DEF server, InGroup, ResOf
<1>5. QED BY <1>1, <1>3, <1>4 DEF server, View, GroupView, Nothing, Known

LEMMA SameAloneReq ==
  ASSUME UNCHANGED server, UNCHANGED << page, shown >>, hist'.lost = hist.lost, NEW f, AloneReq(f)
  PROVE  AloneReq(f)'
<1>1. Known' = Known /\ LiveGroups' = LiveGroups /\ Present' = Present
  BY SameView
<1>2. QED BY <1>1 DEF AloneReq

LEMMA SendsShapes == ASSUME Shapes, NEW f, Sends(f) PROVE Shapes'
<1>1. GroupTypeOK'
  BY DEF Shapes, GroupTypeOK, Sends, server
<1>2. PageOK'
  BY DEF Shapes, PageOK, ViewOK, Sends
<1>3. \A x \in flights' : RequestOK(x) /\ OfPage(x)
  BY DEF Shapes, Sends
<1>4. \A x \in flights' : RequestOK(x)' /\ OfPage(x)'
  BY <1>3 DEF RequestOK, Fields, OfPage, ViewOK, Sends
<1>5. QED BY <1>1, <1>2, <1>4, ActsPast DEF Shapes, Sends

LEMMA SendsOne == ASSUME Shapes, OneRequest, NEW f, Sends(f) PROVE OneRequest'
<1>1. SUFFICES ASSUME ~hist'.overlap
               PROVE  /\ \A x, y \in flights' : x = y
                      /\ \A x \in flights' : /\ x.at = "here" /\ (x.st = "failed" => hist'.failed)
                                             /\ modal'.kind \in {None, x.kind}
  BY DEF OneRequest
<1>2. flights' = {f}
  BY <1>1, ActsPast DEF Sends
<1>3. QED BY <1>2 DEF Sends

LEMMA SendsAlone == ASSUME GroupInv, NEW f, Sends(f), SendsShown(f) PROVE AloneInv'
<1>1. SUFFICES ASSUME Alone' PROVE Sound'
  BY DEF AloneInv
<1>2. /\ Alone /\ flights = {} /\ hist'.surprise = hist.surprise /\ hist'.lost = hist.lost
  BY <1>1, ActsPast DEF Alone, GroupInv, Sends
<1>3. Sound
  BY <1>2 DEF GroupInv, AloneInv
<1>4. Known' = Known /\ LiveGroups' = LiveGroups /\ Present' = Present
  BY <1>2, SameView DEF Sends
<1>5. f.st = "sent" /\ f.at = "here" /\ f.kind # "load" /\ f.kind # "refresh" /\ OfPage(f) /\ UNCHANGED << page, shown, member >>
  BY DEF Sends, server
<1>6. (page.name = "group" /\ shown.found) => page.group \in LiveGroups /\ shown.items \subseteq Known
  BY <1>2, <1>3 DEF Sound
<1>7. AloneReq(f)'
  <2>1. f.kind = "updateGroupMembers" =>
          /\ page.name = "group" /\ page.group \in LiveGroups /\ f.g = page.group
          /\ f.then \subseteq Present \cup hist.lost /\ f.todo \subseteq f.then /\ f.then \ f.todo \subseteq Known
          /\ f.then \ f.got.items \subseteq Known
          /\ f.st = "ok" => f.todo = {}
    BY <1>3, <1>5, <1>6 DEF SendsShown, Sound, OfPage, MemberCalls, Known, InGroup
  <2>2. (f.kind \in {"removeGroupMember", "deleteUser"} /\ page.name = "group") =>
          f.then \subseteq Known /\ f.u \notin f.then
    BY <1>6 DEF SendsShown
  <2>3. (f.kind \in {"updateUser", "refresh"} /\ page.name = "group" /\ shown.found) => f.then \subseteq Known
    BY <1>5, <1>6 DEF SendsShown
  <2>4. AloneReq(f)
    BY <1>5, <2>1, <2>2, <2>3 DEF AloneReq, SendsShown
  <2>5. QED BY <1>2, <2>4, SameAloneReq, <1>5 DEF Sends
<1>8. flights' = {f}
  BY <1>2 DEF Sends
<1>9. modal'.kind = "updateGroupMembers" => modal'.subjects \subseteq Present
  BY <1>3 DEF Sends, Sound
<1>10. QED BY <1>2, <1>3, <1>4, <1>5, <1>6, <1>7, <1>8, <1>9 DEF Sound

\* What a page at rest shows of a group.
LEMMA AtRest ==
  ASSUME Shapes, shown = View(page), page.name = "group", shown.found
  PROVE  page.group \in LiveGroups /\ shown.items = InGroup /\ shown.res = ResOf
<1>1. shown = GroupView(page.group)
  BY ViewForm
<1>2. page.group \in LiveGroups
  BY <1>1 DEF GroupView, Nothing
<1>3. shown = [found |-> TRUE, items |-> { u \in Present : << page.group, u >> \in member },
               res |-> { r \in Resources : << page.group, r >> \in grants }]
  BY <1>1, <1>2 DEF GroupView
<1>4. QED BY <1>2, <1>3 DEF InGroup, ResOf

LEMMA SendsTrue == ASSUME GroupInv, NEW f, Sends(f), SendsShown(f) PROVE TrueInv'
<1>1. SUFFICES ASSUME Calm' PROVE True1'
  BY DEF TrueInv
<1>2. Calm /\ Alone /\ flights = {} /\ Shapes
  BY <1>1, ActsPast DEF Calm, Alone, GroupInv, Sends
<1>3. PageInStep
  BY <1>2 DEF GroupInv, TrueInv, True1
<1>4. InGroup' = InGroup /\ ResOf' = ResOf /\ View(page)' = View(page)
  BY SameView DEF Sends
<1>5. f.st = "sent" /\ f.at = "here" /\ f.kind # "load" /\ f.kind # "refresh" /\ OfPage(f) /\ UNCHANGED << page, shown >>
  BY DEF Sends
<1>6. flights' = {f}
  BY <1>2 DEF Sends
<1>7. (page.name = "group" /\ shown.found) => shown.items = InGroup /\ shown.res = ResOf
  BY <1>2, <1>3, AtRest DEF PageInStep
<1>8. Reads1(f)
  BY <1>5, <1>7 DEF Reads1, SendsShown
<1>9. Reads1(f)'
  BY <1>4, <1>5, <1>8 DEF Reads1
<1>10. PageInStep'
  BY <1>6 DEF PageInStep
<1>11. QED BY <1>6, <1>9, <1>10 DEF True1

LEMMA SendsChange == ASSUME GroupInv, NEW f, Sends(f), SendsShown(f) PROVE ChangeInv'
<1>1. SUFFICES ASSUME Calm' PROVE Change1'
  BY DEF ChangeInv
<1>2. Calm /\ flights = {} /\ hist'.flipped = hist.flipped
  BY <1>1, ActsPast DEF Calm, Alone, GroupInv, Sends
<1>3. Change1
  BY <1>2 DEF GroupInv, ChangeInv
<1>4. flights' = {f} /\ users' = users /\ f.st = "sent"
  BY <1>2 DEF Sends, server
<1>5. Change(f)
  BY <1>2, <1>3, <1>4 DEF Change, Change1, SendsShown
<1>6. Change(f)'
  BY <1>4, <1>5 DEF Change
<1>7. QED BY <1>2, <1>3, <1>4, <1>6 DEF Change1

LEMMA OpensPast ==
  ASSUME Shapes, Opens
  PROVE  /\ hist' \in Histories /\ hist'.other = hist.other
         /\ hist'.failed = hist.failed /\ hist'.surprise = hist.surprise /\ hist'.flipped = hist.flipped
         /\ hist'.lost = hist.lost
         /\ ~hist'.overlap => ~hist.overlap /\ (flights = {} \/ modal' = Closed)
  BY ActsPast DEF Opens, Shapes

LEMMA OpensShapes == ASSUME Shapes, Opens PROVE Shapes'
<1>1. GroupTypeOK'
  BY DEF Shapes, GroupTypeOK, Opens, server
<1>2. PageOK'
  BY DEF Shapes, PageOK, ViewOK, Opens
<1>3. \A x \in flights' : RequestOK(x) /\ OfPage(x)
  BY DEF Shapes, Opens
<1>4. \A x \in flights' : RequestOK(x)' /\ OfPage(x)'
  BY <1>3 DEF RequestOK, Fields, OfPage, ViewOK, Opens
<1>5. QED BY <1>1, <1>2, <1>4, OpensPast DEF Shapes

LEMMA OpensOne == ASSUME Shapes, OneRequest, Opens PROVE OneRequest'
<1>1. SUFFICES ASSUME ~hist'.overlap
               PROVE  /\ \A x, y \in flights' : x = y
                      /\ \A x \in flights' : /\ x.at = "here" /\ (x.st = "failed" => hist'.failed)
                                             /\ modal'.kind \in {None, x.kind}
  BY DEF OneRequest
<1>2. flights' = flights
  BY DEF Opens
<1>3. ~hist.overlap /\ hist'.failed = hist.failed /\ (flights = {} \/ modal' = Closed)
  BY <1>1, OpensPast
<1>4. Closed.kind = None
  BY DEF Closed
<1>5. QED BY <1>2, <1>3, <1>4 DEF OneRequest

LEMMA OpensAlone == ASSUME GroupInv, Opens PROVE AloneInv'
<1>1. SUFFICES ASSUME Alone' PROVE Sound'
  BY DEF AloneInv
<1>2. /\ Alone /\ hist'.surprise = hist.surprise /\ hist'.lost = hist.lost
  BY <1>1, OpensPast DEF Alone, GroupInv
<1>3. Sound
  BY <1>2 DEF GroupInv, AloneInv
<1>4. Known' = Known /\ LiveGroups' = LiveGroups /\ Present' = Present
  BY <1>2, SameView DEF Opens
<1>5. UNCHANGED << page, shown, member, flights >> /\ UNCHANGED server
  BY DEF Opens, server
<1>6. \A f \in flights : AloneReq(f)'
  BY <1>2, <1>3, <1>5, SameAloneReq DEF Sound
<1>7. modal'.kind = "updateGroupMembers" => modal'.subjects \subseteq Present
  BY DEF Opens
<1>8. QED BY <1>2, <1>3, <1>4, <1>5, <1>6, <1>7 DEF Sound, Removed, Removal

LEMMA OpensTrue == ASSUME GroupInv, Opens PROVE TrueInv'
<1>1. SUFFICES ASSUME Calm' PROVE True1'
  BY DEF TrueInv
<1>2. Calm
  BY <1>1, OpensPast DEF Calm, Alone, GroupInv
<1>3. True1
  BY <1>2 DEF GroupInv, TrueInv
<1>4. InGroup' = InGroup /\ ResOf' = ResOf /\ View(page)' = View(page)
  BY SameView DEF Opens
<1>5. UNCHANGED << page, shown, flights >>
  BY DEF Opens
<1>6. \A f \in flights : Reads1(f)'
  BY <1>3, <1>4, <1>5 DEF True1, Reads1
<1>7. PageInStep'
  BY <1>2, <1>3, <1>4, <1>5 DEF True1, PageInStep
<1>8. QED BY <1>5, <1>6, <1>7 DEF True1

LEMMA OpensChange == ASSUME GroupInv, Opens PROVE ChangeInv'
<1>1. SUFFICES ASSUME Calm' PROVE Change1'
  BY DEF ChangeInv
<1>2. Calm /\ Shapes /\ hist'.flipped = hist.flipped
  BY <1>1, OpensPast DEF Calm, Alone, GroupInv
<1>3. Change1 /\ PageInStep
  BY <1>2 DEF GroupInv, ChangeInv, TrueInv, True1
<1>4. users' = users /\ flights' = flights
  BY DEF Opens, server
<1>5. \A f \in flights : Change(f)'
  BY <1>3, <1>4 DEF Change1, Change
<1>6. modal'.kind = "updateUser" /\ flights = {} => modal'.status = users[modal'.item]
  <2>1. SUFFICES ASSUME modal'.kind = "updateUser", flights = {} PROVE modal'.status = users[modal'.item]
    OBVIOUS
  <2>2. page.name = "users" /\ shown.found /\ << modal'.item, modal'.status >> \in shown.items
    BY <2>1 DEF Opens
  <2>3. shown = UsersView
    BY <1>2, <1>3, <2>1, <2>2, ViewForm DEF PageInStep
  <2>4. shown.items = { << u, users[u] >> : u \in Present }
    BY <2>3 DEF UsersView
  <2>5. QED BY <2>2, <2>4
<1>7. QED BY <1>2, <1>3, <1>4, <1>5, <1>6 DEF Change1

\* A page just mounted shows nothing.
LEMMA VisitsShapes == ASSUME Shapes, NEW f, Visits(f) PROVE Shapes'
<1>1. GroupTypeOK'
  BY DEF Shapes, GroupTypeOK, Visits, server
<1>2. PageOK'
  BY NothingOK DEF PageOK, ViewOK, Visits, Closed, None
<1>3. ASSUME NEW x \in flights, x.kind \notin Reads, x.st = "sent", NEW y, y = [x EXCEPT !.at = "gone"]
      PROVE  RequestOK(y)' /\ OfPage(y)'
  <2>1. RequestOK(x)
    BY <1>3 DEF Shapes
  <2>2. /\ Fields(y) /\ y.kind = x.kind /\ y.g = x.g /\ y.u = x.u /\ y.status = x.status /\ y.todo = x.todo
        /\ y.st = x.st /\ y.at = "gone"
    BY <1>3, <2>1 DEF RequestOK, Fields
  <2>3. RequestOK(y)
    BY <1>3, <2>1, <2>2 DEF RequestOK
  <2>4. OfPage(y)'
    BY <1>3, <2>2 DEF OfPage, Reads
  <2>5. QED BY <2>3, <2>4 DEF RequestOK, Fields
<1>4. RequestOK(f)' /\ OfPage(f)'
  BY NothingOK DEF Visits, NewLoad, RequestOK, Fields, OfPage, MemberCalls, ViewOK
<1>5. \A x \in flights' : RequestOK(x)' /\ OfPage(x)'
  BY <1>3, <1>4 DEF Visits
<1>6. QED BY <1>1, <1>2, <1>5, ActsPast DEF Shapes, Visits

LEMMA VisitsOne == ASSUME Shapes, NEW f, Visits(f) PROVE OneRequest' /\ (~hist'.overlap => flights' = {f})
<1>1. ASSUME ~hist'.overlap PROVE flights' = {f}
  BY <1>1, ActsPast DEF Visits
<1>2. Closed.kind = None
  BY DEF Closed
<1>3. QED BY <1>1, <1>2 DEF OneRequest, Visits, NewLoad

LEMMA VisitsRest == ASSUME GroupInv, NEW f, Visits(f) PROVE AloneInv' /\ TrueInv' /\ ChangeInv'
<1>1. SUFFICES ASSUME Alone' PROVE Sound' /\ (Calm' => True1' /\ Change1')
  BY DEF AloneInv, TrueInv, ChangeInv, Calm
<1>2. /\ Alone /\ hist'.surprise = hist.surprise /\ hist'.flipped = hist.flipped /\ hist'.failed = hist.failed
      /\ hist'.lost = hist.lost
  BY <1>1, ActsPast DEF Alone, GroupInv, Visits
<1>3. flights' = {f} /\ Sound
  BY <1>1, <1>2, VisitsOne DEF GroupInv, AloneInv, Alone
<1>4. LiveGroups' = LiveGroups /\ Present' = Present /\ member' = member
  BY DEF Visits, server, LiveGroups, Present
<1>5. /\ shown' = Nothing /\ modal' = Closed /\ Nothing.found = FALSE /\ Closed.kind = None
      /\ f.kind = "load" /\ f.st = "sent" /\ f.got = Nothing
  BY DEF Visits, NewLoad, Nothing, Closed
<1>6. AloneReq(f)'
  BY <1>5 DEF AloneReq
<1>7. Sound'
  BY <1>2, <1>3, <1>4, <1>5, <1>6 DEF Sound, None
<1>8. ASSUME Calm' PROVE True1'
  <2>1. Reads1(f)'
    BY <1>5 DEF Reads1
  <2>2. QED BY <1>3, <2>1 DEF True1, PageInStep
<1>9. ASSUME Calm' PROVE Change1'
  <2>1. Change(f)'
    BY <1>5 DEF Change
  <2>2. ~hist.flipped
    BY <1>2, <1>9 DEF GroupInv, ChangeInv, Change1, Calm
  <2>3. QED BY <1>2, <1>3, <2>1, <2>2 DEF Change1
<1>10. QED BY <1>7, <1>8, <1>9

LEMMA ClickPreserves == ASSUME GroupInv, Click PROVE GroupInv'
<1>1. Shapes /\ OneRequest
  BY DEF GroupInv
<1>2. ClickForms
  BY <1>1, ClicksHaveForms
<1>3. CASE Opens
  BY <1>1, <1>3, OpensShapes, OpensOne, OpensAlone, OpensTrue, OpensChange DEF GroupInv
<1>4. CASE \E f : Visits(f)
  BY <1>1, <1>4, VisitsShapes, VisitsOne, VisitsRest DEF GroupInv
<1>5. CASE \E f : Sends(f) /\ SendsShown(f)
  <2>1. PICK f : Sends(f) /\ SendsShown(f)
    BY <1>5
  <2>2. Shapes' /\ OneRequest'
    BY <1>1, <2>1, SendsShapes, SendsOne
  <2>3. AloneInv' /\ TrueInv' /\ ChangeInv'
    BY <2>1, SendsAlone, SendsTrue, SendsChange
  <2>4. QED BY <2>2, <2>3 DEF GroupInv
<1>6. QED BY <1>2, <1>3, <1>4, <1>5 DEF ClickForms

-----------------------------------------------------------------------------
(* The controller serves a request.                                        *)

\* Request f becomes g.
Becomes(f, g) ==
    /\ Fields(g) /\ g.kind = f.kind /\ g.g = f.g /\ g.u = f.u /\ g.then = f.then /\ g.at = f.at
    /\ g.todo \subseteq f.todo /\ g.st \in {"sent", "ok", "failed"}
    /\ f.kind \notin Reads => g.status = f.status /\ g.got = f.got
    /\ f.kind = "load" => ViewOK(g.got, page.name)

\* and, if nobody waits for it, is gone once it is served.
Serves(f, g) ==
    /\ f \in flights /\ f.st \in {"sent", "ok"} /\ Becomes(f, g)
    /\ \/ flights' = (flights \ {f}) \cup {g} /\ (f.at = "gone" => g.st = "sent")
       \/ flights' = flights \ {f} /\ f.at = "gone"
    /\ UNCHANGED tab

ServerOK ==
    /\ users \in [Users -> Statuses \cup {"unborn", "deleted"}]
    /\ groups \in [Groups -> {"unborn", "live", "deleted"}]
    /\ member \subseteq Groups \X Users /\ grants \subseteq Groups \X Resources

\* What a step of the controller leaves of the past.
PastMoves ==
    /\ hist' \in Histories /\ hist'.overlap = hist.overlap /\ hist'.other = hist.other
    /\ hist.failed => hist'.failed
    /\ hist.lost \subseteq hist'.lost /\ (~hist'.failed => hist'.lost = {})

LEMMA ServesShapes ==
  ASSUME Shapes, NEW f, NEW g, Serves(f, g), ServerOK', PastMoves
  PROVE  Shapes'
<1>1. GroupTypeOK'
  BY DEF Shapes, GroupTypeOK, ServerOK, Serves, tab
<1>2. PageOK'
  BY DEF Shapes, PageOK, ViewOK, Serves, tab
<1>3. UNCHANGED << page, shown >>
  BY DEF Serves, tab
<1>4. ASSUME NEW x \in flights PROVE RequestOK(x)' /\ OfPage(x)'
  BY <1>3 DEF Shapes, RequestOK, Fields, OfPage, ViewOK
<1>5. RequestOK(f) /\ OfPage(f)
  BY DEF Serves, Shapes
<1>6. ASSUME f.at = "gone" => g.st = "sent" PROVE RequestOK(g)
  BY <1>5, <1>6 DEF Serves, Becomes, RequestOK, GroupCalls, MemberCalls, UserCalls, Reads
<1>7. OfPage(g)
  BY <1>5 DEF Serves, Becomes, OfPage
<1>8. ASSUME f.at = "gone" => g.st = "sent" PROVE RequestOK(g)' /\ OfPage(g)'
  BY <1>3, <1>6, <1>7, <1>8 DEF RequestOK, Fields, OfPage, ViewOK
<1>9. \A x \in flights' : RequestOK(x)' /\ OfPage(x)'
  BY <1>4, <1>8 DEF Serves
<1>10. QED BY <1>1, <1>2, <1>9 DEF Shapes, PastMoves

LEMMA ServesOne ==
  ASSUME OneRequest, NEW f, NEW g, Serves(f, g), PastMoves, g.st = "failed" => hist'.failed
  PROVE  /\ OneRequest'
         /\ ~hist'.overlap => /\ flights = {f} /\ flights' = {g} /\ g.at = "here"
                              /\ modal.kind \in {None, f.kind}
<1>1. ASSUME ~hist'.overlap
      PROVE  flights = {f} /\ flights' = {g} /\ g.at = "here" /\ modal.kind \in {None, f.kind}
  <2>1. ~hist.overlap
    BY <1>1 DEF PastMoves
  <2>2. flights = {f} /\ f.at = "here" /\ modal.kind \in {None, f.kind}
    BY <2>1 DEF OneRequest, Serves
  <2>3. QED BY <2>2 DEF Serves, Becomes
<1>2. OneRequest'
  BY <1>1 DEF OneRequest, Serves, Becomes, tab
<1>3. QED BY <1>1, <1>2

\* A step of the controller that takes nothing away.
LEMMA GrowsAlone ==
  ASSUME Sound, NEW f, NEW g, Serves(f, g), f.st = "sent", flights = {f}, flights' = {g},
         LiveGroups \subseteq LiveGroups', Present \subseteq Present', member' = member,
         hist'.surprise = hist.surprise, hist.lost \subseteq hist'.lost,
         g.todo = f.todo, g.st = "ok" => f.kind \notin MemberCalls \cup {"deleteUser"},
         (f.kind = "load" /\ page.name = "group" /\ g.got.found) =>
             page.group \in LiveGroups' /\ g.got.items \subseteq Known'
  PROVE  Sound'
<1>1. Known \subseteq Known' /\ hist.lost \subseteq hist'.lost
  BY DEF Known, InGroup, Serves, tab
<1>2. UNCHANGED << page, shown, modal >>
  BY DEF Serves, tab
<1>3. AloneReq(f) /\ Becomes(f, g) /\ f.st = "sent"
  BY DEF Sound, Serves
<1>4. f.kind = "updateGroupMembers" => g.got = f.got /\ g.st # "ok"
  BY <1>3 DEF Becomes, Reads, MemberCalls
<1>5. AloneReq(g)'
  <2>1. g.kind = "updateGroupMembers" =>
          /\ page.name = "group" /\ page.group \in LiveGroups' /\ g.g = page.group
          /\ g.then \subseteq Present' \cup hist'.lost /\ g.todo \subseteq g.then /\ g.then \ g.todo \subseteq Known'
          /\ g.then \ g.got.items \subseteq Known'
          /\ g.st = "ok" => g.todo = {}
    <3>1. SUFFICES ASSUME f.kind = "updateGroupMembers"
                   PROVE  /\ page.name = "group" /\ page.group \in LiveGroups' /\ f.g = page.group
                          /\ f.then \subseteq Present' \cup hist'.lost /\ f.todo \subseteq f.then /\ f.then \ f.todo \subseteq Known'
                          /\ f.then \ f.got.items \subseteq Known'
      BY <1>3, <1>4 DEF Becomes
    <3>2. QED BY <1>1, <1>3, <3>1 DEF AloneReq
  <2>2. (g.kind \in {"removeGroupMember", "deleteUser"} /\ page.name = "group") =>
          g.then \subseteq Known' /\ g.u \notin g.then
    BY <1>1, <1>3 DEF AloneReq, Becomes
  <2>3. (g.kind \in {"updateUser", "refresh"} /\ page.name = "group" /\ shown.found) => g.then \subseteq Known'
    BY <1>1, <1>3 DEF AloneReq, Becomes
  <2>4. g.kind = "deleteGroup" => page.name = "groups"
    BY <1>3 DEF AloneReq, Becomes
  <2>5. g.kind = f.kind
    BY <1>3 DEF Becomes
  <2>6. QED BY <1>2, <2>1, <2>2, <2>3, <2>4, <2>5 DEF AloneReq
<1>6. ~Removed(f)
  BY <1>3 DEF Removed
<1>7. (page.name = "group" /\ shown.found) => shown.items \subseteq Known
  BY <1>6 DEF Sound
<1>8. (page.name = "group" /\ shown.found) => page.group \in LiveGroups' /\ shown.items \subseteq Known'
  BY <1>1, <1>6, <1>7 DEF Sound
<1>9. \A m \in member' : m[1] \in LiveGroups' /\ m[2] \in Present' \cup hist'.lost
  BY DEF Sound
<1>10. modal.kind = "updateGroupMembers" => modal.subjects \subseteq Present'
  BY DEF Sound
<1>11. QED BY <1>1, <1>2, <1>5, <1>8, <1>9, <1>10 DEF Sound

\* What is left to show of a step of the controller: that it keeps, for a
\* user who waits, what the request and the tables have to do with each other.
OnlyOne(f, g) == flights = {f} /\ flights' = {g} /\ modal.kind \in {None, f.kind}

LEMMA ServesPreserve ==
  ASSUME GroupInv, NEW f, NEW g, Serves(f, g), ServerOK', PastMoves, g.st = "failed" => hist'.failed,
         OnlyOne(f, g) /\ Sound => Sound',
         OnlyOne(f, g) /\ ~hist.overlap /\ Sound /\ True1 /\ ~hist'.failed => Reads1(g)',
         OnlyOne(f, g) /\ Sound /\ Change1 /\ ~hist'.failed => ~hist'.flipped /\ Change(g)'
  PROVE  GroupInv'
<1>1. Shapes'
  BY ServesShapes DEF GroupInv
<1>2. OneRequest' /\ (~hist'.overlap => OnlyOne(f, g))
  BY ServesOne DEF GroupInv, OnlyOne
<1>3. Alone' => Alone
  BY DEF Alone, PastMoves
<1>4. AloneInv'
  BY <1>2, <1>3 DEF AloneInv, GroupInv, Alone
<1>5. ASSUME Calm' PROVE Calm /\ Alone /\ ~hist.overlap /\ OnlyOne(f, g) /\ ~hist'.failed
  BY <1>2, <1>3, <1>5 DEF Calm, Alone, PastMoves
<1>6. ASSUME Calm' PROVE True1'
  <2>1. Reads1(g)'
    BY <1>5, <1>6 DEF GroupInv, AloneInv, TrueInv
  <2>2. flights' = {g}
    BY <1>5, <1>6 DEF OnlyOne
  <2>3. QED BY <2>1, <2>2 DEF True1, PageInStep
<1>7. ASSUME Calm' PROVE Change1'
  <2>1. ~hist'.flipped /\ Change(g)'
    BY <1>5, <1>7 DEF GroupInv, AloneInv, ChangeInv
  <2>2. flights' = {g}
    BY <1>5, <1>7 DEF OnlyOne
  <2>3. QED BY <2>1, <2>2 DEF Change1
<1>8. QED BY <1>1, <1>2, <1>4, <1>6, <1>7 DEF GroupInv, TrueInv, ChangeInv

\* A request that is answered and not otherwise changed.
LEMMA EndsServes ==
  ASSUME Shapes, NEW f, NEW st \in {"ok", "failed"}, f \in flights, f.st = "sent",
         Served(f, [f EXCEPT !.st = st]), UNCHANGED tab
  PROVE  \E g : /\ Serves(f, g) /\ g.st = st /\ g.todo = f.todo /\ g.status = f.status /\ g.got = f.got
<1>1. PICK g : g = [f EXCEPT !.st = st]
  OBVIOUS
<1>2. Fields(f) /\ OfPage(f)
  BY DEF Shapes, RequestOK
<1>3. /\ Fields(g) /\ g.kind = f.kind /\ g.g = f.g /\ g.u = f.u /\ g.then = f.then /\ g.at = f.at /\ g.st = st
      /\ g.todo = f.todo /\ g.status = f.status /\ g.got = f.got
  BY <1>1, <1>2 DEF Fields
<1>4. Becomes(f, g)
  BY <1>2, <1>3 DEF Becomes, OfPage
<1>5. Served(f, g)
  BY <1>1
<1>6. Serves(f, g)
  BY <1>4, <1>5 DEF Serves, Served
<1>7. QED BY <1>3, <1>6

LEMMA SameServer ==
  ASSUME Shapes, UNCHANGED server
  PROVE  ServerOK' /\ LiveGroups' = LiveGroups /\ Present' = Present /\ member' = member /\ users' = users /\ groups' = groups
         /\ grants' = grants
  BY DEF Shapes, GroupTypeOK, server, ServerOK, LiveGroups, Present

LEMMA FailsPreserve ==
  ASSUME GroupInv, NEW f, ServeFails(f), UNCHANGED tab
  PROVE  GroupInv'
<1>1. Shapes /\ hist \in Histories /\ UNCHANGED server
  BY DEF GroupInv, Shapes, ServeFails
<1>2. PICK g : Serves(f, g) /\ g.st = "failed" /\ g.todo = f.todo /\ g.status = f.status /\ g.got = f.got
  <2>1. Shapes /\ f \in flights /\ f.st = "sent" /\ Served(f, [f EXCEPT !.st = "failed"])
    BY <1>1 DEF ServeFails
  <2>2. QED BY <2>1, EndsServes
<1>3. PICK b \in BOOLEAN : b = TRUE
  OBVIOUS
<1>4. hist' = [hist EXCEPT !.failed = b]
  BY <1>3 DEF ServeFails
<1>5. hist' \in Histories /\ hist'.failed = b
  BY <1>1, <1>3, <1>4 DEF Histories
<1>6. hist'.overlap = hist.overlap /\ hist'.other = hist.other /\ hist'.surprise = hist.surprise /\ hist'.lost = hist.lost
  BY <1>1, <1>4 DEF Histories
<1>7. PastMoves /\ hist'.failed
  BY <1>3, <1>5, <1>6 DEF PastMoves
<1>8. ASSUME OnlyOne(f, g), Sound PROVE Sound'
  <2>1. LiveGroups' = LiveGroups /\ Present' = Present /\ member' = member
    BY <1>1, SameServer
  <2>2. Known' = Known
    BY <1>6, <2>1, <1>2 DEF Known, InGroup, Serves, tab
  <2>3. (f.kind = "load" /\ page.name = "group" /\ f.got.found) => page.group \in LiveGroups' /\ f.got.items \subseteq Known'
    BY <1>8, <2>1, <2>2 DEF OnlyOne, Sound, AloneReq
  <2>4. QED BY <1>2, <1>6, <1>8, <2>1, <2>3, GrowsAlone DEF OnlyOne, ServeFails
<1>9. ServerOK'
  BY <1>1, SameServer
<1>10. QED BY <1>2, <1>7, <1>8, <1>9, ServesPreserve

\* A lost answer to a removal: the page goes on showing who was removed.
LEMMA LosePreserves ==
  ASSUME GroupInv, NEW f, LoseAnswer(f), UNCHANGED tab
  PROVE  GroupInv'
<1>1. Shapes /\ hist \in Histories /\ UNCHANGED server /\ UNCHANGED << page, shown, modal >>
  BY DEF GroupInv, Shapes, LoseAnswer, tab
<1>2. f \in flights /\ f.st = "ok" /\ Fields(f) /\ RequestOK(f) /\ OfPage(f)
  BY <1>1 DEF LoseAnswer, Shapes, RequestOK
<1>3. PICK g : g = [f EXCEPT !.st = "failed"]
  OBVIOUS
<1>4. /\ Fields(g) /\ g.kind = f.kind /\ g.g = f.g /\ g.u = f.u /\ g.then = f.then /\ g.at = f.at /\ g.st = "failed"
      /\ g.todo = f.todo /\ g.status = f.status /\ g.got = f.got
  BY <1>2, <1>3 DEF Fields
<1>5. Becomes(f, g)
  BY <1>2, <1>4 DEF Becomes, OfPage
<1>6. flights' = (flights \ {f}) \cup {g} /\ f.at # "gone"
  BY <1>2, <1>3 DEF LoseAnswer, RequestOK
<1>7. Serves(f, g)
  BY <1>2, <1>5, <1>6 DEF Serves
<1>8. PICK out : out = IF Removal(f) THEN {f.u} ELSE {}
  OBVIOUS
<1>9. out \subseteq Users
  BY <1>2, <1>8 DEF Removal, RequestOK, UserCalls
<1>10. PICK b \in BOOLEAN, lost \in SUBSET Users : b = TRUE /\ lost = hist.lost \cup out
  BY <1>1, <1>9 DEF Histories
<1>11. hist' = [hist EXCEPT !.failed = b, !.lost = lost]
  BY <1>8, <1>10 DEF LoseAnswer
<1>12. hist' \in Histories /\ hist'.failed = b /\ hist'.lost = lost
  BY <1>1, <1>10, <1>11 DEF Histories
<1>13. hist'.overlap = hist.overlap /\ hist'.other = hist.other /\ hist'.surprise = hist.surprise
  BY <1>1, <1>11 DEF Histories
<1>14. PastMoves /\ hist'.failed
  BY <1>10, <1>12, <1>13 DEF PastMoves
<1>15. /\ LiveGroups' = LiveGroups /\ Present' = Present /\ member' = member /\ InGroup' = InGroup
       /\ Known' = Known \cup out /\ hist'.lost = hist.lost \cup out
  BY <1>1, <1>10, <1>12, SameServer, SameView DEF Known
<1>16. ASSUME OnlyOne(f, g), Sound PROVE Sound'
  <2>1. AloneReq(f)
    BY <1>16 DEF Sound, OnlyOne
  <2>2. AloneReq(g)
    BY <1>2, <1>4, <2>1 DEF AloneReq
  <2>3. AloneReq(g)'
    BY <1>1, <1>15, <2>2 DEF AloneReq
  <2>4. ASSUME page.name = "group", shown.found, NEW u \in shown.items PROVE u \in Known'
    <3>1. u \in Known \/ (Removed(f) /\ f.u = u)
      BY <1>16, <2>4 DEF Sound, OnlyOne
    <3>2. QED BY <1>8, <1>15, <3>1 DEF Removed
  <2>5. \A m \in member : m[1] \in LiveGroups /\ m[2] \in Present \cup hist'.lost
    BY <1>15, <1>16 DEF Sound
  <2>6. /\ hist'.surprise \subseteq hist'.lost
        /\ (page.name = "group" /\ shown.found) => page.group \in LiveGroups
        /\ modal.kind = "updateGroupMembers" => modal.subjects \subseteq Present
    BY <1>13, <1>15, <1>16 DEF Sound
  <2>7. QED BY <1>1, <1>15, <1>16, <2>3, <2>4, <2>5, <2>6 DEF Sound, OnlyOne
<1>17. ServerOK'
  BY <1>1, SameServer
<1>18. QED BY <1>4, <1>7, <1>14, <1>16, <1>17, ServesPreserve

LEMMA ReadPreserves ==
  ASSUME GroupInv, NEW f, ServeRead(f), UNCHANGED tab
  PROVE  GroupInv'
<1>1. Shapes /\ UNCHANGED server /\ UNCHANGED hist /\ UNCHANGED << page, shown >>
  BY DEF GroupInv, ServeRead, tab
<1>2. PICK got : got = IF f.kind = "load" THEN View(page) ELSE Nothing
  OBVIOUS
<1>3. PICK was : was = IF f.u \in Present THEN users[f.u] ELSE None
  OBVIOUS
<1>4. PICK g : g = [f EXCEPT !.st = "ok", !.got = got, !.status = was]
  OBVIOUS
<1>5. f \in flights /\ f.st = "sent" /\ f.kind \in Reads /\ Served(f, g) /\ (f.kind # "load" => f.u \in Present)
  BY <1>2, <1>3, <1>4 DEF ServeRead, Sent
<1>6. Fields(f)
  BY <1>1, <1>5 DEF Shapes, RequestOK
<1>7. /\ Fields(g) /\ g.kind = f.kind /\ g.g = f.g /\ g.u = f.u /\ g.then = f.then /\ g.at = f.at /\ g.st = "ok"
      /\ g.todo = f.todo /\ g.status = was /\ g.got = got
  BY <1>4, <1>6 DEF Fields
<1>8. Becomes(f, g)
  BY <1>1, <1>2, <1>5, <1>7, ViewForm DEF Becomes
<1>9. Serves(f, g)
  BY <1>5, <1>8 DEF Serves, Served
<1>10. PastMoves /\ ServerOK'
  BY <1>1, SameServer DEF PastMoves, Shapes
<1>11. LiveGroups' = LiveGroups /\ Present' = Present /\ member' = member /\ users' = users
  BY <1>1, SameServer
<1>12. Known' = Known /\ InGroup \subseteq Known /\ InGroup' = InGroup /\ View(page)' = View(page) /\ ResOf' = ResOf
  BY <1>1, SameView DEF Known
<1>13. (f.kind = "load" /\ page.name = "group" /\ got.found) => page.group \in LiveGroups /\ got.items = InGroup
  <2>1. SUFFICES ASSUME f.kind = "load", page.name = "group", got.found
                 PROVE  page.group \in LiveGroups /\ got.items = InGroup
    OBVIOUS
  <2>2. got = GroupView(page.group)
    BY <1>1, <1>2, <2>1, ViewForm
  <2>3. page.group \in LiveGroups
    BY <2>1, <2>2 DEF GroupView, Nothing
  <2>4. got.items = { u \in Present : << page.group, u >> \in member }
    BY <2>2, <2>3 DEF GroupView
  <2>5. QED BY <2>3, <2>4 DEF InGroup
<1>14. ASSUME OnlyOne(f, g), Sound PROVE Sound'
  <2>1. f.kind \notin MemberCalls \cup {"deleteUser"} /\ hist'.surprise = hist.surprise /\ hist'.lost = hist.lost
    BY <1>1, <1>5 DEF Reads, MemberCalls
  <2>2. (f.kind = "load" /\ page.name = "group" /\ g.got.found) => page.group \in LiveGroups' /\ g.got.items \subseteq Known'
    BY <1>7, <1>11, <1>12, <1>13
  <2>3. QED BY <1>5, <1>7, <1>9, <1>11, <1>14, <2>1, <2>2, GrowsAlone DEF OnlyOne
<1>15. ASSUME OnlyOne(f, g), True1 PROVE Reads1(g)'
  <2>1. Reads1(f)
    BY <1>15 DEF True1, OnlyOne
  <2>2. f.kind = "load" => g.got = View(page)
    BY <1>2, <1>7
  <2>3. Reads1(g)
    BY <1>5, <1>7, <2>1, <2>2 DEF Reads1, Reads
  <2>4. QED BY <1>1, <1>12, <2>3 DEF Reads1
<1>16. ASSUME Change1 PROVE ~hist'.flipped /\ Change(g)'
  <2>1. f.kind = "getUser" => g.status = users[f.u]
    BY <1>3, <1>5, <1>7
  <2>2. QED BY <1>1, <1>7, <1>11, <1>16, <2>1 DEF Change, Change1
<1>17. QED BY <1>7, <1>9, <1>10, <1>14, <1>15, <1>16, ServesPreserve

LEMMA GroupPreserves ==
  ASSUME GroupInv, NEW f, ServeGroup(f), UNCHANGED tab
  PROVE  GroupInv'
<1>1. Shapes /\ UNCHANGED << users, hist >> /\ UNCHANGED << page, shown, modal >>
  BY DEF GroupInv, ServeGroup, tab
<1>2. f \in flights /\ f.st = "sent" /\ f.kind \in GroupCalls /\ Served(f, [f EXCEPT !.st = "ok"])
  BY DEF ServeGroup, Sent, Ok
<1>3. PICK g : Serves(f, g) /\ g.st = "ok" /\ g.todo = f.todo /\ g.status = f.status /\ g.got = f.got
  BY <1>1, <1>2, EndsServes
<1>4. g.kind = f.kind
  BY <1>3 DEF Serves, Becomes
<1>5. f.g \in Groups /\ (f.kind = "addGroupResources" => f.u \in Resources)
  BY <1>1, <1>2 DEF Shapes, RequestOK
<1>6. Present' = Present /\ PastMoves /\ hist'.surprise = hist.surprise /\ hist'.lost = hist.lost
  BY <1>1 DEF Present, PastMoves, Shapes
<1>7. /\ users \in [Users -> Statuses \cup {"unborn", "deleted"}] /\ groups \in [Groups -> {"unborn", "live", "deleted"}]
      /\ member \subseteq Groups \X Users /\ grants \subseteq Groups \X Resources
  BY <1>1 DEF Shapes, GroupTypeOK
<1>8. /\ f.kind = "addGroup" => groups' = [groups EXCEPT ![f.g] = "live"] /\ UNCHANGED << member, grants >>
      /\ f.kind = "updateGroup" => UNCHANGED << groups, member, grants >>
      /\ f.kind = "deleteGroup" => /\ groups' = [groups EXCEPT ![f.g] = "deleted"]
                                   /\ member' = { m \in member : m[1] # f.g }
                                   /\ grants' = { m \in grants : m[1] # f.g }
      /\ f.kind = "addGroupResources" => grants' = grants \cup {<< f.g, f.u >>} /\ UNCHANGED << groups, member >>
  BY DEF ServeGroup
<1>9. f.kind \in {"addGroup", "updateGroup", "deleteGroup", "addGroupResources"}
  BY <1>2 DEF GroupCalls
<1>10. ServerOK'
  <2>1. CASE f.kind = "addGroup"
    BY <1>1, <1>5, <1>7, <1>8, <2>1 DEF ServerOK
  <2>2. CASE f.kind = "updateGroup"
    BY <1>1, <1>7, <1>8, <2>2 DEF ServerOK
  <2>3. CASE f.kind = "deleteGroup"
    BY <1>1, <1>5, <1>7, <1>8, <2>3 DEF ServerOK
  <2>4. CASE f.kind = "addGroupResources"
    BY <1>1, <1>5, <1>7, <1>8, <2>4 DEF ServerOK
  <2>5. QED BY <1>9, <2>1, <2>2, <2>3, <2>4
<1>11. ASSUME OnlyOne(f, g), Sound PROVE Sound'
  <2>1. CASE f.kind = "deleteGroup"
    <3>1. page.name = "groups" /\ modal.kind # "updateGroupMembers"
      BY <1>11, <2>1 DEF OnlyOne, Sound, AloneReq, None
    <3>2. AloneReq(g)'
      BY <1>1, <1>4, <2>1, <3>1 DEF AloneReq
    <3>3. ASSUME NEW m \in member' PROVE m[1] \in LiveGroups' /\ m[2] \in Present' \cup hist'.lost
      <4>1. m \in member /\ m[1] # f.g
        BY <1>8, <2>1, <3>3
      <4>2. m[1] \in LiveGroups /\ m[2] \in Present \cup hist.lost
        BY <1>11, <4>1 DEF Sound
      <4>3. QED BY <1>5, <1>6, <1>7, <1>8, <2>1, <4>1, <4>2 DEF LiveGroups
    <3>4. QED BY <1>1, <1>6, <1>11, <3>1, <3>2, <3>3 DEF Sound, OnlyOne
  <2>2. CASE f.kind # "deleteGroup"
    <3>1. member' = member /\ LiveGroups \subseteq LiveGroups'
      BY <1>5, <1>7, <1>8, <1>9, <2>2 DEF LiveGroups
    <3>2. f.kind \notin MemberCalls \cup {"deleteUser"} /\ f.kind # "load"
      BY <1>9 DEF MemberCalls
    <3>3. QED BY <1>2, <1>3, <1>6, <1>11, <3>1, <3>2, GrowsAlone DEF OnlyOne
  <2>3. QED BY <2>1, <2>2
<1>12. ASSUME OnlyOne(f, g), Sound, True1 PROVE Reads1(g)'
  <2>1. Reads1(f) /\ AloneReq(f)
    BY <1>12 DEF True1, Sound, OnlyOne
  <2>2. (page.name = "group" /\ f.kind # "addGroupResources") => grants' = grants
    BY <1>8, <1>9, <2>1 DEF AloneReq
  <2>3. (page.name = "group" /\ shown.found /\ f.kind # "addGroupResources") => shown.res = ResOf'
    BY <1>1, <1>9, <2>1, <2>2 DEF Reads1, ResOf
  <2>4. QED BY <1>1, <1>3, <1>4, <1>9, <2>3 DEF Reads1
<1>13. ASSUME Change1 PROVE ~hist'.flipped /\ Change(g)'
  BY <1>1, <1>3, <1>4, <1>9, <1>13 DEF Change, Change1
<1>14. QED BY <1>3, <1>6, <1>10, <1>11, <1>12, <1>13, ServesPreserve

LEMMA AddMembersPreserves ==
  ASSUME GroupInv, NEW f, ServeAddMembers(f), UNCHANGED tab
  PROVE  GroupInv'
<1>1. Shapes /\ UNCHANGED << users, groups, grants >> /\ UNCHANGED << page, shown, modal >> /\ hist \in Histories
  BY DEF GroupInv, ServeAddMembers, tab, Shapes
<1>2. f \in flights /\ f.st = "sent" /\ f.kind = "updateGroupMembers"
  BY DEF ServeAddMembers, Sent
<1>3. PICK u \in f.todo :
          LET g == [f EXCEPT !.todo = @ \ {u}, !.st = IF f.todo = {u} THEN "ok" ELSE "sent"] IN
          /\ member' = member \cup {<< f.g, u >>}
          /\ hist' = [hist EXCEPT !.surprise = @ \cup ({u} \ { v \in Users : v \in f.got.items \/ << f.g, v >> \in member })]
          /\ IF g.st = "ok" THEN Served(f, g) ELSE flights' = (flights \ {f}) \cup {g}
  BY DEF ServeAddMembers
<1>4. PICK st \in {"ok", "sent"} : st = IF f.todo = {u} THEN "ok" ELSE "sent"
  OBVIOUS
<1>5. PICK g : g = [f EXCEPT !.todo = @ \ {u}, !.st = st]
  OBVIOUS
<1>6. RequestOK(f) /\ Fields(f) /\ OfPage(f)
  BY <1>1, <1>2 DEF Shapes, RequestOK
<1>7. /\ Fields(g) /\ g.kind = f.kind /\ g.g = f.g /\ g.u = f.u /\ g.then = f.then /\ g.at = f.at /\ g.st = st
      /\ g.todo = f.todo \ {u} /\ g.status = f.status /\ g.got = f.got
  BY <1>5, <1>6 DEF Fields
<1>8. IF g.st = "ok" THEN Served(f, g) ELSE flights' = (flights \ {f}) \cup {g}
  BY <1>3, <1>4, <1>5
<1>9. Becomes(f, g)
  BY <1>2, <1>4, <1>7 DEF Becomes
<1>10. Serves(f, g)
  BY <1>2, <1>4, <1>7, <1>8, <1>9 DEF Serves, Served
<1>11. PICK b \in SUBSET Users : b = hist.surprise \cup ({u} \ { v \in Users : v \in f.got.items \/ << f.g, v >> \in member })
  BY <1>1, <1>2, <1>3, <1>6 DEF Histories, RequestOK
<1>12. hist' = [hist EXCEPT !.surprise = b]
  BY <1>3, <1>11
<1>13. hist' \in Histories /\ hist'.surprise = b
  BY <1>1, <1>11, <1>12 DEF Histories
<1>14. hist'.overlap = hist.overlap /\ hist'.other = hist.other /\ hist'.failed = hist.failed /\ hist'.flipped = hist.flipped
       /\ hist'.lost = hist.lost
  BY <1>1, <1>12 DEF Histories
<1>15. PastMoves
  BY <1>1, <1>13, <1>14 DEF PastMoves, Shapes
<1>16. f.g \in Groups /\ u \in Users
  BY <1>2, <1>3, <1>6 DEF RequestOK, MemberCalls
<1>. member' = member \cup {<< f.g, u >>}
  BY <1>3
<1>17. ServerOK'
  BY <1>1, <1>16 DEF ServerOK, Shapes, GroupTypeOK
<1>18. Present' = Present /\ LiveGroups' = LiveGroups /\ ResOf' = ResOf
  BY <1>1 DEF Present, LiveGroups, ResOf
<1>19. ASSUME OnlyOne(f, g), Sound
       PROVE  /\ AloneReq(f) /\ Known' = Known \cup {u} /\ u \in Present \cup hist.lost /\ u \in f.then /\ f.g = page.group
              /\ page.group \in LiveGroups
  <2>1. AloneReq(f)
    BY <1>19 DEF OnlyOne, Sound
  <2>2. f.g = page.group /\ u \in Present \cup hist.lost /\ u \in f.then /\ page.group \in LiveGroups
    BY <1>2, <1>3, <2>1 DEF AloneReq
  <2>3. member' = member \cup {<< page.group, u >>}
    BY <2>2
  <2>4. Known' = Known \cup {u}
    BY <1>1, <1>14, <1>18, <2>2, <2>3 DEF Known, InGroup
  <2>5. QED BY <2>1, <2>2, <2>4
<1>20. ASSUME OnlyOne(f, g), Sound PROVE Sound'
  <2>1. /\ AloneReq(f) /\ Known' = Known \cup {u} /\ u \in Present \cup hist.lost /\ u \in f.then /\ f.g = page.group
        /\ page.group \in LiveGroups
    BY <1>19, <1>20
  <2>2. u \in f.got.items \/ << f.g, u >> \in member \/ u \in hist.lost
    BY <1>2, <2>1 DEF AloneReq, Known, InGroup
  <2>3. hist'.surprise \subseteq hist'.lost
    BY <1>11, <1>13, <1>14, <1>16, <1>20, <2>2 DEF Sound
  <2>4. AloneReq(g)'
    <3>1. /\ page.name = "group" /\ f.then \subseteq Present \cup hist.lost /\ f.todo \subseteq f.then
          /\ f.then \ f.todo \subseteq Known /\ f.then \ f.got.items \subseteq Known
      BY <1>2, <2>1 DEF AloneReq
    <3>2. g.st = "ok" => g.todo = {}
      BY <1>4, <1>7
    <3>3. g.then \ g.todo \subseteq Known' /\ g.then \ g.got.items \subseteq Known' /\ g.todo \subseteq g.then
      BY <1>7, <2>1, <3>1
    <3>4. QED BY <1>1, <1>2, <1>7, <1>14, <1>18, <2>1, <3>1, <3>2, <3>3 DEF AloneReq
  <2>5. ASSUME NEW m \in member' PROVE m[1] \in LiveGroups' /\ m[2] \in Present' \cup hist'.lost
    BY <1>14, <1>18, <1>20, <2>1, <2>5 DEF Sound
  <2>6. (page.name = "group" /\ shown.found) => shown.items \subseteq Known'
    BY <1>2, <1>20, <2>1 DEF Sound, OnlyOne, Removed, Removal
  <2>7. modal.kind = "updateGroupMembers" => modal.subjects \subseteq Present
    BY <1>20 DEF Sound
  <2>8. QED BY <1>1, <1>18, <1>20, <2>1, <2>3, <2>4, <2>5, <2>6, <2>7 DEF Sound, OnlyOne
<1>21. ASSUME OnlyOne(f, g), Sound, True1, ~hist'.failed PROVE Reads1(g)'
  <2>1. Reads1(f)
    BY <1>21 DEF True1, OnlyOne
  <2>2. InGroup' \subseteq InGroup \cup {u} /\ u \in f.then
    <3>1. hist.lost = {} /\ hist'.lost = {}
      BY <1>1, <1>14, <1>21 DEF Shapes
    <3>2. QED BY <1>19, <1>21, <3>1 DEF Known
  <2>3. InGroup' \subseteq g.then
    BY <1>2, <1>7, <2>1, <2>2 DEF Reads1
  <2>4. g.st # "failed" /\ g.kind = "updateGroupMembers"
    BY <1>2, <1>4, <1>7
  <2>5. (page.name = "group" /\ shown.found) => shown.res = ResOf
    BY <1>2, <2>1 DEF Reads1
  <2>6. QED BY <1>1, <1>18, <2>3, <2>4, <2>5 DEF Reads1
<1>22. ASSUME Change1 PROVE ~hist'.flipped /\ Change(g)'
  BY <1>2, <1>7, <1>14, <1>22 DEF Change, Change1
<1>23. QED BY <1>4, <1>7, <1>10, <1>15, <1>17, <1>20, <1>21, <1>22, ServesPreserve

LEMMA RemovePreserves ==
  ASSUME GroupInv, NEW f, ServeRemoveMember(f), UNCHANGED tab
  PROVE  GroupInv'
<1>1. /\ Shapes /\ UNCHANGED << users, groups, grants, hist >> /\ UNCHANGED << page, shown, modal >>
      /\ member' = member \ {<< f.g, f.u >>}
  BY DEF GroupInv, ServeRemoveMember, tab
<1>2. f \in flights /\ f.st = "sent" /\ f.kind = "removeGroupMember"
  BY DEF ServeRemoveMember, Sent
<1>3. PICK g : Serves(f, g) /\ g.st = "ok" /\ g.todo = f.todo /\ g.status = f.status /\ g.got = f.got
  <2>1. Shapes /\ f \in flights /\ f.st = "sent" /\ Served(f, [f EXCEPT !.st = "ok"])
    BY <1>1 DEF ServeRemoveMember, Sent, Ok
  <2>2. QED BY <2>1, EndsServes
<1>4. g.kind = f.kind /\ g.u = f.u /\ g.then = f.then
  BY <1>3 DEF Serves, Becomes
<1>5. Present' = Present /\ LiveGroups' = LiveGroups /\ ResOf' = ResOf /\ PastMoves /\ ServerOK'
  BY <1>1 DEF Present, LiveGroups, ResOf, PastMoves, Shapes, GroupTypeOK, ServerOK
<1>6. ASSUME OnlyOne(f, g), ~hist.overlap PROVE f.g = page.group /\ page.name = "group" /\ InGroup' = InGroup \ {f.u}
  <2>1. f.at = "here"
    BY <1>2, <1>6 DEF GroupInv, OneRequest
  <2>2. OfPage(f)
    BY <1>1, <1>2 DEF Shapes
  <2>3. f.g = page.group /\ page.name = "group"
    BY <1>2, <2>1, <2>2 DEF OfPage, MemberCalls
  <2>4. member' = member \ {<< page.group, f.u >>}
    BY <1>1, <2>3
  <2>5. QED BY <1>1, <1>5, <2>3, <2>4 DEF InGroup
<1>7. ASSUME OnlyOne(f, g), Sound PROVE Sound'
  <2>1. AloneReq(f) /\ modal.kind # "updateGroupMembers"
    BY <1>2, <1>7 DEF OnlyOne, Sound, None
  <2>2. Known \ {f.u} \subseteq Known'
    BY <1>1, <1>5 DEF Known, InGroup
  <2>3. page.name = "group" => g.then \subseteq Known' /\ g.u \notin g.then
    BY <1>2, <1>4, <2>1, <2>2 DEF AloneReq
  <2>4. AloneReq(g)'
    BY <1>1, <1>2, <1>4, <2>3 DEF AloneReq
  <2>5. ASSUME NEW m \in member' PROVE m[1] \in LiveGroups' /\ m[2] \in Present' \cup hist'.lost
    BY <1>1, <1>5, <1>7, <2>5 DEF Sound
  <2>6. Removed(g)
    BY <1>2, <1>3, <1>4 DEF Removed, Removal
  <2>7. ASSUME page.name = "group", shown.found, NEW u \in shown.items PROVE u \in Known' \/ (Removed(g) /\ g.u = u)
    <3>1. u \in Known
      BY <1>2, <1>7, <2>7 DEF Sound, OnlyOne, Removed
    <3>2. QED BY <1>4, <2>2, <2>6, <3>1
  <2>8. QED BY <1>1, <1>5, <1>7, <2>1, <2>4, <2>5, <2>7 DEF Sound, OnlyOne
<1>8. ASSUME OnlyOne(f, g), ~hist.overlap, True1 PROVE Reads1(g)'
  <2>1. Reads1(f)
    BY <1>8 DEF True1, OnlyOne
  <2>2. InGroup' = InGroup \ {f.u} /\ page.name = "group"
    BY <1>6, <1>8
  <2>3. g.then = InGroup' \ {g.u} /\ g.u \notin InGroup'
    BY <1>2, <1>4, <2>1, <2>2 DEF Reads1
  <2>4. shown.found => shown.res = ResOf
    BY <1>2, <2>1, <2>2 DEF Reads1
  <2>5. QED BY <1>1, <1>2, <1>3, <1>4, <1>5, <2>3, <2>4 DEF Reads1
<1>9. ASSUME Change1 PROVE ~hist'.flipped /\ Change(g)'
  BY <1>1, <1>2, <1>4, <1>9 DEF Change, Change1
<1>10. QED BY <1>1, <1>3, <1>5, <1>7, <1>8, <1>9, ServesPreserve

LEMMA UserPreserves ==
  ASSUME GroupInv, NEW f, ServeUser(f), UNCHANGED tab
  PROVE  GroupInv'
<1>1. Shapes /\ UNCHANGED << groups, grants >> /\ UNCHANGED << page, shown, modal >> /\ hist \in Histories
  BY DEF GroupInv, ServeUser, tab, Shapes
<1>2. f \in flights /\ f.st = "sent" /\ f.kind \in {"addUser", "updateUser", "deactivateUser", "deleteUser"}
  BY DEF ServeUser, Sent, UserCalls
<1>3. PICK g : Serves(f, g) /\ g.st = "ok" /\ g.todo = f.todo /\ g.status = f.status /\ g.got = f.got
  <2>1. Shapes /\ f \in flights /\ f.st = "sent" /\ Served(f, [f EXCEPT !.st = "ok"])
    BY <1>1 DEF ServeUser, Sent, Ok
  <2>2. QED BY <2>1, EndsServes
<1>4. g.kind = f.kind /\ g.u = f.u /\ g.then = f.then
  BY <1>3 DEF Serves, Becomes
<1>5. PICK became : became = CASE f.kind = "deleteUser" -> "deleted"
                               [] f.kind = "deactivateUser" -> "inactive"
                               [] OTHER -> f.status
  OBVIOUS
<1>6. users' = [users EXCEPT ![f.u] = became]
  BY <1>5 DEF ServeUser
<1>7. f.u \in Users /\ (f.kind \in {"addUser", "updateUser"} => f.status \in Statuses)
  BY <1>1, <1>2 DEF Shapes, RequestOK, UserCalls
<1>8. /\ f.kind = "deleteUser" => became = "deleted"
      /\ f.kind # "deleteUser" => became \in Statuses
  BY <1>2, <1>5, <1>7 DEF Statuses
<1>9. PICK b \in BOOLEAN : b = (hist.flipped \/ (f.kind = "updateUser" /\ f.kept /\ users[f.u] # f.status))
  OBVIOUS
<1>10. hist' = [hist EXCEPT !.flipped = b]
  BY <1>9 DEF ServeUser
<1>11. hist' \in Histories /\ hist'.flipped = b
  BY <1>1, <1>9, <1>10 DEF Histories
<1>12. hist'.overlap = hist.overlap /\ hist'.other = hist.other /\ hist'.failed = hist.failed /\ hist'.surprise = hist.surprise
       /\ hist'.lost = hist.lost
  BY <1>1, <1>10 DEF Histories
<1>13. PastMoves
  BY <1>1, <1>11, <1>12 DEF PastMoves, Shapes
<1>14. users \in [Users -> Statuses \cup {"unborn", "deleted"}] /\ member \subseteq Groups \X Users
  BY <1>1 DEF Shapes, GroupTypeOK
<1>15. /\ f.kind = "deleteUser" => member' = { m \in member : m[2] # f.u }
       /\ f.kind # "deleteUser" => member' = member
  BY DEF ServeUser
<1>16. ServerOK'
  <2>1. users' \in [Users -> Statuses \cup {"unborn", "deleted"}]
    BY <1>6, <1>7, <1>8, <1>14
  <2>2. member' \subseteq Groups \X Users
    BY <1>14, <1>15
  <2>3. QED BY <1>1, <2>1, <2>2 DEF ServerOK, Shapes, GroupTypeOK
<1>17. LiveGroups' = LiveGroups /\ ResOf' = ResOf
  BY <1>1 DEF LiveGroups, ResOf
<1>18. CASE f.kind = "deleteUser"
  <2>1. Present' = Present \ {f.u}
    BY <1>6, <1>7, <1>8, <1>14, <1>18 DEF Present, Statuses
  <2>2. InGroup' = InGroup \ {f.u}
    <3>1. ASSUME NEW u \in Users PROVE << page.group, u >> \in member' <=> (<< page.group, u >> \in member /\ u # f.u)
      BY <1>15, <1>18
    <3>2. QED BY <1>1, <2>1, <3>1 DEF InGroup, Present
  <2>3. ASSUME OnlyOne(f, g), Sound PROVE Sound'
    <3>1. AloneReq(f) /\ modal.kind # "updateGroupMembers"
      BY <1>18, <2>3 DEF OnlyOne, Sound, None
    <3>2. page.name = "group" => g.then \subseteq Known' /\ g.u \notin g.then
      BY <1>4, <1>12, <1>18, <2>2, <3>1 DEF AloneReq, Known
    <3>3. AloneReq(g)'
      BY <1>1, <1>4, <1>18, <3>2 DEF AloneReq
    <3>4. ASSUME NEW m \in member' PROVE m[1] \in LiveGroups' /\ m[2] \in Present' \cup hist'.lost
      BY <1>12, <1>15, <1>17, <1>18, <2>1, <2>3, <3>4 DEF Sound
    <3>5. Removed(g)
      BY <1>3, <1>4, <1>18 DEF Removed, Removal
    <3>6. ASSUME page.name = "group", shown.found, NEW u \in shown.items PROVE u \in Known' \/ (Removed(g) /\ g.u = u)
      <4>1. u \in Known
        BY <1>2, <2>3, <3>6 DEF Sound, OnlyOne, Removed
      <4>2. QED BY <1>4, <1>12, <2>2, <3>5, <4>1 DEF Known
    <3>7. QED BY <1>1, <1>12, <1>17, <2>3, <3>1, <3>3, <3>4, <3>6 DEF Sound, OnlyOne
  <2>4. ASSUME OnlyOne(f, g), True1 PROVE Reads1(g)'
    <3>1. Reads1(f)
      BY <2>4 DEF True1, OnlyOne
    <3>2. page.name = "group" => g.then = InGroup' \ {g.u} /\ g.u \notin InGroup'
      BY <1>4, <1>18, <2>2, <3>1 DEF Reads1
    <3>3. (page.name = "group" /\ shown.found) => shown.res = ResOf
      BY <1>18, <3>1 DEF Reads1
    <3>4. QED BY <1>1, <1>3, <1>4, <1>17, <1>18, <3>2, <3>3 DEF Reads1
  <2>5. ASSUME Change1 PROVE ~hist'.flipped /\ Change(g)'
    BY <1>4, <1>9, <1>11, <1>18, <2>5 DEF Change, Change1
  <2>6. QED BY <1>3, <1>13, <1>16, <2>3, <2>4, <2>5, ServesPreserve
<1>19. CASE f.kind # "deleteUser"
  <2>1. Present \subseteq Present' /\ (f.kind # "addUser" => Present' = Present)
    <3>1. f.kind # "addUser" => f.u \in Present
      BY <1>2, <1>19 DEF ServeUser
    <3>2. Present' = Present \cup {f.u}
      BY <1>6, <1>7, <1>8, <1>14, <1>19 DEF Present
    <3>3. QED BY <3>1, <3>2
  <2>2. f.kind # "addUser" => InGroup' = InGroup
    BY <1>1, <1>15, <1>19, <2>1 DEF InGroup
  <2>3. ASSUME OnlyOne(f, g), Sound PROVE Sound'
    <3>1. f.kind \notin MemberCalls \cup {"deleteUser"} /\ f.kind # "load" /\ member' = member
      BY <1>2, <1>15, <1>19 DEF MemberCalls
    <3>2. QED BY <1>2, <1>3, <1>12, <1>17, <2>1, <2>3, <3>1, GrowsAlone DEF OnlyOne
  <2>4. ASSUME OnlyOne(f, g), True1 PROVE Reads1(g)'
    <3>1. Reads1(f)
      BY <2>4 DEF True1, OnlyOne
    <3>2. (page.name = "group" /\ shown.found) => shown.res = ResOf
      BY <1>2, <3>1 DEF Reads1
    <3>3. (f.kind = "deactivateUser" /\ page.name = "group" /\ shown.found) => shown.items = InGroup'
      BY <2>2, <3>1 DEF Reads1
    <3>4. (f.kind = "updateUser" /\ page.name = "group" /\ shown.found) => g.then = InGroup'
      BY <1>4, <2>2, <3>1 DEF Reads1
    <3>5. QED BY <1>1, <1>2, <1>3, <1>4, <1>17, <1>19, <3>2, <3>3, <3>4 DEF Reads1
  <2>5. ASSUME OnlyOne(f, g), Change1 PROVE ~hist'.flipped /\ Change(g)'
    <3>1. ~hist.flipped /\ Change(f)
      BY <2>5 DEF Change1, OnlyOne
    <3>2. ~hist'.flipped
      BY <1>2, <1>9, <1>11, <3>1 DEF Change
    <3>3. QED BY <1>2, <1>3, <1>4, <3>2 DEF Change
  <2>6. QED BY <1>3, <1>13, <1>16, <2>3, <2>4, <2>5, ServesPreserve
<1>20. QED BY <1>18, <1>19

LEMMA ServePreserves == ASSUME GroupInv, NEW f, Serve(f) PROVE GroupInv'
  BY ReadPreserves, GroupPreserves, AddMembersPreserves, RemovePreserves, UserPreserves, FailsPreserve,
     LosePreserves DEF Serve

\* The other administrator.
LEMMA OtherPreserves == ASSUME GroupInv, Other PROVE GroupInv'
<1>1. Shapes /\ hist \in Histories /\ UNCHANGED << page, loading, shown, modal, flights, groups, grants >>
  BY DEF GroupInv, Shapes, Other
<1>2. hist.other \in Nat /\ hist.ops \in Nat
  BY <1>1 DEF Histories
<1>3. PICK n \in Nat, k \in Nat : n = hist.other + 1 /\ k = hist.ops + 1
  BY <1>2
<1>4. hist' = [hist EXCEPT !.other = n, !.ops = k]
  BY <1>3 DEF Other
<1>5. hist' \in Histories /\ hist'.other = n
  BY <1>1, <1>3, <1>4 DEF Histories
<1>6. hist'.overlap = hist.overlap /\ hist'.failed = hist.failed /\ hist'.lost = hist.lost
  BY <1>1, <1>4 DEF Histories
<1>7. ~Alone'
  BY <1>2, <1>3, <1>5 DEF Alone
<1>8. users' \in [Users -> Statuses \cup {"unborn", "deleted"}] /\ member' \subseteq Groups \X Users
  BY <1>1 DEF Other, Shapes, GroupTypeOK, LiveGroups, Present, Statuses
<1>9. GroupTypeOK'
  BY <1>1, <1>8 DEF Shapes, GroupTypeOK
<1>10. PageOK'
  BY <1>1 DEF Shapes, PageOK, ViewOK
<1>11. \A x \in flights' : RequestOK(x)' /\ OfPage(x)'
  BY <1>1 DEF Shapes, RequestOK, Fields, OfPage, ViewOK
<1>12. OneRequest'
  BY <1>1, <1>6 DEF GroupInv, OneRequest
<1>13. QED BY <1>1, <1>5, <1>6, <1>7, <1>9, <1>10, <1>11, <1>12 DEF GroupInv, Shapes, AloneInv, TrueInv, ChangeInv, Calm

-----------------------------------------------------------------------------
(* The continuations.                                                      *)

\* The page shows the list a change closed over.
Relists == {"updateGroupMembers", "removeGroupMember", "deleteUser", "refresh"}
ShowsThen(f) ==
    /\ shown' \in [found : BOOLEAN, items : {f.then}, res : {shown.res}] /\ (shown'.found <=> shown.found)

\* The answer to f is in and nothing follows.
Drops(f) ==
    /\ f \in flights /\ f.st # "sent" /\ flights' = flights \ {f} /\ loading' \in BOOLEAN
    /\ \/ modal' \in {modal, Closed}
       \/ /\ f.kind = "getUser" /\ f.st = "ok"
          /\ modal'.kind = "updateUser" /\ modal'.item = f.u /\ modal'.status = f.status
    /\ f.st = "ok" => \/ f.kind = "load" /\ shown' = f.got
                      \/ f.kind \in Relists /\ page.name = "group" /\ ShowsThen(f)
                      \/ f.kind \in {"deactivateUser", "getUser"} /\ page.name = "group" /\ shown' = shown
    /\ f.st # "ok" => shown' = shown
    /\ UNCHANGED << page, hist >> /\ UNCHANGED server

LEMMA ThenShown ==
  ASSUME Shapes, NEW f, shown' = [shown EXCEPT !.items = f.then]
  PROVE  ShowsThen(f)
<1>1. shown \in [found : BOOLEAN, items : {shown.items}, res : {shown.res}]
  BY DEF Shapes, PageOK, ViewOK
<1>2. QED BY <1>1 DEF ShowsThen

\* Requests whose answer is in have somebody who waits.
LEMMA AnswerOf ==
  ASSUME Shapes, NEW f, f \in flights, f.st # "sent"
  PROVE  RequestOK(f) /\ OfPage(f) /\ f.at # "gone" /\ f.st \in {"ok", "failed"}
  BY DEF Shapes, RequestOK

LEMMA DropForms ==
  ASSUME Shapes, NEW f, UNCHANGED hist, UNCHANGED server,
         \/ LoadAnswer(f) \/ AddMembersAnswer(f) \/ RemoveAnswer(f) \/ DeactivateAnswer(f) \/ EditAnswer(f) \/ RefreshAnswer(f)
  PROVE  Drops(f)
<1>1. CASE LoadAnswer(f)
  BY <1>1 DEF LoadAnswer, Answered, Drops
<1>2. loading \in BOOLEAN
  BY DEF Shapes, GroupTypeOK
<1>3. CASE AddMembersAnswer(f)
  <2>1. f \in flights /\ f.st # "sent" /\ f.kind = "updateGroupMembers"
    BY <1>3 DEF AddMembersAnswer, Answered
  <2>2. page.name = "group"
    BY <2>1, AnswerOf DEF OfPage, MemberCalls
  <2>3. f.st = "ok" => ShowsThen(f)
    BY <1>3, ThenShown DEF AddMembersAnswer
  <2>4. QED BY <1>2, <1>3, <2>1, <2>2, <2>3 DEF AddMembersAnswer, CloseIf, Drops, Relists
<1>4. CASE RemoveAnswer(f)
  <2>1. f \in flights /\ f.st # "sent" /\ f.kind \in {"removeGroupMember", "deleteUser"} /\ page.name = "group"
    BY <1>4 DEF RemoveAnswer, Answered
  <2>2. f.st = "ok" => ShowsThen(f)
    BY <1>4, ThenShown DEF RemoveAnswer
  <2>3. QED BY <1>2, <1>4, <2>1, <2>2 DEF RemoveAnswer, Drops, Relists
<1>5. CASE DeactivateAnswer(f)
  BY <1>2, <1>5 DEF DeactivateAnswer, Answered, Drops, tab
<1>6. CASE EditAnswer(f)
  <2>1. f \in flights /\ f.st # "sent" /\ f.kind = "getUser"
    BY <1>6 DEF EditAnswer, Answered
  <2>2. page.name = "group"
    BY <2>1, AnswerOf DEF OfPage
  <2>3. PICK m : m = [Dialog("updateUser", f.u) EXCEPT !.status = f.status]
    OBVIOUS
  <2>4. m.kind = "updateUser" /\ m.item = f.u /\ m.status = f.status
    BY <2>3 DEF Dialog, Closed
  <2>5. modal' = IF f.st = "ok" THEN m ELSE modal
    BY <1>6, <2>3 DEF EditAnswer
  <2>6. flights' = flights \ {f} /\ UNCHANGED << page, loading, shown, deleting >>
    BY <1>6 DEF EditAnswer
  <2>7. QED BY <1>2, <2>1, <2>2, <2>4, <2>5, <2>6 DEF Drops
<1>7. CASE RefreshAnswer(f)
  <2>1. f \in flights /\ f.st # "sent" /\ f.kind = "refresh"
    BY <1>7 DEF RefreshAnswer, Answered
  <2>2. page.name = "group"
    BY <2>1, AnswerOf DEF OfPage
  <2>3. f.st = "ok" => ShowsThen(f)
    BY <1>7, ThenShown DEF RefreshAnswer
  <2>4. QED BY <1>2, <1>7, <2>1, <2>2, <2>3 DEF RefreshAnswer, Drops, Relists
<1>8. QED BY <1>1, <1>3, <1>4, <1>5, <1>6, <1>7

LEMMA DropsShapes == ASSUME Shapes, NEW f, Drops(f) PROVE Shapes'
<1>1. GroupTypeOK'
  BY DEF Shapes, GroupTypeOK, Drops, server
<1>2. RequestOK(f) /\ OfPage(f) /\ f.at # "gone"
  BY AnswerOf DEF Drops
<1>3. ViewOK(shown, page.name)
  BY DEF Shapes, PageOK
<1>4. ViewOK(shown, page.name)'
  <2>1. CASE shown' = shown
    BY <1>3, <2>1 DEF Drops, ViewOK
  <2>2. CASE f.kind = "load" /\ shown' = f.got
    BY <1>2, <2>2 DEF Drops, ViewOK, OfPage
  <2>3. CASE page.name = "group" /\ ShowsThen(f)
    <3>1. f.then \subseteq Users
      BY <1>2, <2>3 DEF OfPage
    <3>2. QED BY <2>3, <3>1 DEF Drops, ViewOK, ShowsThen
  <2>4. QED BY <2>1, <2>2, <2>3 DEF Drops
<1>5. /\ modal'.kind = "updateGroup" => modal'.item \in Groups
      /\ modal'.kind = "updateUser" => modal'.item \in Users
  <2>1. Closed.kind = "none"
    BY DEF Closed, None
  <2>2. f.kind = "getUser" => f.u \in Users
    BY <1>2 DEF RequestOK
  <2>3. QED BY <2>1, <2>2 DEF Drops, Shapes, PageOK
<1>6. PageOK'
  BY <1>4, <1>5 DEF PageOK, Drops, Shapes
<1>7. \A x \in flights' : RequestOK(x)' /\ OfPage(x)'
  BY DEF Shapes, RequestOK, Fields, OfPage, ViewOK, Drops
<1>8. QED BY <1>1, <1>6, <1>7 DEF Shapes, Drops

LEMMA DropsOne ==
  ASSUME OneRequest, NEW f, Drops(f)
  PROVE  /\ OneRequest'
         /\ ~hist.overlap => /\ flights = {f} /\ flights' = {} /\ modal.kind \in {None, f.kind}
                             /\ f.st = "failed" => hist.failed
  BY DEF OneRequest, Drops

LEMMA DropsAlone == ASSUME GroupInv, NEW f, Drops(f) PROVE AloneInv'
<1>1. SUFFICES ASSUME Alone' PROVE Sound'
  BY DEF AloneInv
<1>2. Alone /\ UNCHANGED << page, hist >> /\ UNCHANGED server
  BY <1>1 DEF Alone, Drops
<1>3. Sound
  BY <1>2 DEF GroupInv, AloneInv
<1>4. flights = {f} /\ flights' = {}
  BY <1>2, DropsOne DEF GroupInv, Alone
<1>5. Known' = Known /\ LiveGroups' = LiveGroups /\ Present' = Present /\ member' = member
  BY <1>2, SameView DEF server
<1>6. AloneReq(f) /\ f.st \in {"ok", "failed"}
  BY <1>3, <1>4, AnswerOf DEF Sound, GroupInv, Drops
<1>7. (page.name = "group" /\ shown'.found) => page.group \in LiveGroups /\ shown'.items \subseteq Known
  <2>1. CASE shown' = shown /\ (f.st = "ok" => f.kind \in {"deactivateUser", "getUser"})
    <3>1. ~Removed(f)
      BY <2>1 DEF Removed, Removal
    <3>2. QED BY <1>3, <1>4, <2>1, <3>1 DEF Sound
  <2>2. CASE f.kind = "load" /\ shown' = f.got
    BY <1>6, <2>2 DEF AloneReq
  <2>3. CASE f.st = "ok" /\ f.kind \in Relists /\ page.name = "group" /\ ShowsThen(f)
    <3>1. SUFFICES ASSUME shown'.found PROVE page.group \in LiveGroups /\ shown'.items \subseteq Known
      OBVIOUS
    <3>2. shown'.items = f.then /\ shown.found
      BY <2>3, <3>1 DEF ShowsThen
    <3>3. page.group \in LiveGroups
      BY <1>3, <2>3, <3>2 DEF Sound
    <3>4. f.then \subseteq Known
      BY <1>6, <2>3, <3>2 DEF AloneReq, Relists
    <3>5. QED BY <3>2, <3>3, <3>4
  <2>4. QED BY <1>6, <2>1, <2>2, <2>3 DEF Drops
<1>8. modal'.kind = "updateGroupMembers" => modal'.subjects \subseteq Present
  <2>1. Closed.kind = "none"
    BY DEF Closed, None
  <2>2. QED BY <1>3, <2>1 DEF Drops, Sound
<1>9. QED BY <1>2, <1>3, <1>4, <1>5, <1>7, <1>8 DEF Sound

LEMMA MakesView ==
  ASSUME Shapes, NEW v, v \in [found : BOOLEAN, items : {v.items}, res : {v.res}], v.found,
         v.items = InGroup, v.res = ResOf, page.name = "group", page.group \in LiveGroups
  PROVE  v = View(page)
<1>1. View(page) = GroupView(page.group)
  BY ViewForm
<1>2. GroupView(page.group) = [found |-> TRUE, items |-> InGroup, res |-> ResOf]
  BY DEF GroupView, InGroup, ResOf
<1>3. v.found = TRUE
  OBVIOUS
<1>4. v = [found |-> v.found, items |-> v.items, res |-> v.res]
  OBVIOUS
<1>5. QED BY <1>1, <1>2, <1>3, <1>4

LEMMA DropsTrue == ASSUME GroupInv, NEW f, Drops(f) PROVE TrueInv'
<1>1. SUFFICES ASSUME Calm' PROVE True1'
  BY DEF TrueInv
<1>2. Calm /\ Alone /\ Shapes /\ UNCHANGED << page, hist >> /\ UNCHANGED server
  BY <1>1 DEF Calm, Alone, Drops, GroupInv
<1>3. Sound /\ True1
  BY <1>2 DEF GroupInv, AloneInv, TrueInv
<1>4. flights = {f} /\ flights' = {}
  BY <1>2, DropsOne DEF GroupInv, Alone
<1>5. Reads1(f) /\ AloneReq(f) /\ f.st = "ok"
  BY <1>2, <1>3, <1>4, AnswerOf DEF True1, Sound, Reads1, Drops
<1>6. View(page)' = View(page)
  BY <1>2, SameView
<1>7. PICK v : v = shown'
  OBVIOUS
<1>8. ASSUME v.found PROVE v = View(page)
  <2>1. CASE f.kind = "load" /\ shown' = f.got
    BY <1>5, <1>7, <2>1 DEF Reads1
  <2>2. CASE f.kind \in Relists /\ page.name = "group" /\ ShowsThen(f)
    <3>1. v \in [found : BOOLEAN, items : {v.items}, res : {v.res}] /\ v.items = f.then /\ v.res = shown.res /\ shown.found
      BY <1>7, <1>8, <2>2 DEF ShowsThen
    <3>2. page.group \in LiveGroups
      BY <1>3, <2>2, <3>1 DEF Sound
    <3>3. shown.res = ResOf
      BY <1>5, <2>2, <3>1 DEF Reads1, Relists
    <3>4. f.then = InGroup
      <4>1. CASE f.kind = "updateGroupMembers"
        <5>1. f.todo = {} /\ f.then \ f.todo \subseteq InGroup
          <6>1. hist.lost = {}
            BY <1>2 DEF Shapes, Calm
          <6>2. QED BY <1>5, <4>1, <6>1 DEF AloneReq, Known
        <5>2. InGroup \subseteq f.then
          BY <1>5, <4>1 DEF Reads1
        <5>3. QED BY <5>1, <5>2
      <4>2. CASE f.kind \in {"removeGroupMember", "deleteUser"}
        BY <1>5, <2>2, <4>2 DEF Reads1
      <4>3. CASE f.kind = "refresh"
        BY <1>5, <2>2, <3>1, <4>3 DEF Reads1
      <4>4. QED BY <2>2, <4>1, <4>2, <4>3 DEF Relists
    <3>5. QED BY <1>2, <1>8, <2>2, <3>1, <3>2, <3>3, <3>4, MakesView
  <2>3. CASE f.kind \in {"deactivateUser", "getUser"} /\ page.name = "group" /\ shown' = shown
    <3>1. v \in [found : BOOLEAN, items : {v.items}, res : {v.res}]
      BY <1>2, <1>7, <2>3 DEF Shapes, PageOK, ViewOK
    <3>2. shown.found /\ page.group \in LiveGroups
      BY <1>3, <1>7, <1>8, <2>3 DEF Sound
    <3>3. shown.items = InGroup /\ shown.res = ResOf
      BY <1>5, <2>3, <3>2 DEF Reads1
    <3>4. QED BY <1>2, <1>7, <1>8, <2>3, <3>1, <3>2, <3>3, MakesView
  <2>4. QED BY <1>5, <2>1, <2>2, <2>3 DEF Drops
<1>9. PageInStep'
  BY <1>6, <1>7, <1>8 DEF PageInStep
<1>10. QED BY <1>4, <1>9 DEF True1

LEMMA DropsChange == ASSUME GroupInv, NEW f, Drops(f) PROVE ChangeInv'
<1>1. SUFFICES ASSUME Calm' PROVE Change1'
  BY DEF ChangeInv
<1>2. Calm /\ Alone /\ Shapes /\ hist' = hist /\ users' = users
  BY <1>1 DEF Calm, Alone, Drops, GroupInv, server
<1>3. Change1 /\ True1
  BY <1>2 DEF GroupInv, ChangeInv, TrueInv
<1>4. flights = {f} /\ flights' = {} /\ modal.kind \in {None, f.kind}
  BY <1>2, DropsOne DEF GroupInv, Alone
<1>5. Change(f) /\ f.st = "ok"
  BY <1>2, <1>3, <1>4, AnswerOf DEF True1, Change1, Reads1, Drops
<1>6. f.kind # "updateUser"
  BY <1>5 DEF Drops, Relists
<1>7. modal'.kind = "updateUser" => modal'.status = users[modal'.item]
  <2>1. Closed.kind = "none"
    BY DEF Closed, None
  <2>2. modal.kind # "updateUser"
    BY <1>4, <1>6 DEF None
  <2>3. f.kind = "getUser" => f.status = users[f.u]
    BY <1>5 DEF Change
  <2>4. QED BY <2>1, <2>2, <2>3 DEF Drops
<1>8. QED BY <1>2, <1>3, <1>4, <1>7 DEF Change1

LEMMA DropsPreserve == ASSUME GroupInv, NEW f, Drops(f) PROVE GroupInv'
  BY DropsShapes, DropsOne, DropsAlone, DropsTrue, DropsChange DEF GroupInv

\* The answer to f is in and request r follows.
Follows(f, r) ==
    /\ f \in flights /\ f.st = "ok" /\ r.st = "sent" /\ r.at = "here" /\ loading' \in BOOLEAN
    /\ r \in flights' /\ (flights = {f} => flights' = {r})
    /\ \A x \in flights' : RequestOK(x) /\ OfPage(x)
    /\ modal' \in {modal, Closed} /\ ((modal.kind = f.kind /\ f.at = "here") => modal' = Closed)
    /\ page.name = "group" => f.kind \in {"addGroupResources", "updateUser"}
    /\ \/ r.kind = "load" /\ r.got = Nothing
       \/ r.kind = "refresh" /\ f.kind = "updateUser" /\ page.name = "group" /\ r.then = f.then
    /\ UNCHANGED << page, shown, hist >> /\ UNCHANGED server

LEMMA RemountForm ==
  ASSUME Shapes, NEW f, f \in flights, f.st = "ok", Remount(f), UNCHANGED << page, shown, hist >>, UNCHANGED server,
         page.name = "group" => f.kind \in {"addGroupResources", "updateUser"}
  PROVE  \E r : Follows(f, r)
<1>1. PICK r : r = Request("load", None, None)
  OBVIOUS
<1>2. NewLoad(r)
  BY <1>1, LoadForm
<1>3. flights' = { [x EXCEPT !.at = IF @ = "here" THEN "page" ELSE @] : x \in { y \in flights \ {f} : y.kind # "getUser" } }
                   \cup {r}
  BY <1>1 DEF Remount
<1>4. RequestOK(r) /\ OfPage(r)
  BY <1>2, NothingOK DEF NewLoad, OfPage, MemberCalls
<1>5. ASSUME NEW x \in flights, NEW y, y = [x EXCEPT !.at = IF @ = "here" THEN "page" ELSE @]
      PROVE  RequestOK(y) /\ OfPage(y)
  <2>1. RequestOK(x) /\ OfPage(x)
    BY <1>5 DEF Shapes
  <2>2. PICK a : a = IF x.at = "here" THEN "page" ELSE x.at
    OBVIOUS
  <2>3. y = [x EXCEPT !.at = a]
    BY <1>5, <2>2
  <2>4. /\ Fields(y) /\ y.kind = x.kind /\ y.g = x.g /\ y.u = x.u /\ y.status = x.status /\ y.todo = x.todo
        /\ y.st = x.st /\ y.at = a /\ y.then = x.then /\ y.got = x.got
    BY <2>1, <2>3 DEF RequestOK, Fields
  <2>5. a \in {"page", "gone"} /\ (a = "gone" <=> x.at = "gone")
    BY <2>1, <2>2 DEF RequestOK
  <2>6. RequestOK(y)
    BY <2>1, <2>4, <2>5 DEF RequestOK
  <2>7. OfPage(y)
    BY <2>1, <2>4, <2>5 DEF OfPage
  <2>8. QED BY <2>6, <2>7
<1>6. \A x \in flights' : RequestOK(x) /\ OfPage(x)
  BY <1>3, <1>4, <1>5
<1>7. r \in flights' /\ (flights = {f} => flights' = {r})
  BY <1>3
<1>8. loading' = TRUE /\ modal' \in {modal, Closed} /\ (modal.kind = f.kind => modal' = Closed)
  BY DEF Remount
<1>9. r.kind = "load" /\ r.got = Nothing /\ r.st = "sent" /\ r.at = "here"
  BY <1>2 DEF NewLoad
<1>10. Follows(f, r)
  BY <1>6, <1>7, <1>8, <1>9 DEF Follows
<1>11. QED BY <1>10

LEMMA RereadForm ==
  ASSUME Shapes, NEW f, UpdateAnswer(f), f.st = "ok", UNCHANGED hist, UNCHANGED server
  PROVE  \E r : Follows(f, r)
<1>1. PICK q : q = Request("refresh", None, f.u)
  OBVIOUS
<1>2. PICK r : r = [q EXCEPT !.then = f.then]
  OBVIOUS
<1>3. /\ f \in flights /\ f.kind = "updateUser" /\ page.name = "group" /\ flights' = (flights \ {f}) \cup {r}
      /\ UNCHANGED << page, loading, shown >>
  BY <1>1, <1>2 DEF UpdateAnswer, Answered
<1>4. /\ Fields(q) /\ q.kind = "refresh" /\ q.u = f.u /\ q.todo = {} /\ q.st = "sent" /\ q.at = "here"
  BY <1>1, RequestFields
<1>5. /\ Fields(r) /\ r.kind = "refresh" /\ r.u = f.u /\ r.todo = {} /\ r.st = "sent" /\ r.at = "here" /\ r.then = f.then
  BY <1>2, <1>4 DEF Fields
<1>6. RequestOK(f) /\ OfPage(f) /\ f.at # "gone"
  BY <1>3, AnswerOf
<1>7. f.u \in Users /\ f.then \subseteq Users
  BY <1>3, <1>6 DEF RequestOK, OfPage, UserCalls
<1>8. RequestOK(r)
  BY <1>5, <1>7 DEF RequestOK, GroupCalls, MemberCalls, UserCalls, Reads
<1>9. OfPage(r)
  BY <1>3, <1>5, <1>7 DEF OfPage, MemberCalls
<1>10. \A x \in flights' : RequestOK(x) /\ OfPage(x)
  BY <1>3, <1>8, <1>9 DEF Shapes
<1>11. modal' \in {modal, Closed} /\ ((modal.kind = f.kind /\ f.at = "here") => modal' = Closed)
  <2>1. IF f.at = "here" THEN CloseIf(f.kind) ELSE UNCHANGED modal
    BY DEF UpdateAnswer
  <2>2. QED BY <2>1 DEF CloseIf
<1>12. loading' \in BOOLEAN /\ r \in flights' /\ (flights = {f} => flights' = {r})
  BY <1>3 DEF Shapes, GroupTypeOK
<1>13. Follows(f, r)
  BY <1>3, <1>5, <1>10, <1>11, <1>12 DEF Follows
<1>14. QED BY <1>13

LEMMA FollowsShapes == ASSUME Shapes, NEW f, NEW r, Follows(f, r) PROVE Shapes'
<1>1. GroupTypeOK'
  BY DEF Shapes, GroupTypeOK, Follows, server
<1>2. PageOK'
  <2>1. Closed.kind = "none"
    BY DEF Closed, None
  <2>2. QED BY <2>1 DEF Shapes, PageOK, ViewOK, Follows
<1>3. \A x \in flights' : RequestOK(x)' /\ OfPage(x)'
  BY DEF Follows, RequestOK, Fields, OfPage, ViewOK
<1>4. QED BY <1>1, <1>2, <1>3 DEF Shapes, Follows

LEMMA FollowsOne ==
  ASSUME OneRequest, NEW f, NEW r, Follows(f, r)
  PROVE  OneRequest' /\ (~hist.overlap => flights = {f} /\ flights' = {r})
<1>1. ASSUME ~hist.overlap PROVE flights = {f} /\ flights' = {r} /\ modal'.kind = None
  <2>1. flights = {f} /\ f.at = "here" /\ modal.kind \in {None, f.kind}
    BY <1>1 DEF OneRequest, Follows
  <2>2. Closed.kind = None
    BY DEF Closed
  <2>3. QED BY <2>1, <2>2 DEF Follows
<1>2. OneRequest'
  BY <1>1 DEF OneRequest, Follows
<1>3. QED BY <1>1, <1>2

LEMMA FollowsPreserve == ASSUME GroupInv, NEW f, NEW r, Follows(f, r) PROVE GroupInv'
<1>1. Shapes' /\ OneRequest' /\ (~hist.overlap => flights = {f} /\ flights' = {r})
  BY FollowsShapes, FollowsOne DEF GroupInv
<1>2. UNCHANGED << page, shown, hist >> /\ UNCHANGED server /\ users' = users /\ member' = member
  BY DEF Follows, server
<1>3. Known' = Known /\ InGroup' = InGroup /\ LiveGroups' = LiveGroups /\ Present' = Present /\ ResOf' = ResOf
  BY <1>2, SameView
<1>4. ASSUME Alone' PROVE Sound'
  <2>1. Alone /\ Sound /\ flights = {f} /\ flights' = {r}
    BY <1>1, <1>2, <1>4 DEF Alone, GroupInv, AloneInv
  <2>2. AloneReq(r)
    <3>1. CASE r.kind = "load" /\ r.got = Nothing
      BY <3>1 DEF AloneReq, Nothing
    <3>2. CASE r.kind = "refresh" /\ f.kind = "updateUser" /\ page.name = "group" /\ r.then = f.then
      BY <2>1, <3>2 DEF AloneReq, Sound
    <3>3. QED BY <3>1, <3>2 DEF Follows
  <2>3. AloneReq(r)'
    BY <1>2, <2>2, SameAloneReq
  <2>4. page.name = "group" => ~Removed(f)
    BY DEF Follows, Removed, Removal
  <2>5. (page.name = "group" /\ shown.found) => page.group \in LiveGroups /\ shown.items \subseteq Known
    BY <2>1, <2>4 DEF Sound
  <2>6. modal'.kind = "updateGroupMembers" => modal'.subjects \subseteq Present
    <3>1. Closed.kind = "none"
      BY DEF Closed, None
    <3>2. QED BY <2>1, <3>1 DEF Follows, Sound
  <2>7. QED BY <1>2, <1>3, <2>1, <2>3, <2>5, <2>6 DEF Sound
<1>5. ASSUME Calm' PROVE True1' /\ Change1'
  <2>1. Calm /\ Alone /\ flights = {f} /\ flights' = {r}
    BY <1>1, <1>2, <1>5 DEF Alone, Calm
  <2>2. True1 /\ Change1 /\ Reads1(f)
    BY <2>1 DEF GroupInv, TrueInv, ChangeInv, True1
  <2>3. Reads1(r)
    BY <2>2 DEF Reads1, Follows
  <2>4. Reads1(r)'
    <3>1. r.st = "sent"
      BY DEF Follows
    <3>2. QED BY <1>2, <1>3, <2>3, <3>1 DEF Reads1
  <2>5. Change(r)'
    BY DEF Change, Follows
  <2>6. QED BY <1>2, <2>1, <2>2, <2>4, <2>5 DEF True1, Change1, PageInStep
<1>6. QED BY <1>1, <1>4, <1>5 DEF GroupInv, AloneInv, TrueInv, ChangeInv

LEMMA AnswerPreserves == ASSUME GroupInv, NEW f, Answer(f) PROVE GroupInv'
<1>1. Shapes /\ UNCHANGED hist /\ UNCHANGED server
  BY DEF GroupInv, Answer
<1>2. CASE \/ LoadAnswer(f) \/ AddMembersAnswer(f) \/ RemoveAnswer(f) \/ DeactivateAnswer(f) \/ EditAnswer(f) \/ RefreshAnswer(f)
  BY <1>1, <1>2, DropForms, DropsPreserve
<1>3. CASE ListAnswer(f)
  <2>1. /\ f \in flights /\ f.st # "sent" /\ UNCHANGED << page, shown >>
        /\ page.name = "group" => f.kind = "addGroupResources"
    BY <1>3 DEF ListAnswer, Answered
  <2>2. CASE f.st = "ok"
    <3>1. Remount(f)
      BY <1>3, <2>2 DEF ListAnswer
    <3>2. QED BY <1>1, <2>1, <2>2, <3>1, RemountForm, FollowsPreserve
  <2>3. CASE f.st # "ok"
    <3>1. Drops(f)
      BY <1>1, <1>3, <2>1, <2>3 DEF ListAnswer, Drops, Shapes, GroupTypeOK
    <3>2. QED BY <3>1, DropsPreserve
  <2>4. QED BY <2>2, <2>3
<1>4. CASE UpdateAnswer(f)
  <2>1. CASE f.st = "ok"
    BY <1>1, <1>4, <2>1, RereadForm, FollowsPreserve
  <2>2. CASE f.st # "ok"
    <3>1. Drops(f)
      BY <1>1, <1>4, <2>2 DEF UpdateAnswer, Answered, Drops, Shapes, GroupTypeOK
    <3>2. QED BY <3>1, DropsPreserve
  <2>3. QED BY <2>1, <2>2
<1>5. QED BY <1>2, <1>3, <1>4 DEF Answer

-----------------------------------------------------------------------------
(* The theorems.                                                           *)

LEMMA GroupInitInv == GroupInit => GroupInv
<1>1. SUFFICES ASSUME GroupInit PROVE GroupInv
  OBVIOUS
<1>2. PICK f : f = Call("load", None, None, 0)
  OBVIOUS
<1>3. /\ Fields(f) /\ f.kind = "load" /\ f.todo = {} /\ f.then = {} /\ f.got = Nothing
      /\ f.st = "sent" /\ f.at = "here"
  BY <1>2 DEF Call, Fields
<1>4. flights = {f}
  BY <1>1, <1>2 DEF GroupInit
<1>5. page.name = "groups" /\ page.group = None /\ shown = Nothing /\ modal = Closed
  BY <1>1 DEF GroupInit
<1>6. Nothing.found = FALSE /\ Closed.kind = None
  BY DEF Nothing, Closed
<1>7. GroupTypeOK
  <2>1. users \in [Users -> Statuses \cup {"unborn", "deleted"}] /\ groups \in [Groups -> {"unborn", "live", "deleted"}]
    BY <1>1 DEF GroupInit, Statuses
  <2>2. member \subseteq Groups \X Users /\ grants = {} /\ loading = TRUE
    BY <1>1 DEF GroupInit, LiveGroups, Present
  <2>3. QED BY <1>5, <2>1, <2>2 DEF GroupTypeOK
<1>8. PageOK
  BY <1>5, <1>6, NothingOK DEF PageOK, None
<1>9. RequestOK(f) /\ OfPage(f)
  BY <1>3, <1>5, NothingOK DEF RequestOK, OfPage, GroupCalls, MemberCalls, UserCalls, Reads
<1>10. hist \in Histories
  BY <1>1 DEF GroupInit, Histories
<1>11. ~hist.overlap /\ ~hist.failed /\ hist.surprise = {} /\ hist.lost = {} /\ ~hist.flipped
  BY <1>1 DEF GroupInit
<1>12. OneRequest
  BY <1>3, <1>4, <1>5, <1>6 DEF OneRequest
<1>13. Sound
  <2>1. AloneReq(f)
    BY <1>3, <1>5 DEF AloneReq
  <2>2. \A m \in member : m[1] \in LiveGroups /\ m[2] \in Present \cup hist.lost
    BY <1>1 DEF GroupInit
  <2>3. QED BY <1>4, <1>5, <1>6, <1>11, <2>1, <2>2 DEF Sound, None
<1>14. True1
  BY <1>3, <1>4, <1>5 DEF True1, Reads1, PageInStep
<1>15. Change1
  BY <1>3, <1>4, <1>11 DEF Change1, Change
<1>16. QED BY <1>4, <1>7, <1>8, <1>9, <1>10, <1>11, <1>12, <1>13, <1>14, <1>15 DEF GroupInv, Shapes, AloneInv, TrueInv, ChangeInv

LEMMA GroupStutters == GroupInv /\ UNCHANGED groupVars => GroupInv'
<1>1. SUFFICES ASSUME GroupInv, UNCHANGED groupVars PROVE GroupInv'
  OBVIOUS
<1>2. UNCHANGED << page, loading, shown, modal, deleting, flights, hist, users, groups, member, grants >> /\ UNCHANGED server
  BY <1>1 DEF groupVars, server
<1>3. Known' = Known /\ InGroup' = InGroup /\ LiveGroups' = LiveGroups /\ Present' = Present /\ ResOf' = ResOf /\ View(page)' = View(page)
  BY <1>2, SameView
<1>4. Shapes'
  BY <1>1, <1>2 DEF GroupInv, Shapes, GroupTypeOK, PageOK, ViewOK, RequestOK, Fields, OfPage
<1>5. OneRequest'
  BY <1>1, <1>2 DEF GroupInv, OneRequest
<1>6. Alone' = Alone /\ Calm' = Calm
  BY <1>2 DEF Alone, Calm
<1>7. AloneInv'
  BY <1>1, <1>2, <1>3, <1>6, SameAloneReq DEF GroupInv, AloneInv, Sound, Removed, Removal
<1>8. TrueInv'
  BY <1>1, <1>2, <1>3, <1>6 DEF GroupInv, TrueInv, True1, PageInStep, Reads1
<1>9. ChangeInv'
  BY <1>1, <1>2, <1>6 DEF GroupInv, ChangeInv, Change1, Change
<1>10. QED BY <1>4, <1>5, <1>7, <1>8, <1>9 DEF GroupInv

LEMMA GroupInductive == GroupInv /\ [GroupNext]_groupVars => GroupInv'
  BY ClickPreserves, OtherPreserves, ServePreserves, AnswerPreserves, GroupStutters DEF GroupNext

LEMMA GroupInvariant == GroupSpec => []GroupInv
  BY GroupInitInv, GroupInductive, PTL DEF GroupSpec

\* The tables of users, groups, memberships and access rules keep their
\* shape, and no membership is left of a group or a user that is gone, as
\* long as one administrator waits for each answer, whatever fails and
\* wherever: no foreign key enforces it (handlers_users.go 260-275, user.go
\* 94-112).  Only a user whose deletion was served and its answer lost can
\* be put into a group again.
THEOREM GroupTablesOKTheorem == GroupSpec => []TablesOK
<1>1. GroupInv => TablesOK
  BY DEF GroupInv, Shapes, TablesOK, AloneInv, Sound, NoOrphanMembers
<1>2. QED BY <1>1, GroupInvariant, PTL

\* A page at rest shows what a fresh read would, although the group's page
\* never reads its members again after a change but shows the list the
\* change closed over (group-members-section.tsx 47-116,
\* add-members-modal.tsx 60-69).
THEOREM GroupPageInStepTheorem == GroupSpec => []PageInStep
<1>1. GroupInv => PageInStep
  BY DEF GroupInv, TrueInv, True1, PageInStep
<1>2. QED BY <1>1, GroupInvariant, PTL

\* A request that names all members shown adds none but those picked and,
\* of those shown, the ones whose removal was served and its answer lost,
\* whatever else fails; and a dialog's untouched status overwrites none
\* while nothing fails (groups.ts 121-129, edit-user-modal.tsx 31-47).
THEOREM GroupNothingUnaskedTheorem == GroupSpec => []NothingUnasked
<1>1. GroupInv => NothingUnasked
  BY DEF GroupInv, AloneInv, Sound, ChangeInv, Change1, NothingUnasked, OnlyPickedAdded, UntouchedStatusKept
<1>2. QED BY <1>1, GroupInvariant, PTL


=============================================================================
