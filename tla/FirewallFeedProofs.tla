--------------------------- MODULE FirewallFeedProofs ---------------------------
(***************************************************************************)
(* Proofs about Firewall and FirewallFeed for any ports, policies, buffer  *)
(* and bounds.  First the enforcer by itself; then the feed keeps its      *)
(* promise (its safety part), it takes only steps of the enforcer's own    *)
(* specification, and together they end up enforcing the newest policy.    *)
(***************************************************************************)
EXTENDS FirewallFeed, SequenceTheorems, TLAPS

-----------------------------------------------------------------------------
(* The enforcer.                                                           *)

\* A handle names one rule, and new handles are larger than all in use.
RulesOK ==
  /\ \A r \in kernel : r.h < nextHandle
  /\ \A r, q \in kernel : r.h = q.h => r = q

\* The rule of kind k, the i-th that the entry of port p names.
RuleOf(p, i, k) ==
  [h |-> protected[p].handles[i], port |-> p, protocol |-> protected[p].protocol,
   kind |-> k]

\* A port in the map has its own three rules in the chain, the accepts before the
\* drop.  (Rules that nobody knows of may come before them.)
EntryBacked ==
  \A p \in Held :
    /\ Len(protected[p].handles) = 3
    /\ RuleOf(p, 1, "lo") \in kernel
    /\ RuleOf(p, 2, "tun") \in kernel
    /\ RuleOf(p, 3, "drop") \in kernel
    /\ protected[p].handles[1] < protected[p].handles[3]
    /\ protected[p].handles[2] < protected[p].handles[3]

\* What protect_port has on its stack is in the chain, for the port at the head
\* of the queue, which is not in the map.
HandlesOK ==
  /\ Len(handles) <= 2
  /\ handles # <<>> => pc = "rule"
  /\ pc = "rule" => queue # <<>> /\ protected[Head(queue).port] = NoEntry
  /\ \A i \in 1..Len(handles) :
       [h |-> handles[i], port |-> Head(queue).port,
        protocol |-> Head(queue).protocol, kind |-> Kinds[i]] \in kernel

\* delete_rules works on handles that no entry of the map holds.
DoomedOK ==
  /\ doomed # <<>> => pc = "delete"
  /\ \A i \in 1..Len(doomed) : \A p \in Held : \A j \in 1..3 :
       protected[p].handles[j] # doomed[i]

\* The rules it deletes are those of a port that is not in the map.
AwayOK ==
  \A r \in kernel :
    (\E i \in 1..Len(doomed) : doomed[i] = r.h) => protected[r.port] = NoEntry

StaleOK == stale \subseteq Held

\* While nothing has leaked, every rule's handle is in the map or on the stack.
KnownOK ==
  ~leaked =>
    \A r \in kernel :
      \/ /\ protected[r.port] # NoEntry
         /\ \E i \in 1..3 : protected[r.port].handles[i] = r.h
      \/ \E i \in 1..Len(handles) : handles[i] = r.h
      \/ \E i \in 1..Len(doomed) : doomed[i] = r.h

\* How far a sync without errors has come.
ProgressOK ==
  settled =>
    /\ pc = "remove" \/ (pc = "delete" /\ after = "remove") =>
         queue = wanted /\ Held \subseteq PortsOf(wanted) \cup stale
    /\ pc = "delete" => after = "remove"
    /\ pc \in {"add", "rule"} =>
         PortsOf(wanted) = Held \cup PortsOf(queue)
    /\ pc \in {"idle", "save"} => Held = PortsOf(wanted)
    /\ pc = "down" => wanted = <<>> /\ protected = Nothing

IInv == TypeOK /\ RulesOK /\ EntryBacked /\ HandlesOK /\ DoomedOK /\ AwayOK
        /\ StaleOK /\ KnownOK /\ ProgressOK

-----------------------------------------------------------------------------

\* A step is one action, or changes nothing; the two that begin a sync are
\* told apart from a start that has nothing to restore.
LEMMA StepCases ==
  ASSUME TypeOK, [Next]_vars
  PROVE  \/ \E desired \in Seq(PortRules), b \in BOOLEAN :
              pc \in {"idle", "down"} /\ Begin(desired, b)
         \/ /\ pc = "down" /\ pc' = "idle"
            /\ UNCHANGED <<kernel, nextHandle, protected, file, work, history>>
         \/ \E p \in Ports : RemoveStale(p)
         \/ StaleDone \/ SkipHeld \/ Protect \/ AddRule \/ AddFails
         \/ DeleteRule \/ DeleteFails \/ DeleteDone
         \/ SyncDone \/ SaveState \/ SaveFails
         \/ Cut \/ Stop \/ CtrlC \/ Reboot
         \/ UNCHANGED vars
<1>1. CASE ReceivePolicy
  BY <1>1, ConstantsAssumption DEF ReceivePolicy
<1>2. CASE Start
  <2>1. CASE file \in {NoFile, {}} /\ pc' = "idle"
             /\ UNCHANGED <<kernel, nextHandle, protected, file, work, history>>
    BY <1>2, <2>1 DEF Start
  <2>2. CASE file \notin {NoFile, Torn, {}} /\
             \E n \in 0..MaxHandle :
               /\ n = Cardinality(file)
               /\ \E saved \in [1..n -> file] :
                    /\ {saved[i] : i \in 1..n} = file
                    /\ Begin(saved, TRUE)
    <3>1. PICK n \in 0..MaxHandle : \E saved \in [1..n -> file] : Begin(saved, TRUE)
      BY <2>2
    <3>. PICK saved \in [1..n -> file] : Begin(saved, TRUE)
      BY <3>1
    <3>2. file \subseteq PortRules
      BY <2>2 DEF TypeOK
    <3>3. saved \in Seq(PortRules)
      BY <3>2, ConstantsAssumption
    <3>. QED
      BY <1>2, <3>3 DEF Start
  <2>. QED
    BY <1>2, <2>1, <2>2 DEF Start
<1>3. CASE StartUnrestored
  BY <1>3 DEF StartUnrestored
<1>4. CASE Sync
  BY <1>4 DEF Sync
<1>. QED
  BY <1>1, <1>2, <1>3, <1>4 DEF Next

\* The ports of a non-empty list are those of its head and its tail.
LEMMA PortsOfTail ==
  ASSUME NEW q \in Seq(PortRules), q # <<>>
  PROVE  /\ Head(q) \in PortRules /\ Tail(q) \in Seq(PortRules)
         /\ Head(q).port \in Ports
         /\ PortsOf(q) = {Head(q).port} \cup PortsOf(Tail(q))
<1>1. Len(q) >= 1 /\ Len(Tail(q)) = Len(q) - 1 /\ Head(q) = q[1]
      /\ \A i \in 1..(Len(q) - 1) : Tail(q)[i] = q[i + 1]
  OBVIOUS
<1>2. \A i \in 1..Len(q) : i = 1 \/ (i - 1 \in 1..(Len(q) - 1) /\ q[i] = Tail(q)[i - 1])
  BY <1>1
<1>3. PortsOf(q) \subseteq {Head(q).port} \cup PortsOf(Tail(q))
  <2>1. ASSUME NEW i \in 1..Len(q) PROVE q[i].port \in {Head(q).port} \cup PortsOf(Tail(q))
    <3>1. CASE i = 1
      BY <1>1, <3>1
    <3>2. CASE i # 1
      <4>1. i - 1 \in 1..Len(Tail(q)) /\ q[i] = Tail(q)[i - 1]
        BY <1>1, <1>2, <3>2
      <4>2. QED
        BY <4>1 DEF PortsOf
    <3>3. QED
      BY <3>1, <3>2
  <2>2. QED
    BY <2>1 DEF PortsOf
<1>4. {Head(q).port} \cup PortsOf(Tail(q)) \subseteq PortsOf(q)
  BY <1>1 DEF PortsOf
<1>5. Head(q) \in PortRules /\ Tail(q) \in Seq(PortRules)
  BY <1>1
<1>6. Head(q).port \in Ports
  BY <1>5 DEF PortRules
<1>. QED
  BY <1>3, <1>4, <1>5, <1>6

\* What the head and the tail of a list of handles are.
LEMMA HandlesTail ==
  ASSUME NEW q \in Seq(1..MaxHandle), q # <<>>
  PROVE  /\ Head(q) = q[1] /\ Tail(q) \in Seq(1..MaxHandle)
         /\ Len(q) \in Nat /\ Len(q) >= 1 /\ Len(Tail(q)) = Len(q) - 1
         /\ \A i \in 1..Len(Tail(q)) : i + 1 \in 1..Len(q) /\ Tail(q)[i] = q[i + 1]
         /\ \A i \in 1..Len(q) : i = 1 \/ (i - 1 \in 1..Len(Tail(q)) /\ Tail(q)[i - 1] = q[i])
  OBVIOUS

\* What appending does to a list, in general and to one of two handles.
LEMMA AppendFacts ==
  ASSUME NEW S, NEW q \in Seq(S), NEW x \in S
  PROVE  /\ Append(q, x) \in Seq(S)
         /\ Len(Append(q, x)) = Len(q) + 1
         /\ \A i \in 1..Len(q) : Append(q, x)[i] = q[i]
         /\ Append(q, x)[Len(q) + 1] = x
  OBVIOUS

\* Fewer than three rules on the stack leave room for one more.
LEMMA BelowTwo == \A n \in Nat : n <= 2 /\ n # 2 => n + 1 <= 2
  OBVIOUS

\* protect_port's third handle makes a list of three.
LEMMA AppendThird ==
  ASSUME NEW q \in Seq(1..MaxHandle), NEW x \in 1..MaxHandle, Len(q) = 2
  PROVE  /\ Len(Append(q, x)) = 3 /\ Append(q, x)[1] = q[1]
         /\ Append(q, x)[2] = q[2] /\ Append(q, x)[3] = x
<1>. PICK S : S = 1..MaxHandle
  OBVIOUS
<1>0. q \in Seq(S) /\ x \in S
  OBVIOUS
<1>1. Len(Append(q, x)) = Len(q) + 1
  BY ONLY <1>0, AppendFacts, Zenon
<1>2. \A i \in 1..Len(q) : Append(q, x)[i] = q[i]
  BY ONLY <1>0, AppendFacts
<1>3. Append(q, x)[Len(q) + 1] = x
  BY ONLY <1>0, AppendFacts, Zenon
<1>4. Len(q) + 1 = 2 + 1
  BY Zenon
<1>5. 2 + 1 = 3 /\ 1 \in 1..2 /\ 2 \in 1..2
  OBVIOUS
<1>6. 1 \in 1..Len(q) /\ 2 \in 1..Len(q)
  BY <1>5, Zenon
<1>7. Len(q) + 1 = 3
  BY <1>4, <1>5, Zenon
<1>. QED
  BY <1>1, <1>2, <1>3, <1>6, <1>7, Zenon

\* The rule that is added has the next handle, its kind is the next of Kinds.
LEMMA NewRuleType ==
  ASSUME TypeOK, pc = "rule", HandlesOK, nextHandle <= MaxHandle
  PROVE  /\ NewRule \in Rules
         /\ NewRule.h = nextHandle
         /\ NewRule.port = Head(queue).port
         /\ NewRule.protocol = Head(queue).protocol
         /\ nextHandle \in 1..MaxHandle
         /\ Append(handles, nextHandle) \in Seq(1..MaxHandle)
<1>1. Head(queue) \in PortRules
  BY PortsOfTail DEF TypeOK, HandlesOK
<1>2. Len(handles) + 1 \in 1..3
  BY DEF TypeOK, HandlesOK
<1>3. Kinds[Len(handles) + 1] \in {"lo", "tun", "drop"}
  BY <1>2 DEF Kinds
<1>. QED
  BY <1>1, <1>3, ConstantsAssumption DEF TypeOK, NewRule, Rules, PortRules

\* An nft add or delete, or none of them, keeps the chain well typed.
LEMMA InFlightType ==
  ASSUME TypeOK, HandlesOK, InFlight
  PROVE  kernel' \subseteq Rules /\ nextHandle' \in 1..(MaxHandle + 1)
<1>1. CASE pc = "rule" /\ NftAdd
  BY <1>1, NewRuleType, ConstantsAssumption DEF TypeOK, NftAdd
<1>. QED
  BY <1>1 DEF InFlight, NftDelete, TypeOK

\* A fault and the loss of the stack keep their variables well typed.
LEMMA FaultType ==
  ASSUME TypeOK, Fault
  PROVE  faults' \in 0..MaxFaults /\ settled' \in BOOLEAN /\ wanted' \in Seq(PortRules)
<1>1. settled' \in BOOLEAN
  BY Zenon DEF Fault
<1>2. faults' \in 0..MaxFaults /\ wanted' \in Seq(PortRules)
  BY ConstantsAssumption DEF Fault, TypeOK
<1>. QED
  BY <1>1, <1>2

\* What Forget assigns has the types of the handler's stack.
LEMMA ForgetType ==
  ASSUME Forget
  PROVE  /\ restoring' \in BOOLEAN /\ stale' \subseteq Ports
         /\ queue' \in Seq(PortRules) /\ handles' \in Seq(1..MaxHandle)
         /\ doomed' \in Seq(1..MaxHandle) /\ after' \in {"remove", "add"}
<1>1. restoring' \in BOOLEAN
  BY Zenon DEF Forget
<1>2. /\ stale' \subseteq Ports
      /\ queue' \in Seq(PortRules) /\ handles' \in Seq(1..MaxHandle)
      /\ doomed' \in Seq(1..MaxHandle) /\ after' \in {"remove", "add"}
  BY DEF Forget
<1>. QED
  BY <1>1, <1>2

\* Every step keeps the state well typed.
LEMMA TypeStep == TypeOK /\ StaleOK /\ HandlesOK /\ [Next]_vars => TypeOK'
<1>. SUFFICES ASSUME TypeOK, StaleOK, HandlesOK, [Next]_vars PROVE TypeOK'
  OBVIOUS
<1>1. ASSUME NEW desired \in Seq(PortRules), NEW b \in BOOLEAN, Begin(desired, b)
      PROVE TypeOK'
  <2>1. settled' \in BOOLEAN
    BY <1>1, Zenon DEF Begin
  <2>. QED
    BY <1>1, <2>1 DEF Begin, TypeOK, PC, StalePorts, Held
<1>2. CASE pc' = "idle" /\ UNCHANGED <<kernel, nextHandle, protected, file, work, history>>
  BY <1>2 DEF TypeOK, PC, work, history
<1>3. ASSUME NEW p \in Ports, RemoveStale(p) PROVE TypeOK'
  <2>1. protected[p] \in Entries
    BY <1>3 DEF RemoveStale, StaleOK, Held, TypeOK
  <2>. QED
    BY <1>3, <2>1 DEF RemoveStale, TypeOK, PC, Entries, history
<1>4. CASE StaleDone
  BY <1>4 DEF StaleDone, TypeOK, PC, work, history
<1>5. CASE SkipHeld
  BY <1>5, PortsOfTail DEF SkipHeld, TypeOK, history
<1>6. CASE Protect
  BY <1>6 DEF Protect, TypeOK, PC, history
<1>7. CASE AddRule
  <2>1. queue # <<>> /\ nextHandle <= MaxHandle
    BY <1>7 DEF AddRule, NftAdd, HandlesOK
  <2>2. kernel' \subseteq Rules /\ nextHandle' \in 1..(MaxHandle + 1)
    BY <1>7, <2>1, NewRuleType, ConstantsAssumption DEF AddRule, NftAdd, TypeOK
  <2>3. Append(handles, nextHandle) \in Seq(1..MaxHandle)
    BY <1>7, <2>1, NewRuleType DEF AddRule
  <2>4. [protocol |-> Head(queue).protocol, handles |-> Append(handles, nextHandle)] \in Entries
    BY <2>1, <2>3, PortsOfTail DEF Entries, PortRules, TypeOK
  <2>5. CASE Len(handles) # 2
    BY <1>7, <2>2, <2>3, <2>5 DEF AddRule, TypeOK, history
  <2>6. CASE Len(handles) = 2
    <3>1. Tail(queue) \in Seq(PortRules) /\ Head(queue).port \in Ports
      BY <2>1, PortsOfTail DEF TypeOK
    <3>2. protected' \in [Ports -> Entries \cup {NoEntry}]
      BY <1>7, <2>4, <2>6, <3>1 DEF AddRule, TypeOK
    <3>3. handles' = <<>> /\ queue' = Tail(queue) /\ pc' = "add"
          /\ UNCHANGED <<file, restoring, stale, doomed, after, wanted, settled, leaked, faults>>
      BY <1>7, <2>6 DEF AddRule, history
    <3>4. handles' \in Seq(1..MaxHandle) /\ queue' \in Seq(PortRules) /\ pc' \in PC
      BY <3>1, <3>3 DEF PC
    <3>. QED
      BY <2>2, <3>2, <3>3, <3>4 DEF TypeOK
  <2>. QED
    BY <2>5, <2>6
<1>8. CASE AddFails
  <2>1. kernel' \subseteq Rules /\ nextHandle' \in 1..(MaxHandle + 1)
    BY <1>8, InFlightType DEF AddFails, InFlight
  <2>2. queue # <<>>
    BY <1>8 DEF AddFails, HandlesOK
  <2>3. leaked' \in BOOLEAN
    <3>1. CASE UNCHANGED leaked
      BY <3>1 DEF TypeOK
    <3>2. CASE leaked' = TRUE
      BY <3>2, Zenon
    <3>. QED
      BY <1>8, <3>1, <3>2 DEF AddFails
  <2>. QED
    BY <1>8, <2>1, <2>2, <2>3, PortsOfTail, FaultType DEF AddFails, Rollback, TypeOK, PC
<1>9. CASE DeleteRule
  BY <1>9, HandlesTail DEF DeleteRule, NftDelete, TypeOK, history
<1>10. CASE DeleteFails
  <2>1. leaked' \in BOOLEAN
    BY <1>10, Zenon DEF DeleteFails
  <2>. QED
    BY <1>10, <2>1, HandlesTail, FaultType DEF DeleteFails, TypeOK
<1>11. CASE DeleteDone
  BY <1>11 DEF DeleteDone, TypeOK, PC, work, history
<1>12. CASE SyncDone
  BY <1>12, ForgetType DEF SyncDone, TypeOK, PC, history
<1>13. CASE SaveState
  <2>1. State \subseteq PortRules
    BY DEF State, Held, TypeOK, Entries, PortRules
  <2>. QED
    BY <1>13, <2>1 DEF SaveState, TypeOK, PC, work, history
<1>14. CASE SaveFails
  BY <1>14, FaultType DEF SaveFails, TypeOK, PC, work
<1>15. CASE Cut
  <2>1. kernel' \subseteq Rules /\ nextHandle' \in 1..(MaxHandle + 1)
    BY <1>15, InFlightType DEF Cut
  <2>2. leaked' \in BOOLEAN
    BY <1>15 DEF Cut
  <2>. QED
    BY <1>15, <2>1, <2>2, FaultType, ForgetType DEF Cut, TypeOK, PC
<1>16. CASE Stop
  <2>1. kernel' \subseteq Rules /\ nextHandle' \in 1..(MaxHandle + 1)
    BY <1>16, InFlightType DEF Stop
  <2>2. leaked' \in BOOLEAN
    BY <1>16 DEF Stop
  <2>. QED
    BY <1>16, <2>1, <2>2, FaultType, ForgetType DEF Stop, Nothing, TypeOK, PC
<1>17. CASE CtrlC
  <2>1. leaked' \in BOOLEAN /\ settled' \in BOOLEAN
    BY <1>17, Zenon DEF CtrlC, NoTable
  <2>. QED
    BY <1>17, <2>1, ForgetType, ConstantsAssumption DEF CtrlC, NoTable, Nothing, TypeOK, PC
<1>18. CASE Reboot
  <2>1. leaked' \in BOOLEAN /\ settled' \in BOOLEAN
    BY <1>18, Zenon DEF Reboot, NoTable
  <2>. QED
    BY <1>18, <2>1, ForgetType, ConstantsAssumption DEF Reboot, NoTable, Nothing, TypeOK, PC
<1>19. CASE UNCHANGED vars
  BY <1>19 DEF vars, work, history, TypeOK
<1>. QED
  BY StepCases, <1>1, <1>2, <1>3, <1>4, <1>5, <1>6, <1>7, <1>8, <1>9, <1>10, <1>11,
     <1>12, <1>13, <1>14, <1>15, <1>16, <1>17, <1>18, <1>19
-----------------------------------------------------------------------------

\* What a step does to the chain: nothing, one rule more, one handle less, or
\* all of it gone together with the map.
LEMMA ChainCases ==
  ASSUME TypeOK, [Next]_vars
  PROVE  \/ UNCHANGED <<kernel, nextHandle>>
         \/ pc = "rule" /\ NftAdd
         \/ pc = "delete" /\ doomed # <<>> /\ NftDelete /\ UNCHANGED nextHandle
         \/ kernel' = {} /\ nextHandle' = 1 /\ protected' = Nothing /\ Forget
  BY StepCases
     DEF Begin, work, history, vars, RemoveStale, StaleDone, SkipHeld, Protect, AddRule,
         AddFails, DeleteRule, DeleteFails, DeleteDone, SyncDone, SaveState, SaveFails,
         Cut, Stop, CtrlC, Reboot, InFlight, NoTable

\* What a step does to the map: nothing, a stale entry leaves, the third rule of
\* a port is in and its entry enters, or the process is gone.
LEMMA MapCases ==
  ASSUME TypeOK, [Next]_vars
  PROVE  \/ UNCHANGED protected
         \/ \E p \in Ports : RemoveStale(p)
         \/ AddRule /\ Len(handles) = 2
         \/ protected' = Nothing /\ Forget /\ pc' = "down"
  BY StepCases
     DEF Begin, work, history, vars, StaleDone, SkipHeld, Protect, AddRule,
         AddFails, DeleteRule, DeleteFails, DeleteDone, SyncDone, SaveState, SaveFails,
         Cut, Stop, CtrlC, Reboot

\* Handles stay unique and below the next one.
LEMMA RulesStep == TypeOK /\ HandlesOK /\ RulesOK /\ [Next]_vars => RulesOK'
<1>. SUFFICES ASSUME TypeOK, HandlesOK, RulesOK, [Next]_vars PROVE RulesOK'
  OBVIOUS
<1>1. CASE UNCHANGED <<kernel, nextHandle>>
  BY <1>1 DEF RulesOK
<1>2. CASE pc = "rule" /\ NftAdd
  <2>1. NewRule.h = nextHandle
    BY <1>2, NewRuleType DEF NftAdd
  <2>2. kernel' = kernel \cup {NewRule} /\ nextHandle' = nextHandle + 1
    BY <1>2 DEF NftAdd
  <2>3. nextHandle \in Nat /\ \A r \in kernel : r.h \in Nat
    BY ConstantsAssumption DEF TypeOK, Rules
  <2>. QED
    BY <2>1, <2>2, <2>3 DEF RulesOK
<1>3. CASE NftDelete /\ UNCHANGED nextHandle
  BY <1>3 DEF RulesOK, NftDelete
<1>4. CASE kernel' = {}
  BY <1>4 DEF RulesOK
<1>. QED
  BY ChainCases, <1>1, <1>2, <1>3, <1>4

\* An entry of the map that a step leaves in it keeps its rules.
LEMMA BackedFrame ==
  ASSUME TypeOK, HandlesOK, DoomedOK, EntryBacked, [Next]_vars,
         NEW p \in Held, protected'[p] = protected[p], protected' # Nothing
  PROVE  /\ RuleOf(p, 1, "lo")' \in kernel'
         /\ RuleOf(p, 2, "tun")' \in kernel'
         /\ RuleOf(p, 3, "drop")' \in kernel'
<1>1. /\ RuleOf(p, 1, "lo")' = RuleOf(p, 1, "lo")
      /\ RuleOf(p, 2, "tun")' = RuleOf(p, 2, "tun")
      /\ RuleOf(p, 3, "drop")' = RuleOf(p, 3, "drop")
  BY DEF RuleOf
<1>2. RuleOf(p, 1, "lo") \in kernel /\ RuleOf(p, 2, "tun") \in kernel
      /\ RuleOf(p, 3, "drop") \in kernel
  BY DEF EntryBacked
<1>3. CASE NftDelete /\ doomed # <<>>
  <2>1. Head(doomed) = doomed[1] /\ 1 \in 1..Len(doomed)
    BY <1>3, HandlesTail DEF TypeOK
  <2>2. \A j \in 1..3 : protected[p].handles[j] # Head(doomed)
    BY <2>1 DEF DoomedOK
  <2>3. /\ RuleOf(p, 1, "lo").h # Head(doomed)
        /\ RuleOf(p, 2, "tun").h # Head(doomed)
        /\ RuleOf(p, 3, "drop").h # Head(doomed)
    BY <2>2 DEF RuleOf
  <2>. QED
    BY <1>1, <1>2, <1>3, <2>3 DEF NftDelete
<1>. QED
  BY <1>1, <1>2, <1>3, ChainCases DEF NftAdd

\* The map stays backed by the chain.
LEMMA BackedStep ==
  TypeOK /\ HandlesOK /\ DoomedOK /\ RulesOK /\ EntryBacked /\ [Next]_vars => EntryBacked'
<1>. SUFFICES ASSUME TypeOK, HandlesOK, DoomedOK, RulesOK, EntryBacked, [Next]_vars,
                     NEW p \in Ports, protected'[p] # NoEntry
              PROVE  /\ Len(protected'[p].handles) = 3
                     /\ RuleOf(p, 1, "lo")' \in kernel'
                     /\ RuleOf(p, 2, "tun")' \in kernel'
                     /\ RuleOf(p, 3, "drop")' \in kernel'
                     /\ protected'[p].handles[1] < protected'[p].handles[3]
                     /\ protected'[p].handles[2] < protected'[p].handles[3]
  BY DEF EntryBacked, Held
<1>1. p \in Ports /\ protected'[p] # NoEntry /\ protected' # Nothing
  BY DEF Nothing
<1>2. CASE protected'[p] = protected[p]
  <2>1. p \in Held
    BY <1>1, <1>2 DEF Held
  <2>2. Len(protected[p].handles) = 3
        /\ protected[p].handles[1] < protected[p].handles[3]
        /\ protected[p].handles[2] < protected[p].handles[3]
    BY <2>1 DEF EntryBacked
  <2>. QED
    BY <1>1, <1>2, <2>1, <2>2, BackedFrame
<1>3. CASE AddRule /\ Len(handles) = 2 /\ protected'[p] # protected[p]
  <2>1. p = Head(queue).port
    BY <1>1, <1>3 DEF AddRule, TypeOK
  <2>2. nextHandle <= MaxHandle /\ pc = "rule" /\ kernel' = kernel \cup {NewRule}
    BY <1>3 DEF AddRule, NftAdd
  <2>3. Len(handles) = 2 /\ handles \in Seq(1..MaxHandle) /\ nextHandle \in 1..MaxHandle
    BY <1>3, <2>2, NewRuleType DEF TypeOK
  <2>4. protected'[p] = [protocol |-> Head(queue).protocol,
                         handles |-> Append(handles, nextHandle)]
    BY <1>1, <1>3, <2>1 DEF AddRule, TypeOK
  <2>5. /\ protected'[p].handles = Append(handles, nextHandle)
        /\ protected'[p].protocol = Head(queue).protocol
    BY <2>4
  <2>6. /\ Len(Append(handles, nextHandle)) = 3
        /\ Append(handles, nextHandle)[1] = handles[1]
        /\ Append(handles, nextHandle)[2] = handles[2]
        /\ Append(handles, nextHandle)[3] = nextHandle
    BY <2>3, AppendThird, Zenon
  <2>0. /\ [h |-> handles[1], port |-> Head(queue).port, protocol |-> Head(queue).protocol,
            kind |-> Kinds[1]] \in kernel
        /\ [h |-> handles[2], port |-> Head(queue).port, protocol |-> Head(queue).protocol,
            kind |-> Kinds[2]] \in kernel
    BY <2>3 DEF HandlesOK
  <2>7. /\ [h |-> handles[1], port |-> p, protocol |-> Head(queue).protocol, kind |-> "lo"] \in kernel
        /\ [h |-> handles[2], port |-> p, protocol |-> Head(queue).protocol, kind |-> "tun"] \in kernel
    BY <2>0, <2>1 DEF Kinds
  <2>8. NewRule = [h |-> nextHandle, port |-> p, protocol |-> Head(queue).protocol, kind |-> "drop"]
    BY <2>1, <2>3 DEF NewRule, Kinds
  <2>9. handles[1] < nextHandle /\ handles[2] < nextHandle
    BY <2>7 DEF RulesOK
  <2>. QED
    BY <2>2, <2>5, <2>6, <2>7, <2>8, <2>9, ConstantsAssumption DEF RuleOf
<1>4. ASSUME NEW q \in Ports, RemoveStale(q) PROVE protected'[p] = protected[p]
  BY <1>1, <1>4 DEF RemoveStale, TypeOK
<1>. QED
  BY <1>1, <1>2, <1>3, <1>4, MapCases
\* The entries protect_port is building stay in the chain.
LEMMA HandlesStep == TypeOK /\ HandlesOK /\ [Next]_vars => HandlesOK'
<1>. SUFFICES ASSUME TypeOK, HandlesOK, [Next]_vars PROVE HandlesOK'
  OBVIOUS
<1>1. CASE handles' = <<>> /\ pc' # "rule"
  BY <1>1 DEF HandlesOK
<1>2. CASE Protect
  BY <1>2 DEF Protect, HandlesOK
<1>3. CASE AddRule /\ Len(handles) # 2
  <2>1. /\ pc = "rule" /\ UNCHANGED <<protected, queue, pc>> /\ nextHandle <= MaxHandle
        /\ handles' = Append(handles, nextHandle) /\ kernel' = kernel \cup {NewRule}
    BY <1>3 DEF AddRule, NftAdd
  <2>2. handles \in Seq(1..MaxHandle) /\ nextHandle \in 1..MaxHandle
    BY <2>1, NewRuleType DEF TypeOK
  <2>3. Len(handles) \in Nat /\ Len(handles) <= 2
    BY <2>2 DEF HandlesOK
  <2>4. Len(handles) + 1 <= 2
    BY <1>3, <2>3, BelowTwo, Zenon
  <2>5. /\ Len(handles') = Len(handles) + 1
        /\ \A i \in 1..Len(handles) : handles'[i] = handles[i]
        /\ handles'[Len(handles) + 1] = nextHandle
    BY <2>1, <2>2, AppendFacts
  <2>6. \A i \in 1..Len(handles') : i \in 1..Len(handles) \/ i = Len(handles) + 1
    BY <2>3, <2>5
  <2>7. \A i \in 1..Len(handles') :
          [h |-> handles'[i], port |-> Head(queue).port,
           protocol |-> Head(queue).protocol, kind |-> Kinds[i]] \in kernel'
    BY <2>1, <2>5, <2>6 DEF HandlesOK, NewRule
  <2>. QED
    BY <2>1, <2>4, <2>5, <2>7 DEF HandlesOK
<1>4. CASE pc # "rule" /\ pc' # "rule" /\ UNCHANGED handles
  BY <1>1, <1>4 DEF HandlesOK
<1>5. CASE UNCHANGED vars
  BY <1>5 DEF vars, work, HandlesOK
<1>6. ASSUME NEW desired \in Seq(PortRules), NEW b \in BOOLEAN,
             pc \in {"idle", "down"}, Begin(desired, b)
      PROVE  pc # "rule" /\ pc' # "rule" /\ UNCHANGED handles
  BY <1>6 DEF Begin
<1>7. CASE Cut \/ Stop \/ CtrlC \/ Reboot \/ SyncDone
  BY <1>1, <1>7 DEF Cut, Stop, CtrlC, Reboot, SyncDone, Forget
<1>8. CASE AddFails
  BY <1>1, <1>8 DEF AddFails
<1>9. CASE AddRule /\ Len(handles) = 2
  BY <1>1, <1>9 DEF AddRule
<1>10. CASE StaleDone \/ SkipHeld \/ DeleteRule \/ DeleteFails \/ DeleteDone \/ SaveState \/ SaveFails
  BY <1>4, <1>10 DEF StaleDone, SkipHeld, DeleteRule, DeleteFails, DeleteDone, SaveState, SaveFails, TypeOK, work
<1>11. ASSUME NEW p \in Ports, RemoveStale(p) PROVE pc # "rule" /\ pc' # "rule" /\ UNCHANGED handles
  BY <1>11 DEF RemoveStale
<1>. QED
  BY StepCases, <1>2, <1>3, <1>4, <1>5, <1>6, <1>7, <1>8, <1>9, <1>10, <1>11 DEF work

\* Ports still to be unprotected are in the map.
LEMMA StaleStep == TypeOK /\ StaleOK /\ HandlesOK /\ [Next]_vars => StaleOK'
<1>. SUFFICES ASSUME TypeOK, StaleOK, HandlesOK, [Next]_vars PROVE StaleOK'
  OBVIOUS
<1>1. ASSUME NEW desired \in Seq(PortRules), NEW b \in BOOLEAN, Begin(desired, b)
      PROVE StaleOK'
  BY <1>1 DEF Begin, StalePorts, StaleOK, Held
<1>2. ASSUME NEW p \in Ports, RemoveStale(p) PROVE StaleOK'
  BY <1>2 DEF RemoveStale, StaleOK, Held, TypeOK
<1>3. CASE stale' = {}
  BY <1>3 DEF StaleOK
<1>4. CASE UNCHANGED <<stale, protected>>
  BY <1>4 DEF StaleOK, Held
<1>5. CASE AddRule
  <2>1. Head(queue).port \in Ports
    BY <1>5, PortsOfTail DEF AddRule, HandlesOK, TypeOK
  <2>2. [protocol |-> Head(queue).protocol, handles |-> Append(handles, nextHandle)] \in Entries
    <3>1. Append(handles, nextHandle) \in Seq(1..MaxHandle)
      BY <1>5, NewRuleType DEF AddRule, NftAdd
    <3>2. Head(queue).protocol \in Protocols
      BY <1>5, PortsOfTail DEF AddRule, HandlesOK, TypeOK, PortRules
    <3>. QED
      BY <3>1, <3>2 DEF Entries
  <2>3. \A q \in Held : protected'[q] # NoEntry
    BY <1>5, <2>1, <2>2, ConstantsAssumption DEF AddRule, Held, TypeOK
  <2>. QED
    BY <1>5, <2>3 DEF AddRule, StaleOK, Held
<1>. QED
  BY StepCases, <1>1, <1>2, <1>3, <1>4, <1>5
  DEF StaleDone, SkipHeld, Protect, AddFails, DeleteRule, DeleteFails, DeleteDone,
      SyncDone, SaveState, SaveFails, Cut, Stop, CtrlC, Reboot, Forget, vars, work
\* The handles of an entry belong to rules of its port, those on the stack to
\* rules of the port being protected.
LEMMA EntryHandle ==
  ASSUME EntryBacked, NEW p \in Held, NEW j \in 1..3
  PROVE  \E r \in kernel : r.h = protected[p].handles[j] /\ r.port = p
<1>1. j = 1 \/ j = 2 \/ j = 3
  OBVIOUS
<1>2. /\ RuleOf(p, 1, "lo") \in kernel /\ RuleOf(p, 2, "tun") \in kernel
      /\ RuleOf(p, 3, "drop") \in kernel
  BY DEF EntryBacked
<1>. QED
  BY <1>1, <1>2 DEF RuleOf

\* A handle on protect_port's stack is that of a rule in the chain.
LEMMA StackHandle ==
  ASSUME HandlesOK, NEW i \in 1..Len(handles)
  PROVE  \E r \in kernel : r.h = handles[i] /\ r.port = Head(queue).port
  BY DEF HandlesOK

\* The handles being deleted stay clear of the map.
LEMMA DoomedStep ==
  TypeOK /\ RulesOK /\ EntryBacked /\ StaleOK /\ HandlesOK /\ DoomedOK /\ [Next]_vars
    => DoomedOK'
<1>. SUFFICES ASSUME TypeOK, RulesOK, EntryBacked, StaleOK, HandlesOK, DoomedOK, [Next]_vars
              PROVE DoomedOK'
  OBVIOUS
<1>1. CASE doomed' = <<>>
  BY <1>1 DEF DoomedOK
<1>2. CASE pc # "delete" /\ UNCHANGED doomed
  BY <1>1, <1>2 DEF DoomedOK
<1>3. ASSUME NEW p \in Ports, RemoveStale(p) PROVE DoomedOK'
  <2>1. p \in Held /\ doomed' = protected[p].handles /\ pc' = "delete"
    BY <1>3 DEF RemoveStale, StaleOK
  <2>2. Len(protected[p].handles) = 3
    BY <2>1 DEF EntryBacked
  <2>. SUFFICES ASSUME NEW i \in 1..3, NEW q \in Ports, protected'[q] # NoEntry, NEW j \in 1..3
                PROVE  protected'[q].handles[j] # protected[p].handles[i]
    BY <2>1, <2>2, Zenon DEF DoomedOK, Held
  <2>3. q # p /\ protected'[q] = protected[q] /\ q \in Held
    BY <1>3 DEF RemoveStale, TypeOK, Held
  <2>. QED
    BY <2>1, <2>3, EntryHandle DEF RulesOK
<1>4. CASE AddFails
  <2>1. doomed' = handles /\ pc' = "delete" /\ UNCHANGED protected
        /\ protected[Head(queue).port] = NoEntry
    BY <1>4 DEF AddFails, Rollback, HandlesOK
  <2>2. \A i \in 1..Len(handles), q \in Held, j \in 1..3 : protected[q].handles[j] # handles[i]
    <3>. SUFFICES ASSUME NEW i \in 1..Len(handles), NEW q \in Held, NEW j \in 1..3
                  PROVE  protected[q].handles[j] # handles[i]
      OBVIOUS
    <3>1. PICK r \in kernel : r.h = handles[i] /\ r.port = Head(queue).port
      BY StackHandle
    <3>2. PICK s \in kernel : s.h = protected[q].handles[j] /\ s.port = q
      BY EntryHandle
    <3>3. q # Head(queue).port
      BY <2>1 DEF Held
    <3>. QED
      BY <3>1, <3>2, <3>3 DEF RulesOK
  <2>. QED
    BY <2>1, <2>2 DEF DoomedOK, Held
<1>5. CASE pc = "delete" /\ doomed # <<>> /\ doomed' = Tail(doomed) /\ UNCHANGED <<pc, protected>>
  <2>1. \A i \in 1..Len(Tail(doomed)) : i + 1 \in 1..Len(doomed) /\ Tail(doomed)[i] = doomed[i + 1]
    BY <1>5, HandlesTail DEF TypeOK
  <2>. QED
    BY <1>5, <2>1 DEF DoomedOK, Held
<1>6. CASE DeleteRule \/ DeleteFails
  BY <1>5, <1>6 DEF DeleteRule, DeleteFails
<1>7. CASE StaleDone \/ SkipHeld \/ Protect \/ AddRule \/ SaveState \/ SaveFails
  BY <1>2, <1>7 DEF StaleDone, SkipHeld, Protect, AddRule, SaveState, SaveFails, work
<1>8. CASE DeleteDone \/ SyncDone \/ Cut \/ Stop \/ CtrlC \/ Reboot
  BY <1>1, <1>8 DEF DeleteDone, SyncDone, Cut, Stop, CtrlC, Reboot, Forget, work
<1>9. ASSUME NEW desired \in Seq(PortRules), NEW b \in BOOLEAN,
             pc \in {"idle", "down"}, Begin(desired, b)
      PROVE  pc # "delete" /\ UNCHANGED doomed
  BY <1>9 DEF Begin
<1>10. CASE UNCHANGED vars
  BY <1>10 DEF vars, work, DoomedOK, Held
<1>. QED
  BY StepCases, <1>2, <1>3, <1>4, <1>6, <1>7, <1>8, <1>9, <1>10 DEF work

\* The rules being deleted belong to a port that left the map, or never got into it.
LEMMA AwayStep ==
  IInv /\ [Next]_vars => AwayOK'
<1>. SUFFICES ASSUME IInv, [Next]_vars, NEW r \in kernel',
                     NEW i \in 1..Len(doomed'), doomed'[i] = r.h
              PROVE  protected'[r.port] = NoEntry
  BY DEF AwayOK
<1>. USE DEF IInv
<1>1. doomed' # <<>>
  OBVIOUS
<1>2. ASSUME NEW p \in Ports, RemoveStale(p) PROVE protected'[r.port] = NoEntry
  <2>1. /\ p \in Held /\ doomed' = protected[p].handles /\ r \in kernel
        /\ protected' = [protected EXCEPT ![p] = NoEntry]
    BY <1>2 DEF RemoveStale, StaleOK
  <2>2. i \in 1..3
    BY <2>1 DEF EntryBacked
  <2>3. PICK q \in kernel : q.h = protected[p].handles[i] /\ q.port = p
    BY <2>1, <2>2, EntryHandle
  <2>. QED
    BY <2>1, <2>3 DEF RulesOK, TypeOK
<1>3. CASE AddFails
  <2>1. doomed' = handles /\ UNCHANGED protected /\ protected[Head(queue).port] = NoEntry
    BY <1>3 DEF AddFails, Rollback, HandlesOK
  <2>2. PICK q \in kernel : q.h = handles[i] /\ q.port = Head(queue).port
    BY <2>1, StackHandle
  <2>3. CASE r \in kernel
    BY <2>1, <2>2, <2>3 DEF RulesOK
  <2>4. CASE r = NewRule /\ NftAdd
    BY <2>1, <2>4 DEF NewRule
  <2>. QED
    BY <1>3, <2>3, <2>4 DEF AddFails, NftAdd
<1>4. CASE DeleteRule \/ DeleteFails
  <2>1. /\ doomed # <<>> /\ doomed' = Tail(doomed) /\ UNCHANGED protected /\ r \in kernel
    BY <1>4 DEF DeleteRule, DeleteFails, NftDelete
  <2>2. i + 1 \in 1..Len(doomed) /\ doomed[i + 1] = r.h
    BY <2>1, HandlesTail DEF TypeOK
  <2>. QED
    BY <2>1, <2>2 DEF AwayOK
<1>5. doomed # <<>> => pc = "delete"
  BY DEF DoomedOK
<1>6. CASE StaleDone \/ SkipHeld \/ Protect \/ AddRule \/ SaveState \/ SaveFails
  BY <1>1, <1>5, <1>6 DEF StaleDone, SkipHeld, Protect, AddRule, SaveState, SaveFails, work
<1>7. CASE DeleteDone \/ SyncDone \/ Cut \/ Stop \/ CtrlC \/ Reboot
  BY <1>1, <1>7 DEF DeleteDone, SyncDone, Cut, Stop, CtrlC, Reboot, Forget, work
<1>8. ASSUME NEW desired \in Seq(PortRules), NEW b \in BOOLEAN,
             pc \in {"idle", "down"}, Begin(desired, b)
      PROVE  FALSE
  BY <1>1, <1>5, <1>8 DEF Begin
<1>9. CASE UNCHANGED vars
  BY <1>9 DEF vars, work, AwayOK
<1>. QED
  BY StepCases, <1>1, <1>2, <1>3, <1>4, <1>5, <1>6, <1>7, <1>8, <1>9 DEF work

\* A rule of the chain whose handle the process still has.
Known(r) ==
  \/ /\ protected[r.port] # NoEntry
     /\ \E i \in 1..3 : protected[r.port].handles[i] = r.h
  \/ \E i \in 1..Len(handles) : handles[i] = r.h
  \/ \E i \in 1..Len(doomed) : doomed[i] = r.h

\* Rules stay known until one leaks.
LEMMA KnownStep == IInv /\ [Next]_vars => KnownOK'
<1>. SUFFICES ASSUME IInv, [Next]_vars, ~leaked', NEW r \in kernel'
              PROVE  Known(r)'
  BY DEF KnownOK, Known
<1>. USE DEF IInv
<1>1. CASE kernel' = {}
  BY <1>1
<1>2. ASSUME ~leaked, r \in kernel PROVE Known(r)
  BY <1>2 DEF KnownOK, Known
<1>3. CASE ~leaked /\ UNCHANGED <<kernel, protected, handles, doomed>>
  BY <1>2, <1>3 DEF Known
<1>4. ASSUME NEW p \in Ports, RemoveStale(p) PROVE Known(r)'
  <2>1. /\ p \in Held /\ doomed = <<>> /\ doomed' = protected[p].handles
        /\ UNCHANGED <<kernel, handles, leaked>>
        /\ protected' = [protected EXCEPT ![p] = NoEntry]
    BY <1>4 DEF RemoveStale, StaleOK, DoomedOK, history
  <2>2. Len(protected[p].handles) = 3
    BY <2>1 DEF EntryBacked
  <2>3. Known(r)
    BY <1>2, <2>1
  <2>4. r.port \in Ports /\ \A q \in Ports : q # p => protected'[q] = protected[q]
    BY <2>1 DEF TypeOK, Rules
  <2>5. CASE protected[r.port] # NoEntry /\ \E i \in 1..3 : protected[r.port].handles[i] = r.h
    <3>1. CASE r.port = p
      BY <2>1, <2>2, <2>5, <3>1, Zenon DEF Known
    <3>2. CASE r.port # p
      BY <2>4, <2>5, <3>2 DEF Known
    <3>. QED
      BY <3>1, <3>2
  <2>6. CASE \E i \in 1..Len(handles) : handles[i] = r.h
    BY <2>1, <2>6 DEF Known
  <2>7. ~ \E i \in 1..Len(doomed) : doomed[i] = r.h
    BY <2>1
  <2>. QED
    BY <2>3, <2>5, <2>6, <2>7 DEF Known
<1>5. CASE AddRule /\ Len(handles) # 2
  <2>1. /\ pc = "rule" /\ UNCHANGED <<protected, doomed, leaked>> /\ nextHandle <= MaxHandle
        /\ handles' = Append(handles, nextHandle) /\ kernel' = kernel \cup {NewRule}
    BY <1>5 DEF AddRule, NftAdd, history
  <2>2. NewRule.h = nextHandle /\ handles \in Seq(1..MaxHandle) /\ nextHandle \in 1..MaxHandle
    BY <2>1, NewRuleType DEF TypeOK
  <2>3. /\ Len(handles') = Len(handles) + 1 /\ Len(handles) \in Nat
        /\ \A i \in 1..Len(handles) : handles'[i] = handles[i]
        /\ handles'[Len(handles) + 1] = nextHandle
    BY <2>1, <2>2, AppendFacts
  <2>4. Len(handles) + 1 \in 1..Len(handles') /\ \A i \in 1..Len(handles) : i \in 1..Len(handles')
    BY <2>3
  <2>5. CASE r = NewRule
    BY <2>2, <2>3, <2>4, <2>5 DEF Known
  <2>6. CASE r \in kernel
    BY <1>2, <2>1, <2>3, <2>4, <2>6 DEF Known
  <2>. QED
    BY <2>1, <2>5, <2>6
<1>6. CASE AddRule /\ Len(handles) = 2
  <2>1. /\ pc = "rule" /\ UNCHANGED <<doomed, leaked>> /\ nextHandle <= MaxHandle
        /\ kernel' = kernel \cup {NewRule} /\ doomed = <<>>
        /\ protected' = [protected EXCEPT ![Head(queue).port] =
               [protocol |-> Head(queue).protocol,
                handles |-> Append(handles, nextHandle)]]
    BY <1>6 DEF AddRule, NftAdd, history, DoomedOK
  <2>2. /\ NewRule.h = nextHandle /\ NewRule.port = Head(queue).port
        /\ handles \in Seq(1..MaxHandle) /\ nextHandle \in 1..MaxHandle
        /\ Append(handles, nextHandle) \in Seq(1..MaxHandle)
    BY <2>1, NewRuleType DEF TypeOK
  <2>3. Head(queue).port \in Ports /\ Head(queue).protocol \in Protocols
        /\ protected[Head(queue).port] = NoEntry
    BY <2>1, PortsOfTail DEF HandlesOK, TypeOK, PortRules
  <2>4. [protocol |-> Head(queue).protocol, handles |-> Append(handles, nextHandle)] # NoEntry
    <3>1. [protocol |-> Head(queue).protocol, handles |-> Append(handles, nextHandle)] \in Entries
      BY <2>2, <2>3, Zenon DEF Entries
    <3>. QED
      BY <3>1, ConstantsAssumption, Zenon
  <2>5. /\ protected'[Head(queue).port] # NoEntry
        /\ protected'[Head(queue).port].handles = Append(handles, nextHandle)
        /\ \A q \in Ports : q # Head(queue).port => protected'[q] = protected[q]
    BY <2>1, <2>3, <2>4 DEF TypeOK
  <2>6. /\ Append(handles, nextHandle)[1] = handles[1]
        /\ Append(handles, nextHandle)[2] = handles[2]
        /\ Append(handles, nextHandle)[3] = nextHandle
    BY <1>6, <2>2, AppendThird, Zenon
  <2>7. CASE r = NewRule
    <3>1. protected'[r.port] # NoEntry /\ protected'[r.port].handles[3] = r.h
      BY <2>2, <2>5, <2>6, <2>7, Zenon
    <3>2. 3 \in 1..3
      OBVIOUS
    <3>. QED
      BY <3>1, <3>2, Zenon DEF Known
  <2>8. CASE r \in kernel /\ \E i \in 1..Len(handles) : handles[i] = r.h
    <3>1. PICK i \in 1..Len(handles) : handles[i] = r.h
      BY <2>8
    <3>2. r.port = Head(queue).port
      BY <2>8, <3>1, StackHandle DEF RulesOK
    <3>3. i \in 1..2
      BY <1>6, <3>1, Zenon
    <3>4. i = 1 \/ i = 2
      BY <3>3
    <3>. QED
      BY <2>5, <2>6, <3>1, <3>2, <3>4 DEF Known
  <2>9. CASE r \in kernel /\ protected[r.port] # NoEntry
             /\ \E i \in 1..3 : protected[r.port].handles[i] = r.h
    <3>1. r.port # Head(queue).port /\ r.port \in Ports
      BY <2>3, <2>9 DEF TypeOK, Rules
    <3>. QED
      BY <2>5, <2>9, <3>1 DEF Known
  <2>10. ~ \E i \in 1..Len(doomed) : doomed[i] = r.h
    BY <2>1
  <2>. QED
    BY <1>2, <2>1, <2>7, <2>8, <2>9, <2>10 DEF Known
<1>7. CASE AddFails
  <2>1. UNCHANGED <<kernel, leaked, protected>> /\ doomed = <<>> /\ doomed' = handles
    BY <1>7 DEF AddFails, Rollback, DoomedOK
  <2>. QED
    BY <1>2, <2>1 DEF Known
<1>8. CASE DeleteRule
  <2>1. /\ UNCHANGED <<leaked, protected, handles>> /\ doomed' = Tail(doomed)
        /\ r \in kernel /\ r.h # Head(doomed) /\ doomed # <<>>
    BY <1>8 DEF DeleteRule, NftDelete, history
  <2>2. /\ Head(doomed) = doomed[1]
        /\ \A i \in 1..Len(doomed) :
             i = 1 \/ (i - 1 \in 1..Len(doomed') /\ doomed'[i - 1] = doomed[i])
    BY <2>1, HandlesTail DEF TypeOK
  <2>. QED
    BY <1>2, <2>1, <2>2 DEF Known
<1>9. CASE Cut
  <2>1. ~leaked /\ handles = <<>> /\ doomed = <<>> /\ kernel' = kernel
    BY <1>9 DEF Cut
  <2>2. handles' = <<>> /\ doomed' = <<>> /\ UNCHANGED protected
    BY <1>9 DEF Cut, Forget
  <2>. QED
    BY <1>3, <2>1, <2>2
<1>10. CASE Stop \/ CtrlC \/ Reboot
  BY <1>1, <1>10 DEF Stop, CtrlC, Reboot, NoTable
<1>11. CASE DeleteFails
  BY <1>11 DEF DeleteFails
<1>12. CASE StaleDone \/ SkipHeld \/ Protect \/ DeleteDone \/ SyncDone \/ SaveState \/ SaveFails
  <2>1. UNCHANGED <<kernel, protected, leaked>>
    BY <1>12 DEF StaleDone, SkipHeld, Protect, DeleteDone, SyncDone, SaveState, SaveFails, history
  <2>2. UNCHANGED <<handles, doomed>>
    BY <1>12 DEF StaleDone, SkipHeld, Protect, DeleteDone, SyncDone, SaveState, SaveFails, work,
                 Forget, HandlesOK, DoomedOK
  <2>. QED
    BY <1>3, <2>1, <2>2
<1>13. ASSUME NEW desired \in Seq(PortRules), NEW b \in BOOLEAN, Begin(desired, b)
       PROVE  Known(r)'
  BY <1>3, <1>13 DEF Begin
<1>14. CASE UNCHANGED <<kernel, nextHandle, protected, file, work, history>>
  BY <1>3, <1>14 DEF work, history
<1>15. CASE UNCHANGED vars
  BY <1>14, <1>15 DEF vars
<1>. QED
  BY StepCases, <1>4, <1>5, <1>6, <1>7, <1>8, <1>9, <1>10, <1>11, <1>12, <1>13, <1>14, <1>15
\* A sync without errors makes progress towards the ports it was asked for.
LEMMA ProgressStep == IInv /\ [Next]_vars => ProgressOK'
<1>. SUFFICES ASSUME IInv, [Next]_vars PROVE ProgressOK'
  OBVIOUS
<1>. USE DEF IInv
<1>1. CASE ~settled'
  BY <1>1 DEF ProgressOK
<1>2. ASSUME NEW desired \in Seq(PortRules), NEW b \in BOOLEAN, Begin(desired, b)
      PROVE ProgressOK'
  <2>1. /\ stale' = Held \ PortsOf(desired) /\ queue' = desired /\ wanted' = desired
        /\ pc' = "remove" /\ UNCHANGED protected
    BY <1>2 DEF Begin, StalePorts
  <2>2. Held' = Held /\ PortsOf(wanted)' = PortsOf(desired)
    BY <2>1 DEF Held, PortsOf
  <2>. QED
    BY <2>1, <2>2 DEF ProgressOK
<1>3. CASE pc = "down" /\ pc' = "idle" /\ UNCHANGED <<kernel, nextHandle, protected, file, work, history>>
  <2>1. UNCHANGED <<protected, wanted, settled>> /\ Held' = Held
    BY <1>3 DEF history, Held
  <2>2. settled => Held = {} /\ PortsOf(wanted) = {}
    BY <1>3 DEF ProgressOK, Nothing, Held, PortsOf
  <2>3. PortsOf(wanted)' = PortsOf(wanted)
    BY <2>1 DEF PortsOf
  <2>. QED
    BY <1>3, <2>1, <2>2, <2>3 DEF ProgressOK
<1>4. ASSUME NEW p \in Ports, RemoveStale(p) PROVE ProgressOK'
  <2>1. /\ pc = "remove" /\ pc' = "delete" /\ after' = "remove"
        /\ stale' = stale \ {p} /\ UNCHANGED <<queue, wanted, settled>>
    BY <1>4 DEF RemoveStale, history
  <2>2. Held' = Held \ {p}
    BY <1>4 DEF RemoveStale, Held, TypeOK
  <2>3. PortsOf(wanted)' = PortsOf(wanted)
    BY <2>1 DEF PortsOf
  <2>. QED
    BY <2>1, <2>2, <2>3 DEF ProgressOK
<1>5. CASE StaleDone
  <2>1. /\ pc = "remove" /\ pc' = "add" /\ stale = {}
        /\ UNCHANGED <<protected, queue, wanted, settled>>
    BY <1>5 DEF StaleDone, work, history
  <2>2. Held' = Held /\ PortsOf(wanted)' = PortsOf(wanted) /\ PortsOf(queue)' = PortsOf(queue)
    BY <2>1 DEF Held, PortsOf
  <2>. QED
    BY <2>1, <2>2 DEF ProgressOK
<1>6. CASE SkipHeld
  <2>1. /\ pc = "add" /\ UNCHANGED <<pc, protected, wanted, settled>>
        /\ queue # <<>> /\ queue' = Tail(queue) /\ protected[Head(queue).port] # NoEntry
    BY <1>6 DEF SkipHeld, history
  <2>2. Held' = Held /\ PortsOf(wanted)' = PortsOf(wanted) /\ PortsOf(queue)' = PortsOf(Tail(queue))
    BY <2>1 DEF Held, PortsOf
  <2>3. Head(queue).port \in Held /\ PortsOf(queue) = {Head(queue).port} \cup PortsOf(Tail(queue))
    BY <2>1, PortsOfTail DEF Held, TypeOK
  <2>. QED
    BY <2>1, <2>2, <2>3 DEF ProgressOK
<1>7. CASE Protect
  <2>1. pc = "add" /\ pc' = "rule" /\ UNCHANGED <<protected, queue, wanted, settled>>
    BY <1>7 DEF Protect, history
  <2>2. Held' = Held /\ PortsOf(wanted)' = PortsOf(wanted) /\ PortsOf(queue)' = PortsOf(queue)
    BY <2>1 DEF Held, PortsOf
  <2>. QED
    BY <2>1, <2>2 DEF ProgressOK
<1>8. CASE AddRule /\ Len(handles) # 2
  <2>1. pc = "rule" /\ UNCHANGED <<pc, protected, queue, wanted, settled>>
    BY <1>8 DEF AddRule, history
  <2>2. Held' = Held /\ PortsOf(wanted)' = PortsOf(wanted) /\ PortsOf(queue)' = PortsOf(queue)
    BY <2>1 DEF Held, PortsOf
  <2>. QED
    BY <2>1, <2>2 DEF ProgressOK
<1>9. CASE AddRule /\ Len(handles) = 2
  <2>1. /\ pc = "rule" /\ pc' = "add" /\ queue' = Tail(queue) /\ UNCHANGED <<wanted, settled>>
        /\ nextHandle <= MaxHandle /\ queue # <<>>
        /\ protected' = [protected EXCEPT ![Head(queue).port] =
               [protocol |-> Head(queue).protocol,
                handles |-> Append(handles, nextHandle)]]
    BY <1>9 DEF AddRule, NftAdd, history, HandlesOK
  <2>2. /\ Head(queue).port \in Ports /\ Head(queue) \in PortRules
        /\ PortsOf(queue) = {Head(queue).port} \cup PortsOf(Tail(queue))
    BY <2>1, PortsOfTail DEF TypeOK
  <2>3. [protocol |-> Head(queue).protocol, handles |-> Append(handles, nextHandle)] # NoEntry
    <3>1. Append(handles, nextHandle) \in Seq(1..MaxHandle) /\ Head(queue).protocol \in Protocols
      BY <2>1, <2>2, NewRuleType DEF PortRules
    <3>2. [protocol |-> Head(queue).protocol, handles |-> Append(handles, nextHandle)] \in Entries
      BY <3>1, Zenon DEF Entries
    <3>. QED
      BY <3>2, ConstantsAssumption, Zenon
  <2>4. Held' = Held \cup {Head(queue).port}
    BY <2>1, <2>2, <2>3 DEF Held, TypeOK
  <2>5. PortsOf(wanted)' = PortsOf(wanted) /\ PortsOf(queue)' = PortsOf(Tail(queue))
    BY <2>1 DEF PortsOf
  <2>6. settled => Head(queue).port \in PortsOf(wanted)
    BY <2>1, <2>2 DEF ProgressOK
  <2>. QED
    BY <2>1, <2>2, <2>4, <2>5, <2>6 DEF ProgressOK
<1>10. CASE DeleteRule
  <2>1. pc = "delete" /\ UNCHANGED <<pc, after, stale, protected, queue, wanted, settled>>
    BY <1>10 DEF DeleteRule, history
  <2>2. Held' = Held /\ PortsOf(wanted)' = PortsOf(wanted)
    BY <2>1 DEF Held, PortsOf
  <2>. QED
    BY <2>1, <2>2 DEF ProgressOK
<1>11. CASE DeleteDone
  <2>1. pc = "delete" /\ pc' = after /\ UNCHANGED <<stale, protected, queue, wanted, settled>>
    BY <1>11 DEF DeleteDone, work, history
  <2>2. Held' = Held /\ PortsOf(wanted)' = PortsOf(wanted)
    BY <2>1 DEF Held, PortsOf
  <2>. QED
    BY <2>1, <2>2 DEF ProgressOK
<1>12. CASE SyncDone
  <2>1. /\ pc = "add" /\ pc' \in {"idle", "save"} /\ queue = <<>>
        /\ UNCHANGED <<protected, wanted, settled>>
    BY <1>12 DEF SyncDone, history
  <2>2. Held' = Held /\ PortsOf(wanted)' = PortsOf(wanted) /\ PortsOf(queue) = {}
    BY <2>1 DEF Held, PortsOf
  <2>. QED
    BY <2>1, <2>2 DEF ProgressOK
<1>13. CASE SaveState
  <2>1. pc = "save" /\ pc' = "idle" /\ UNCHANGED <<protected, wanted, settled>>
    BY <1>13 DEF SaveState, history
  <2>2. Held' = Held /\ PortsOf(wanted)' = PortsOf(wanted)
    BY <2>1 DEF Held, PortsOf
  <2>. QED
    BY <2>1, <2>2 DEF ProgressOK
<1>14. CASE AddFails \/ DeleteFails \/ SaveFails \/ Cut \/ Stop \/ CtrlC \/ Reboot
  BY <1>1, <1>14, Zenon DEF AddFails, DeleteFails, SaveFails, Cut, Stop, CtrlC, Reboot, Fault
<1>15. CASE UNCHANGED vars
  <2>1. UNCHANGED <<pc, after, stale, protected, queue, wanted, settled>>
    BY <1>15 DEF vars, work, history
  <2>2. Held' = Held /\ PortsOf(wanted)' = PortsOf(wanted) /\ PortsOf(queue)' = PortsOf(queue)
    BY <2>1 DEF Held, PortsOf
  <2>. QED
    BY <2>1, <2>2 DEF ProgressOK
<1>. QED
  BY StepCases, <1>2, <1>3, <1>4, <1>5, <1>6, <1>7, <1>8, <1>9, <1>10, <1>11, <1>12,
     <1>13, <1>14, <1>15
\* The agent is down and nothing is protected: the invariant holds at first.
LEMMA InitInv == Init => IInv
<1>. SUFFICES ASSUME Init PROVE IInv
  OBVIOUS
<1>1. restoring \in BOOLEAN /\ settled \in BOOLEAN /\ leaked \in BOOLEAN
  BY Zenon DEF Init
<1>2. TypeOK
  BY <1>1, ConstantsAssumption DEF Init, TypeOK, PC, Nothing
<1>3. Held = {}
  BY DEF Init, Nothing, Held
<1>4. RulesOK /\ HandlesOK /\ DoomedOK /\ AwayOK /\ StaleOK
  BY DEF Init, RulesOK, HandlesOK, DoomedOK, AwayOK, StaleOK
<1>5. EntryBacked /\ KnownOK
  BY <1>3 DEF Init, EntryBacked, KnownOK
<1>6. ProgressOK
  BY DEF Init, ProgressOK
<1>. QED
  BY <1>2, <1>4, <1>5, <1>6 DEF IInv

\* IInv is an invariant of the specification.
LEMMA Invariance == Spec => []IInv
<1>1. IInv /\ [Next]_vars => IInv'
  BY TypeStep, RulesStep, BackedStep, HandlesStep, DoomedStep, AwayStep, StaleStep, KnownStep, ProgressStep
     DEF IInv
<1>. QED
  BY <1>1, InitInv, PTL DEF Spec

\* The enforcer, the chain and the state file keep their types.
THEOREM TypeCorrect == Spec => []TypeOK
<1>1. IInv => TypeOK
  BY DEF IInv
<1>. QED
  BY <1>1, Invariance, PTL

\* The drop that the entry of a port names keeps the network out.
LEMMA NetClosed ==
  ASSUME IInv, NEW p \in Held
  PROVE  ~Passes("net", p, protected[p].protocol)
<1>1. RuleOf(p, 3, "drop") \in kernel
  BY DEF IInv, EntryBacked
<1>2. \A a \in kernel : a.kind # "net"
  BY DEF IInv, TypeOK, Rules
<1>. QED
  BY <1>1, <1>2 DEF Passes, RuleOf

\* While nothing has leaked, the only drop for a port in the map is its own.
LEMMA OwnDrop ==
  ASSUME IInv, ~leaked, NEW p \in Held, NEW d \in kernel, d.port = p, d.kind = "drop"
  PROVE  d.h = protected[p].handles[3]
<1>. USE DEF IInv
<1>1. p \in Ports /\ protected[p] # NoEntry
  BY DEF Held
<1>2. ~ \E i \in 1..Len(doomed) : doomed[i] = d.h
  BY <1>1 DEF AwayOK
<1>3. ~ \E i \in 1..Len(handles) : handles[i] = d.h
  <2>. SUFFICES ASSUME NEW i \in 1..Len(handles), handles[i] = d.h PROVE FALSE
    OBVIOUS
  <2>1. PICK r \in kernel : r.h = handles[i] /\ r.port = Head(queue).port
    BY StackHandle
  <2>2. pc = "rule" /\ protected[Head(queue).port] = NoEntry
    BY DEF HandlesOK
  <2>. QED
    BY <1>1, <2>1, <2>2 DEF RulesOK
<1>4. PICK i \in 1..3 : protected[p].handles[i] = d.h
  BY <1>2, <1>3 DEF KnownOK
<1>5. i = 1 \/ i = 2 \/ i = 3
  OBVIOUS
<1>6. RuleOf(p, 1, "lo") \in kernel /\ RuleOf(p, 2, "tun") \in kernel
  BY DEF EntryBacked
<1>7. CASE i = 1
  BY <1>4, <1>6, <1>7 DEF RulesOK, RuleOf
<1>8. CASE i = 2
  BY <1>4, <1>6, <1>8 DEF RulesOK, RuleOf
<1>. QED
  BY <1>4, <1>5, <1>7, <1>8

\* Whatever nft commands fail and wherever a sync is cut or the process stops, the
\* chain drops what the network sends to a port in FirewallEnforcer.protected; and
\* it accepts what comes from loopback and the tunnel unless a handle was lost.
THEOREM PortShieldedTheorem == Spec => []PortShielded
<1>1. IInv => PortShielded
  <2>. SUFFICES ASSUME IInv, NEW p \in Held
                PROVE  /\ ~Passes("net", p, protected[p].protocol)
                       /\ ~leaked => /\ Passes("lo", p, protected[p].protocol)
                                     /\ Passes("tun", p, protected[p].protocol)
    BY DEF PortShielded
  <2>1. /\ RuleOf(p, 1, "lo") \in kernel /\ RuleOf(p, 2, "tun") \in kernel
        /\ protected[p].handles[1] < protected[p].handles[3]
        /\ protected[p].handles[2] < protected[p].handles[3]
    BY DEF IInv, EntryBacked
  <2>2. ASSUME ~leaked PROVE Passes("lo", p, protected[p].protocol)
    BY <2>1, <2>2, OwnDrop DEF Passes, RuleOf
  <2>3. ASSUME ~leaked PROVE Passes("tun", p, protected[p].protocol)
    BY <2>1, <2>3, OwnDrop DEF Passes, RuleOf
  <2>. QED
    BY <2>2, <2>3, NetClosed
<1>. QED
  BY <1>1, Invariance, PTL

\* A sync_policy that runs to its end without an error leaves exactly the ports
\* it was asked for in the map, however earlier syncs ended.
THEOREM ConvergedTheorem == Spec => []Converged
<1>1. IInv => Converged
  BY DEF IInv, ProgressOK, Converged
<1>. QED
  BY <1>1, Invariance, PTL

\* A rule can be left behind only by a failed delete, an unreadable handle, a cut
\* or an unclean stop: a failed protect_port rolls its rules back.
THEOREM AccountedTheorem == Spec => []Accounted
<1>1. IInv => Accounted
  <2>. SUFFICES ASSUME IInv, pc = "idle", ~leaked, NEW r \in kernel
                PROVE  /\ protected[r.port] # NoEntry
                       /\ \E i \in 1..3 : protected[r.port].handles[i] = r.h
    BY DEF Accounted
  <2>1. handles = <<>> /\ doomed = <<>>
    BY DEF IInv, HandlesOK, DoomedOK
  <2>2. 1..Len(handles) = {} /\ 1..Len(doomed) = {}
    BY <2>1
  <2>. QED
    BY <2>2 DEF IInv, KnownOK
<1>. QED
  BY <1>1, Invariance, PTL

-----------------------------------------------------------------------------
(* The state file.                                                         *)

\* The file lists a port once, as the map does.
FileSingle ==
  (file # NoFile /\ file # Torn) => \A r, q \in file : r.port = q.port => r = q

\* While a start restores the file and nothing has failed, the map and what is
\* still queued make up the file.
RestoreOK ==
  (settled /\ restoring) =>
    /\ pc \in {"remove", "add", "rule"} /\ stale = {}
    /\ file # NoFile /\ file # Torn
    /\ State \cup {queue[i] : i \in 1..Len(queue)} = file

\* A process that is down holds no map, and before the first sync there is no
\* file.
DownOK == pc = "down" => protected = Nothing /\ (settled => file = NoFile)

FileInv == FileSingle /\ RestoreOK /\ DownOK /\ FileAgrees

\* get_state lists a port once and depends on the map alone.
LEMMA StateFacts ==
  ASSUME TypeOK
  PROVE  /\ State \subseteq PortRules /\ State # NoFile
         /\ \A r, q \in State : r.port = q.port => r = q
         /\ protected' = protected => State' = State
         /\ protected = Nothing => State = {}
<1>1. State \subseteq PortRules
  BY DEF State, Held, TypeOK, Entries, PortRules
<1>2. State # NoFile
  BY <1>1, ConstantsAssumption
<1>3. \A r, q \in State : r.port = q.port => r = q
  BY DEF State
<1>4. protected' = protected => State' = State
  BY DEF State, Held
<1>5. protected = Nothing => State = {}
  BY DEF State, Held, Nothing
<1>. QED
  BY <1>1, <1>2, <1>3, <1>4, <1>5

\* What a list holds is its head and what its tail holds.
LEMMA RulesOfTail ==
  ASSUME NEW q \in Seq(PortRules), q # <<>>
  PROVE  /\ Head(q) \in PortRules
         /\ {q[i] : i \in 1..Len(q)} = {Head(q)} \cup {Tail(q)[i] : i \in 1..Len(Tail(q))}
<1>1. Len(q) >= 1 /\ Len(Tail(q)) = Len(q) - 1 /\ Head(q) = q[1] /\ Head(q) \in PortRules
      /\ \A i \in 1..(Len(q) - 1) : Tail(q)[i] = q[i + 1]
  OBVIOUS
<1>2. \A i \in 1..Len(q) : i = 1 \/ (i - 1 \in 1..(Len(q) - 1) /\ q[i] = Tail(q)[i - 1])
  BY <1>1
<1>3. {q[i] : i \in 1..Len(q)} \subseteq {Head(q)} \cup {Tail(q)[i] : i \in 1..Len(Tail(q))}
  BY <1>1, <1>2
<1>4. {Head(q)} \cup {Tail(q)[i] : i \in 1..Len(Tail(q))} \subseteq {q[i] : i \in 1..Len(q)}
  BY <1>1
<1>. QED
  BY <1>1, <1>3, <1>4

\* A step again, with what the two syncs and the plain start begin from.
LEMMA FileCases ==
  ASSUME TypeOK, [Next]_vars
  PROVE  \/ \E desired \in Seq(PortRules) : pc = "idle" /\ Begin(desired, FALSE)
         \/ \E desired \in Seq(PortRules) :
              /\ pc = "down" /\ file # NoFile /\ file # Torn
              /\ {desired[i] : i \in 1..Len(desired)} = file
              /\ Begin(desired, TRUE)
         \/ /\ pc = "down" /\ pc' = "idle"
            /\ UNCHANGED <<kernel, nextHandle, protected, file, work, history>>
         \/ Sync \/ Cut \/ Stop \/ CtrlC \/ Reboot
         \/ UNCHANGED vars
<1>1. CASE ReceivePolicy
  BY <1>1, ConstantsAssumption DEF ReceivePolicy
<1>2. CASE Start /\ file \notin {NoFile, {}}
  <2>1. /\ pc = "down" /\ file \notin {NoFile, Torn, {}}
        /\ \E n \in 0..MaxHandle : \E saved \in [1..n -> file] :
              {saved[i] : i \in 1..n} = file /\ Begin(saved, TRUE)
    BY <1>2 DEF Start
  <2>2. PICK n \in 0..MaxHandle : \E saved \in [1..n -> file] :
              {saved[i] : i \in 1..n} = file /\ Begin(saved, TRUE)
    BY <2>1
  <2>. PICK saved \in [1..n -> file] : {saved[i] : i \in 1..n} = file /\ Begin(saved, TRUE)
    BY <2>2
  <2>3. n \in Nat /\ Len(saved) = n
    BY ConstantsAssumption
  <2>4. file \subseteq PortRules
    BY <2>1 DEF TypeOK
  <2>5. saved \in Seq(PortRules)
    BY <2>3, <2>4
  <2>. QED
    BY <2>1, <2>3, <2>5
<1>3. CASE Start /\ file \in {NoFile, {}}
  BY <1>3 DEF Start
<1>4. CASE StartUnrestored
  BY <1>4 DEF StartUnrestored
<1>. QED
  BY <1>1, <1>2, <1>3, <1>4 DEF Next

\* The ports at the head of the queue: one that the map holds is in the file as
\* the queue has it, one that protect_port has finished joins the file's list.
LEMMA StateAdd ==
  ASSUME TypeOK, HandlesOK, AddRule, Len(handles) = 2
  PROVE  State' = State \cup {Head(queue)}
<1>1. queue # <<>> /\ protected[Head(queue).port] = NoEntry /\ nextHandle <= MaxHandle
  BY DEF HandlesOK, AddRule, NftAdd
<1>2. Head(queue) \in PortRules /\ Head(queue).port \in Ports
  BY <1>1, PortsOfTail DEF TypeOK
<1>3. Append(handles, nextHandle) \in Seq(1..MaxHandle)
  BY <1>1, NewRuleType DEF AddRule
<1>. DEFINE e == [protocol |-> Head(queue).protocol, handles |-> Append(handles, nextHandle)]
<1>4. e \in Entries /\ e # NoEntry
  <2>1. e \in Entries
    BY <1>2, <1>3 DEF Entries, PortRules
  <2>. QED
    BY <2>1, ConstantsAssumption
<1>5. protected' = [protected EXCEPT ![Head(queue).port] = e]
  BY DEF AddRule
<1>. HIDE DEF e
<1>6. \A p \in Ports : protected'[p] = IF p = Head(queue).port THEN e ELSE protected[p]
  BY <1>2, <1>5 DEF TypeOK
<1>7. e.protocol = Head(queue).protocol
  BY DEF e
<1>8. Head(queue) = [port |-> Head(queue).port, protocol |-> e.protocol]
  BY <1>2, <1>7 DEF PortRules
<1>9. State' \subseteq State \cup {Head(queue)}
  BY <1>6, <1>8 DEF State, Held
<1>10. ASSUME NEW r \in State PROVE r \in State'
  <2>1. PICK p \in Held : r = [port |-> p, protocol |-> protected[p].protocol]
    BY DEF State
  <2>2. p \in Held' /\ protected'[p] = protected[p]
    BY <1>1, <1>6 DEF Held
  <2>. QED
    BY <2>1, <2>2 DEF State
<1>11. Head(queue) \in State'
  <2>1. Head(queue).port \in Held'
    BY <1>2, <1>4, <1>6 DEF Held
  <2>2. protected'[Head(queue).port].protocol = e.protocol
    BY <1>2, <1>6
  <2>. QED
    BY <1>8, <2>1, <2>2 DEF State
<1>. QED
  BY <1>9, <1>10, <1>11

\* A step of the sync keeps the file in agreement with the map.
LEMMA FileSync == TypeOK /\ HandlesOK /\ StaleOK /\ FileInv /\ Sync => FileInv'
<1>. SUFFICES ASSUME TypeOK, HandlesOK, StaleOK, FileInv, Sync PROVE FileInv'
  OBVIOUS
<1>. USE StateFacts
<1>1. ASSUME NEW p \in Ports, RemoveStale(p) PROVE FileInv'
  <2>1. ~(settled /\ restoring)
    BY <1>1 DEF RemoveStale, FileInv, RestoreOK
  <2>2. /\ pc' = "delete" /\ UNCHANGED <<file, restoring, settled>>
    BY <1>1 DEF RemoveStale, history
  <2>. QED
    BY <2>1, <2>2 DEF FileInv, FileSingle, RestoreOK, DownOK, FileAgrees
<1>2. CASE StaleDone \/ Protect
  <2>1. /\ pc \in {"remove", "add"} /\ pc' \in {"add", "rule"}
        /\ UNCHANGED <<file, restoring, settled, stale, queue, protected>>
    BY <1>2 DEF StaleDone, Protect, history, work
  <2>2. State' = State
    BY <2>1
  <2>. QED
    BY <2>1, <2>2 DEF FileInv, FileSingle, RestoreOK, DownOK, FileAgrees
<1>3. CASE SkipHeld
  <2>1. /\ pc = "add" /\ queue # <<>> /\ queue' = Tail(queue)
        /\ protected[Head(queue).port] # NoEntry
        /\ UNCHANGED <<pc, file, restoring, settled, stale, protected>>
    BY <1>3 DEF SkipHeld, history
  <2>2. State' = State
    BY <2>1
  <2>3. ASSUME settled, restoring PROVE Head(queue) \in State
    <3>1. Head(queue) \in PortRules /\ Head(queue).port \in Ports
      BY <2>1, PortsOfTail DEF TypeOK
    <3>. DEFINE r == [port |-> Head(queue).port,
                      protocol |-> protected[Head(queue).port].protocol]
    <3>2. r \in State
      BY <2>1, <3>1 DEF State, Held
    <3>3. r \in file /\ Head(queue) \in file
      BY <2>1, <2>3, <3>2, RulesOfTail DEF FileInv, RestoreOK, TypeOK
    <3>4. r = Head(queue)
      BY <2>3, <3>3 DEF FileInv, FileSingle, RestoreOK
    <3>. QED
      BY <3>2, <3>4
  <2>4. ASSUME settled, restoring
        PROVE State \cup {Tail(queue)[i] : i \in 1..Len(Tail(queue))} = file
    BY <2>1, <2>3, <2>4, RulesOfTail DEF FileInv, RestoreOK, TypeOK
  <2>. QED
    BY <2>1, <2>2, <2>4 DEF FileInv, FileSingle, RestoreOK, DownOK, FileAgrees
<1>4. CASE AddRule /\ Len(handles) # 2
  <2>1. pc = "rule" /\ UNCHANGED <<pc, file, restoring, settled, stale, queue, protected>>
    BY <1>4 DEF AddRule, history
  <2>2. State' = State
    BY <2>1
  <2>. QED
    BY <2>1, <2>2 DEF FileInv, FileSingle, RestoreOK, DownOK, FileAgrees
<1>5. CASE AddRule /\ Len(handles) = 2
  <2>1. /\ pc = "rule" /\ pc' = "add" /\ queue' = Tail(queue) /\ queue # <<>>
        /\ UNCHANGED <<file, restoring, settled, stale>>
    BY <1>5 DEF AddRule, history, HandlesOK
  <2>2. State' = State \cup {Head(queue)}
    BY <1>5, StateAdd
  <2>3. ASSUME settled, restoring
        PROVE State' \cup {Tail(queue)[i] : i \in 1..Len(Tail(queue))} = file
    BY <2>1, <2>2, <2>3, RulesOfTail DEF FileInv, RestoreOK, TypeOK
  <2>. QED
    BY <2>1, <2>3 DEF FileInv, FileSingle, RestoreOK, DownOK, FileAgrees
<1>6. CASE AddFails \/ DeleteFails
  <2>1. settled' = FALSE /\ pc' = "delete" /\ UNCHANGED file
    BY <1>6 DEF AddFails, DeleteFails, Fault
  <2>. QED
    BY <2>1 DEF FileInv, FileSingle, RestoreOK, DownOK, FileAgrees
<1>7. CASE DeleteRule \/ DeleteDone
  <2>1. /\ pc = "delete" /\ pc' \in {"delete", "remove", "add"}
        /\ UNCHANGED <<file, restoring, settled>>
    BY <1>7 DEF DeleteRule, DeleteDone, history, work, TypeOK
  <2>2. ~(settled /\ restoring)
    BY <2>1 DEF FileInv, RestoreOK
  <2>. QED
    BY <2>1, <2>2 DEF FileInv, FileSingle, RestoreOK, DownOK, FileAgrees
<1>8. CASE SyncDone
  <2>1. /\ pc = "add" /\ queue = <<>> /\ restoring' = FALSE
        /\ pc' = IF restoring THEN "idle" ELSE "save"
        /\ UNCHANGED <<file, settled, protected>>
    BY <1>8 DEF SyncDone, Forget, history
  <2>2. {queue[i] : i \in 1..Len(queue)} = {} /\ State' = State
    BY <2>1
  <2>. QED
    BY <2>1, <2>2 DEF FileInv, FileSingle, RestoreOK, DownOK, FileAgrees
<1>9. CASE SaveState
  <2>1. pc = "save" /\ pc' = "idle" /\ file' = State /\ UNCHANGED <<protected, restoring, settled>>
    BY <1>9 DEF SaveState, work, history
  <2>2. State' = State
    BY <2>1
  <2>3. ~(settled /\ restoring)
    BY <2>1 DEF FileInv, RestoreOK
  <2>. QED
    BY <2>1, <2>2, <2>3 DEF FileInv, FileSingle, RestoreOK, DownOK, FileAgrees
<1>10. CASE SaveFails
  <2>1. settled' = FALSE /\ pc' = "idle" /\ file' \in {file, Torn}
    BY <1>10 DEF SaveFails, Fault
  <2>. QED
    BY <2>1 DEF FileInv, FileSingle, RestoreOK, DownOK, FileAgrees
<1>. QED
  BY <1>1, <1>2, <1>3, <1>4, <1>5, <1>6, <1>7, <1>8, <1>9, <1>10 DEF Sync

\* So does every other step.
LEMMA FileStep == TypeOK /\ HandlesOK /\ StaleOK /\ FileInv /\ [Next]_vars => FileInv'
<1>. SUFFICES ASSUME TypeOK, HandlesOK, StaleOK, FileInv, [Next]_vars PROVE FileInv'
  OBVIOUS
<1>1. ASSUME NEW desired \in Seq(PortRules), Begin(desired, FALSE) PROVE FileInv'
  <2>1. restoring' = FALSE /\ pc' = "remove" /\ UNCHANGED file
    BY <1>1 DEF Begin
  <2>. QED
    BY <2>1 DEF FileInv, FileSingle, RestoreOK, DownOK, FileAgrees
<1>2. ASSUME NEW desired \in Seq(PortRules), pc = "down", file # NoFile, file # Torn,
             {desired[i] : i \in 1..Len(desired)} = file, Begin(desired, TRUE)
      PROVE FileInv'
  <2>1. /\ queue' = desired /\ pc' = "remove" /\ stale' = StalePorts(desired)
        /\ UNCHANGED <<file, protected>>
    BY <1>2 DEF Begin
  <2>2. protected = Nothing
    BY <1>2 DEF FileInv, DownOK
  <2>3. State' = {} /\ stale' = {}
    BY <2>1, <2>2 DEF State, StalePorts, Held, Nothing
  <2>. QED
    BY <1>2, <2>1, <2>3 DEF FileInv, FileSingle, RestoreOK, DownOK, FileAgrees
<1>3. CASE /\ pc = "down" /\ pc' = "idle"
           /\ UNCHANGED <<kernel, nextHandle, protected, file, work, history>>
  <2>1. UNCHANGED <<protected, file, restoring, settled>>
    BY <1>3 DEF work, history
  <2>2. protected = Nothing /\ (settled => file = NoFile) /\ State = {} /\ State' = State
    BY <1>3, <2>1, StateFacts DEF FileInv, DownOK
  <2>3. ~(settled /\ restoring)
    BY <1>3 DEF FileInv, RestoreOK
  <2>. QED
    BY <1>3, <2>1, <2>2, <2>3 DEF FileInv, FileSingle, RestoreOK, DownOK, FileAgrees
<1>4. CASE Cut \/ Stop \/ CtrlC \/ Reboot
  <2>1. /\ settled' = FALSE /\ file' \in {file, Torn}
        /\ pc' = "down" => protected' = Nothing
    BY <1>4 DEF Cut, Stop, CtrlC, Reboot, Fault
  <2>. QED
    BY <2>1 DEF FileInv, FileSingle, RestoreOK, DownOK, FileAgrees
<1>5. CASE UNCHANGED vars
  <2>1. UNCHANGED <<protected, file, restoring, settled, pc, stale, queue>>
    BY <1>5 DEF vars, work, history
  <2>2. State' = State
    BY <2>1, StateFacts
  <2>. QED
    BY <2>1, <2>2 DEF FileInv, FileSingle, RestoreOK, DownOK, FileAgrees
<1>. QED
  BY FileCases, FileSync, <1>1, <1>2, <1>3, <1>4, <1>5

\* After every sync that ends without an error, and after every restart that
\* restores the file, firewall_state.json lists exactly the map of the enforcer.
THEOREM FileAgreesTheorem == Spec => []FileAgrees
<1>1. Init => FileInv
  <2>. SUFFICES ASSUME Init PROVE FileInv
    OBVIOUS
  <2>1. pc = "down" /\ file = NoFile /\ protected = Nothing /\ restoring = FALSE
    BY DEF Init
  <2>. QED
    BY <2>1 DEF FileInv, FileSingle, RestoreOK, DownOK, FileAgrees
<1>2. IInv /\ FileInv /\ [Next]_vars => FileInv'
  BY FileStep DEF IInv
<1>3. FileInv => FileAgrees
  BY DEF FileInv
<1>. QED
  BY <1>1, <1>2, <1>3, Invariance, PTL DEF Spec


-----------------------------------------------------------------------------
(* What the agent's own steps do to the feed.                              *)

\* A stream ends, whatever the enforcer does.
HangupStep == Hangup /\ halts' \in 0..MaxHalts

\* The enforcer goes on while the feed stands still.
LocalStep ==
  /\ UNCHANGED <<stream, feed, halts>>
  /\ conn # 0 => /\ pc' = "down" => pc = "down"
                 /\ restoring' => restoring
                 /\ wanted' = wanted
                 /\ settled' => settled

\* The steps of the specification, as far as the feed is concerned.
LEMMA FeedCases ==
  ASSUME FeedInv, TypeOK, [FeedNext]_feedVars
  PROVE  \/ \E policy \in Policies : Store(policy)
         \/ Broadcast
         \/ \E d \in Dials : SendFirst(d) \/ Recv(d) \/ Lagged(d) \/ TaskEnds(d) \/ Heartbeat(d)
         \/ Dial \/ Deliver \/ HangupStep \/ LocalStep
<1>1. CASE StreamLost
  BY <1>1 DEF StreamLost, HangupStep, FeedInv, FeedTypeOK
<1>2. CASE Renewed
  BY <1>2 DEF Renewed, HangupStep, FeedInv, FeedTypeOK
<1>3. CASE Killed
  BY <1>3 DEF Killed, HangupStep, FeedInv, FeedTypeOK
<1>4. CASE Halted
  BY <1>4, FeedAssumption DEF Halted, HangupStep, FeedInv, FeedTypeOK
<1>5. CASE Enforce
  <2>1. pc' # "down"
    BY <1>5 DEF Enforce, RemoveStale, StaleDone, SkipHeld, Protect, AddRule, DeleteRule,
                DeleteDone, SyncDone, SaveState, TypeOK, work
  <2>2. restoring' => restoring
    BY <1>5 DEF Enforce, RemoveStale, StaleDone, SkipHeld, Protect, AddRule, DeleteRule,
                DeleteDone, SyncDone, SaveState, Forget, work
  <2>3. UNCHANGED history
    BY <1>5 DEF Enforce, RemoveStale, StaleDone, SkipHeld, Protect, AddRule, DeleteRule,
                DeleteDone, SyncDone, SaveState
  <2>. QED
    BY <1>5, <2>1, <2>2, <2>3 DEF Enforce, LocalStep, history
<1>6. CASE CommandFails
  <2>1. pc' # "down" /\ restoring' = restoring
    BY <1>6 DEF CommandFails, AddFails, DeleteFails, SaveFails, TypeOK, work
  <2>2. UNCHANGED wanted /\ settled' = FALSE
    BY <1>6 DEF CommandFails, AddFails, DeleteFails, SaveFails, Fault
  <2>. QED
    BY <1>6, <2>1, <2>2 DEF CommandFails, LocalStep
<1>7. CASE Boot
  BY <1>7 DEF Boot, Start, StartUnrestored, LocalStep, FeedInv, AgentOK
<1>8. CASE UNCHANGED feedVars
  BY <1>8 DEF feedVars, LocalStep, stream, feed, vars, work, history
<1>. QED
  BY <1>1, <1>2, <1>3, <1>4, <1>5, <1>6, <1>7, <1>8 DEF FeedNext, TaskSteps

-----------------------------------------------------------------------------
(* Each action keeps the invariant.                                        *)

\* What Append and Tail do to a sequence of numbers.
LEMMA WireFacts ==
  ASSUME NEW n \in Nat, NEW s \in Seq(1..n)
  PROVE  /\ Len(s) \in Nat /\ \A i \in 1..Len(s) : s[i] \in 1..n
         /\ \A x \in 1..n : /\ Append(s, x) \in Seq(1..n) /\ Append(s, x) # <<>>
                            /\ Len(Append(s, x)) = Len(s) + 1 /\ Append(s, x)[Len(s) + 1] = x
                            /\ \A i \in 1..Len(s) : Append(s, x)[i] = s[i]
         /\ s # <<>> => /\ Head(s) = s[1] /\ Len(s) >= 1 /\ Tail(s) \in Seq(1..n)
                        /\ Len(Tail(s)) = Len(s) - 1
                        /\ \A i \in 1..Len(Tail(s)) : Tail(s)[i] = s[i + 1]
                        /\ Tail(s) = <<>> <=> Len(s) = 1
<1>1. Len(s) \in Nat /\ \A i \in 1..Len(s) : s[i] \in 1..n
  OBVIOUS
<1>2. ASSUME NEW x \in 1..n
      PROVE  /\ Append(s, x) \in Seq(1..n) /\ Append(s, x) # <<>>
             /\ Len(Append(s, x)) = Len(s) + 1 /\ Append(s, x)[Len(s) + 1] = x
             /\ \A i \in 1..Len(s) : Append(s, x)[i] = s[i]
  BY AppendProperties
<1>3. ASSUME s # <<>>
      PROVE  /\ Head(s) = s[1] /\ Len(s) >= 1 /\ Tail(s) \in Seq(1..n)
             /\ Len(Tail(s)) = Len(s) - 1
             /\ \A i \in 1..Len(Tail(s)) : Tail(s)[i] = s[i + 1]
             /\ Tail(s) = <<>> <=> Len(s) = 1
  <2>1. Head(s) = s[1] /\ Len(s) >= 1 /\ Tail(s) \in Seq(1..n) /\ Len(Tail(s)) = Len(s) - 1
    BY <1>3, HeadTailProperties
  <2>2. \A i \in 1..Len(Tail(s)) : Tail(s)[i] = s[i + 1]
    BY <1>3, <2>1
  <2>3. Tail(s) = <<>> <=> Len(Tail(s)) = 0
    BY <2>1, EmptySeq
  <2>. QED
    <3>1. Len(s) \in Nat /\ (Len(Tail(s)) = 0 <=> Len(s) = 1)
      BY <1>1, <2>1
    <3>. QED
      BY <2>1, <2>2, <2>3, <3>1
<1>. QED
  BY <1>1, <1>2, <1>3

\* A sequence of numbers stays one when more numbers are allowed.
LEMMA WireWider ==
  ASSUME NEW n \in Nat, NEW s \in Seq(1..n)
  PROVE  s \in Seq(1..(n + 1))
  OBVIOUS

\* The next message of a task, after one it received and after some it lost.
LEMMA NextFacts ==
  ASSUME NEW last \in Nat, NEW next \in Nat, next <= last, NEW max \in Nat, last <= max,
         NEW size \in Nat \ {0}
  PROVE  /\ next + 1 \in 0..(max + 1) /\ next + 1 <= last + 1
         /\ last - next + 1 > size =>
              /\ last - size + 1 \in 0..(max + 1) /\ last - size + 1 > next
              /\ last - size + 1 <= last
  OBVIOUS

\* A policy is stored.
LEMMA StoreKeeps ==
  ASSUME FeedInv, NEW policy \in Policies, Store(policy)
  PROVE  FeedInv'
<1>1. stored' \in Seq(Policies) /\ Len(stored') = Len(stored) + 1 /\ Len(stored) \in Nat
      /\ \A i \in 1..Len(stored) : stored'[i] = stored[i]
  BY DEF Store, FeedInv, FeedTypeOK
<1>2. UNCHANGED <<vars, conn, dialled, wire, taken, floor, sent, task, registry, halts>>
  BY DEF Store, stream
<1>3. wire' \in Seq(1..Len(stored'))
  BY <1>1, <1>2, WireWider DEF FeedInv, FeedTypeOK
<1>4. FeedTypeOK'
  <2>1. Len(stored') <= MaxStores
    BY <1>1, FeedAssumption DEF Store, FeedInv, FeedTypeOK
  <2>2. sent' \in 0..Len(stored') /\ taken' \in 0..Len(stored') /\ floor' \in 0..Len(stored')
    BY <1>1, <1>2 DEF FeedInv, FeedTypeOK
  <2>. QED
    BY <1>1, <1>2, <1>3, <2>1, <2>2 DEF FeedInv, FeedTypeOK
<1>5. LinkOK'
  BY <1>1, <1>2 DEF Store, FeedInv, LinkOK, Sends
<1>6. AgentOK'
  BY <1>2 DEF FeedInv, AgentOK, vars, work
<1>7. OwedOK'
  BY <1>1, <1>2 DEF Store, FeedInv, FeedTypeOK, OwedOK
<1>8. WantedOK'
  BY <1>1, <1>2 DEF FeedInv, FeedTypeOK, WantedOK, vars, history
<1>. QED
  BY <1>4, <1>5, <1>6, <1>7, <1>8 DEF FeedInv

\* It is sent on the channel.
LEMMA BroadcastKeeps ==
  ASSUME FeedInv, Broadcast
  PROVE  FeedInv'
<1>2. UNCHANGED <<vars, conn, dialled, wire, taken, floor, stored, task, registry, halts>>
      /\ sent' = Len(stored) /\ sent < Len(stored) /\ Len(stored) \in Nat
  BY DEF Broadcast, stream, FeedInv, FeedTypeOK
<1>4. FeedTypeOK'
  BY <1>2 DEF FeedInv, FeedTypeOK
<1>5. LinkOK'
  BY <1>2 DEF FeedInv, FeedTypeOK, Tasks, LinkOK, Sends
<1>6. AgentOK'
  BY <1>2 DEF FeedInv, AgentOK, vars, work
<1>7. OwedOK'
  <2>. SUFFICES ASSUME conn # 0 PROVE task[conn].pc = "first" \/ task[conn].next <= sent'
    BY <1>2 DEF OwedOK
  <2>1. conn \in Dials /\ Sends(conn)
    BY DEF FeedInv, FeedTypeOK, LinkOK, Dials
  <2>2. task[conn].next <= sent + 1 /\ task[conn].next \in Nat
    BY <2>1, FeedAssumption DEF FeedInv, FeedTypeOK, Tasks, LinkOK
  <2>. QED
    BY <1>2, <2>2 DEF FeedInv, FeedTypeOK
<1>8. WantedOK'
  BY <1>2 DEF FeedInv, WantedOK, vars, history
<1>. QED
  BY <1>4, <1>5, <1>6, <1>7, <1>8 DEF FeedInv

\* A task sends the stored policy, the next one of the channel, or learns that
\* it lags.
LEMMA TaskKeeps ==
  ASSUME FeedInv, NEW d \in Dials, SendFirst(d) \/ Recv(d) \/ Lagged(d)
  PROVE  FeedInv'
<1>1. UNCHANGED <<vars, conn, dialled, taken, floor, stored, sent, registry, halts>>
  BY DEF SendFirst, Recv, Lagged, stream
<1>2. d = conn /\ Sends(d) /\ conn # 0 /\ task[d].next \in Nat /\ task[d].next >= 1
      /\ task[d].next >= floor /\ task[d].next <= sent + 1
  BY FeedAssumption DEF SendFirst, Recv, Lagged, Sends, FeedInv, FeedTypeOK, LinkOK, Tasks, Dials
<1>3. /\ Len(stored) \in Nat /\ sent \in Nat /\ sent <= Len(stored) /\ Len(stored) <= MaxStores
      /\ floor \in Nat /\ floor <= Len(stored) /\ wire \in Seq(1..Len(stored))
      /\ sent >= Len(stored) - 1 /\ sent <= MaxStores
  BY FeedAssumption DEF FeedInv, FeedTypeOK, LinkOK
<1>4. /\ task' \in [Dials -> Tasks] /\ task'[d].pc = "loop"
      /\ \A e \in Dials \ {d} : task'[e] = task[e]
      /\ task'[d].next \in Nat /\ task'[d].next >= task[d].next /\ task'[d].next <= sent + 1
      /\ task[d].pc = "first" \/ task[d].next <= sent
  <2>1. CASE SendFirst(d)
    <3>1. task \in [Dials -> Tasks] /\ task[d] \in Tasks /\ task[d].pc = "first"
      BY <2>1 DEF SendFirst, FeedInv, FeedTypeOK
    <3>2. task' = [task EXCEPT ![d] = [task[d] EXCEPT !.pc = "loop"]]
      BY <2>1 DEF SendFirst
    <3>3. /\ [task[d] EXCEPT !.pc = "loop"] \in Tasks /\ [task[d] EXCEPT !.pc = "loop"].pc = "loop"
          /\ [task[d] EXCEPT !.pc = "loop"].next = task[d].next
      BY <3>1 DEF Tasks
    <3>4. task' \in [Dials -> Tasks] /\ task'[d] = [task[d] EXCEPT !.pc = "loop"]
          /\ \A e \in Dials \ {d} : task'[e] = task[e]
      BY <3>1, <3>2, <3>3
    <3>5. task'[d].pc = "loop" /\ task'[d].next = task[d].next
      BY <3>3, <3>4
    <3>. QED
      BY <1>2, <3>1, <3>4, <3>5
  <2>2. CASE Recv(d)
    <3>1. task[d] \in Tasks /\ task[d].next + 1 \in 0..(MaxStores + 1)
      <4>1. task[d].next <= sent
        BY <2>2 DEF Recv
      <4>2. task[d].next + 1 \in 0..(MaxStores + 1)
        BY <1>2, <1>3, <4>1, NextFacts, FeedAssumption
      <4>. QED
        BY <4>2 DEF FeedInv, FeedTypeOK
    <3>2. task' = [task EXCEPT ![d] = [task[d] EXCEPT !.next = task[d].next + 1]]
      BY <2>2 DEF Recv
    <3>3. [task[d] EXCEPT !.next = task[d].next + 1] \in Tasks
      BY <3>1 DEF Tasks
    <3>4. task' \in [Dials -> Tasks] /\ task'[d] = [task[d] EXCEPT !.next = task[d].next + 1]
          /\ \A e \in Dials \ {d} : task'[e] = task[e]
      BY <3>2, <3>3 DEF FeedInv, FeedTypeOK
    <3>5. task'[d].next = task[d].next + 1 /\ task'[d].pc = task[d].pc
      BY <3>1, <3>4 DEF Tasks
    <3>. QED
      BY <1>2, <1>3, <2>2, <3>4, <3>5 DEF Recv
  <2>3. CASE Lagged(d)
    <3> DEFINE n == sent - Capacity + 1
               t == [task[d] EXCEPT !.next = n, !.deaf = TRUE]
    <3>1. n \in 0..(MaxStores + 1) /\ n > task[d].next /\ n <= sent
      <4>1. task[d].next <= sent /\ sent - task[d].next + 1 > Capacity
        BY <2>3 DEF Lagged, Lost
      <4>. QED
        BY <1>2, <1>3, <4>1, NextFacts, FeedAssumption
    <3>2. task' = [task EXCEPT ![d] = t] /\ task[d] \in Tasks
      BY <2>3 DEF Lagged, FeedInv, FeedTypeOK
    <3>3. t \in Tasks /\ t.next = n /\ t.pc = task[d].pc
      <4>. HIDE DEF n
      <4>. QED
        BY <3>1, <3>2 DEF Tasks
    <3>4. task' \in [Dials -> Tasks] /\ task'[d] = t /\ \A e \in Dials \ {d} : task'[e] = task[e]
      BY <3>2, <3>3 DEF FeedInv, FeedTypeOK
    <3>. QED
      BY <1>2, <1>3, <2>3, <3>1, <3>3, <3>4 DEF Lagged
  <2>. QED
    BY <2>1, <2>2, <2>3
<1>5. \/ wire' = wire /\ (stored = <<>> \/ task'[d].next <= sent)
      \/ \E x \in 1..Len(stored) :
           /\ wire' = Append(wire, x) /\ x >= floor
           /\ x = Len(stored) \/ task'[d].next <= sent \/ sent < Len(stored)
  <2>1. CASE SendFirst(d)
    <3>1. CASE stored = <<>>
      BY <2>1, <3>1 DEF SendFirst
    <3>2. CASE stored # <<>>
      <4>1. Len(stored) \in 1..Len(stored)
        BY <1>3, <3>2 DEF FeedInv, FeedTypeOK
      <4>. QED
        BY <1>3, <2>1, <3>2, <4>1 DEF SendFirst
    <3>. QED
      BY <3>1, <3>2
  <2>2. CASE Recv(d)
    <3>1. task[d].next \in 1..Len(stored)
      BY <1>2, <1>3, <2>2 DEF Recv
    <3>2. task'[d].next = task[d].next + 1
      BY <2>2 DEF Recv, FeedInv, FeedTypeOK, Tasks
    <3>3. task[d].next = Len(stored) \/ task'[d].next <= sent \/ sent < Len(stored)
      BY <1>2, <1>3, <2>2, <3>2 DEF Recv
    <3>. QED
      BY <1>2, <2>2, <3>1, <3>3 DEF Recv
  <2>3. CASE Lagged(d)
    <3>1. task' = [task EXCEPT ![d] = [task[d] EXCEPT !.next = sent - Capacity + 1, !.deaf = TRUE]]
          /\ wire' = wire
      BY <2>3 DEF Lagged, stream
    <3>2. task[d] \in Tasks /\ d \in DOMAIN task
      BY DEF FeedInv, FeedTypeOK
    <3>3. task'[d] = [task[d] EXCEPT !.next = sent - Capacity + 1, !.deaf = TRUE]
      BY <3>1, <3>2
    <3>4. task'[d].next = sent - Capacity + 1
      BY <3>2, <3>3 DEF Tasks
    <3>. QED
      BY <1>3, <3>1, <3>4, FeedAssumption
  <2>. QED
    BY <2>1, <2>2, <2>3
<1>6. FeedTypeOK'
  <2>1. wire' \in Seq(1..Len(stored))
    <3>1. CASE wire' = wire
      BY <1>3, <3>1
    <3>2. ASSUME NEW x \in 1..Len(stored), wire' = Append(wire, x)
          PROVE  wire' \in Seq(1..Len(stored))
      BY <1>3, <3>2, WireFacts
    <3>. QED
      BY <1>5, <3>1, <3>2
  <2>. QED
    BY <1>1, <1>4, <2>1 DEF FeedInv, FeedTypeOK
<1>7. LinkOK'
  <2>1. \A i \in 1..Len(wire') : wire'[i] >= floor
    <3>1. CASE wire' = wire
      BY <3>1 DEF FeedInv, LinkOK
    <3>2. ASSUME NEW x \in 1..Len(stored), wire' = Append(wire, x), x >= floor
          PROVE  \A i \in 1..Len(wire') : wire'[i] >= floor
      <4>1. /\ Len(wire) \in Nat /\ Len(wire') = Len(wire) + 1 /\ wire'[Len(wire) + 1] = x
            /\ \A i \in 1..Len(wire) : wire'[i] = wire[i]
        BY <1>3, <3>2, WireFacts
      <4>. QED
        BY <3>2, <4>1 DEF FeedInv, LinkOK
    <3>. QED
      BY <1>5, <3>1, <3>2
  <2>2. \A e \in Dials : Sends(e)' =>
          e = conn /\ task'[e].next >= 1 /\ task'[e].next >= floor /\ task'[e].next <= sent + 1
    BY <1>2, <1>3, <1>4 DEF FeedInv, LinkOK, Sends
  <2>3. Sends(conn)'
    BY <1>1, <1>2, <1>4 DEF Sends
  <2>. QED
    BY <1>1, <1>2, <2>1, <2>2, <2>3 DEF FeedInv, LinkOK
<1>8. AgentOK'
  BY <1>1 DEF FeedInv, AgentOK, vars, work
<1>9. OwedOK'
  <2>1. CASE wire' = wire /\ stored = <<>>
    <3>1. Len(stored) = 0 /\ wire = <<>> /\ taken = 0
      BY <2>1, <1>3 DEF FeedInv, FeedTypeOK
    <3>. QED
      BY <1>1, <2>1, <3>1 DEF OwedOK, Last
  <2>2. CASE task'[d].next <= sent
    BY <1>1, <1>2, <2>2 DEF OwedOK
  <2>3. ASSUME NEW x \in 1..Len(stored), wire' = Append(wire, x), x = Len(stored)
        PROVE  OwedOK'
    <3>1. Append(wire, x) # <<>> /\ Append(wire, x)[Len(wire) + 1] = x
          /\ Len(Append(wire, x)) = Len(wire) + 1
      <4>1. Len(stored) \in Nat /\ wire \in Seq(1..Len(stored))
        BY <1>3
      <4>. QED
        BY <4>1, AppendProperties
    <3>2. wire' # <<>> /\ wire'[Len(wire')] = x
      BY <2>3, <3>1, Zenon
    <3>. QED
      BY <1>1, <2>3, <3>2 DEF OwedOK, Last
  <2>4. CASE sent < Len(stored)
    BY <1>1, <2>4 DEF OwedOK
  <2>. QED
    BY <1>5, <2>1, <2>2, <2>3, <2>4
<1>10. WantedOK'
  BY <1>1 DEF FeedInv, WantedOK, vars, history
<1>. QED
  BY <1>6, <1>7, <1>8, <1>9, <1>10 DEF FeedInv

\* A heartbeat is read, or the task of an old stream ends.
LEMMA RegistryKeeps ==
  ASSUME FeedInv, NEW d \in Dials, Heartbeat(d) \/ TaskEnds(d)
  PROVE  FeedInv'
<1>1. UNCHANGED <<vars, conn, dialled, wire, taken, floor, stored, sent, halts>>
      /\ registry' \in BOOLEAN
  BY DEF Heartbeat, TaskEnds, stream
<1>2. /\ task' \in [Dials -> Tasks]
      /\ \A e \in Dials : task'[e].next = task[e].next /\ (Sends(e)' <=> Sends(e))
                          /\ (task[e].pc = "first" <=> task'[e].pc = "first")
  <2>1. task \in [Dials -> Tasks] /\ task[d] \in Tasks
    BY DEF FeedInv, FeedTypeOK
  <2>2. CASE Heartbeat(d)
    <3>1. task' = [task EXCEPT ![d] = [task[d] EXCEPT !.deaf = FALSE]]
      BY <2>2 DEF Heartbeat
    <3>2. [task[d] EXCEPT !.deaf = FALSE] \in Tasks
          /\ [task[d] EXCEPT !.deaf = FALSE].next = task[d].next
          /\ [task[d] EXCEPT !.deaf = FALSE].pc = task[d].pc
      BY <2>1 DEF Tasks
    <3>. QED
      BY <2>1, <3>1, <3>2 DEF Sends
  <2>3. CASE TaskEnds(d)
    <3>1. task' = [task EXCEPT ![d] = [task[d] EXCEPT !.pc = "done"]] /\ task[d].pc = "left"
      BY <2>3 DEF TaskEnds
    <3>2. [task[d] EXCEPT !.pc = "done"] \in Tasks
          /\ [task[d] EXCEPT !.pc = "done"].next = task[d].next
          /\ [task[d] EXCEPT !.pc = "done"].pc = "done"
      BY <2>1 DEF Tasks
    <3>. QED
      BY <2>1, <3>1, <3>2 DEF Sends
  <2>. QED
    BY <2>2, <2>3
<1>3. FeedTypeOK'
  BY <1>1, <1>2 DEF FeedInv, FeedTypeOK
<1>4. conn # 0 => conn \in Dials
  BY FeedAssumption DEF FeedInv, FeedTypeOK, Dials
<1>5. LinkOK'
  BY <1>1, <1>2, <1>4 DEF FeedInv, LinkOK
<1>6. AgentOK'
  BY <1>1 DEF FeedInv, AgentOK, vars, work
<1>7. OwedOK'
  BY <1>1, <1>2, <1>4 DEF FeedInv, OwedOK, Last
<1>8. WantedOK'
  BY <1>1 DEF FeedInv, WantedOK, vars, history
<1>. QED
  BY <1>3, <1>5, <1>6, <1>7, <1>8 DEF FeedInv

\* The agent opens a stream.
LEMMA DialKeeps ==
  ASSUME FeedInv, Dial
  PROVE  FeedInv'
<1> DEFINE t == [pc |-> "first", next |-> sent + 1, deaf |-> FALSE]
<1>1. UNCHANGED <<vars, wire, stored, sent, registry, halts>>
      /\ conn' = dialled + 1 /\ dialled' = dialled + 1 /\ taken' = 0 /\ floor' = Len(stored)
      /\ conn = 0 /\ dialled < MaxDials /\ wire = <<>>
      /\ task' = [task EXCEPT ![dialled + 1] = t]
  BY DEF Dial, Subscribed, FeedInv, LinkOK
<1>2. /\ Len(stored) \in Nat /\ sent \in Nat /\ sent <= Len(stored) /\ Len(stored) <= MaxStores
      /\ sent >= Len(stored) - 1 /\ dialled \in Nat /\ task \in [Dials -> Tasks]
      /\ dialled + 1 \in Dials /\ dialled + 1 \in 0..MaxDials
  BY <1>1, FeedAssumption DEF FeedInv, FeedTypeOK, LinkOK, Dials
<1>3. t \in Tasks /\ t.next = sent + 1 /\ t.pc = "first"
  BY <1>2, FeedAssumption DEF Tasks
<1>. HIDE DEF t
<1>4. task' \in [Dials -> Tasks] /\ task'[dialled + 1] = t
      /\ \A d \in Dials : d # dialled + 1 => task'[d] = task[d]
  BY <1>1, <1>2, <1>3
<1>5. FeedTypeOK'
  BY <1>1, <1>2, <1>4 DEF FeedInv, FeedTypeOK
<1>6. LinkOK'
  <2>1. \A d \in Dials : Sends(d)' =>
          d = conn' /\ task'[d].next >= 1 /\ task'[d].next >= floor' /\ task'[d].next <= sent' + 1
    <3>. SUFFICES ASSUME NEW d \in Dials, Sends(d)'
                  PROVE  d = conn' /\ task'[d].next >= 1 /\ task'[d].next >= floor'
                         /\ task'[d].next <= sent' + 1
      OBVIOUS
    <3>1. d = dialled + 1
      <4>1. \A e \in Dials : ~Sends(e)
        BY <1>1, FeedAssumption DEF FeedInv, LinkOK, Dials
      <4>. QED
        BY <1>4, <4>1 DEF Sends
    <3>. QED
      BY <1>1, <1>2, <1>3, <1>4, <3>1
  <2>2. Sends(conn)'
    BY <1>1, <1>3, <1>4 DEF Sends
  <2>3. \A i \in 1..Len(wire') : wire'[i] >= floor'
    BY <1>1
  <2>4. sent' >= Len(stored') - 1 /\ conn' <= dialled' /\ conn' # 0
    BY <1>1, <1>2
  <2>. QED
    BY <2>1, <2>2, <2>3, <2>4 DEF LinkOK
<1>7. AgentOK'
  BY <1>1 DEF Dial, AgentOK, vars, work
<1>8. OwedOK'
  BY <1>1, <1>3, <1>4 DEF OwedOK
<1>9. WantedOK'
  BY <1>1 DEF WantedOK
<1>. QED
  BY <1>5, <1>6, <1>7, <1>8, <1>9 DEF FeedInv

\* The enforcer begins with the next policy on the stream.
LEMMA DeliverKeeps ==
  ASSUME FeedInv, Deliver
  PROVE  FeedInv'
<1>1. UNCHANGED <<conn, dialled, floor, stored, sent, task, registry, halts>>
      /\ taken' = Head(wire) /\ wire' = Tail(wire) /\ conn # 0 /\ wire # <<>>
      /\ wanted' = stored[Head(wire)] /\ pc' = "remove" /\ restoring' = FALSE
  BY DEF Deliver, Begin, feed
<1>2. Len(stored) \in Nat /\ wire \in Seq(1..Len(stored))
  BY DEF FeedInv, FeedTypeOK
<1>3. /\ Len(wire) \in Nat /\ Head(wire) = wire[1] /\ Len(wire) >= 1 /\ wire[1] \in 1..Len(stored)
      /\ Tail(wire) \in Seq(1..Len(stored)) /\ Len(Tail(wire)) = Len(wire) - 1
      /\ \A i \in 1..Len(Tail(wire)) : Tail(wire)[i] = wire[i + 1]
      /\ Tail(wire) = <<>> <=> Len(wire) = 1
  BY <1>1, <1>2, WireFacts
<1>4. FeedTypeOK'
  <2>1. taken' \in 0..Len(stored) /\ wire' \in Seq(1..Len(stored))
    BY <1>1, <1>2, <1>3
  <2>. QED
    BY <1>1, <2>1 DEF FeedInv, FeedTypeOK
<1>5. LinkOK'
  <2>1. \A i \in 1..Len(wire') : wire'[i] >= floor'
    BY <1>1, <1>3 DEF FeedInv, LinkOK
  <2>. QED
    BY <1>1, <2>1 DEF FeedInv, LinkOK, Sends
<1>6. AgentOK'
  BY <1>1 DEF AgentOK
<1>7. OwedOK'
  <2>1. Last' = Last
    <3>1. CASE Len(wire) = 1
      BY <1>1, <1>3, <3>1 DEF Last
    <3>2. CASE Len(wire) > 1
      <4>1. Len(Tail(wire)) \in 1..Len(Tail(wire)) /\ Len(Tail(wire)) + 1 = Len(wire)
        BY <1>3, <3>2
      <4>. QED
        BY <1>1, <1>3, <3>2, <4>1 DEF Last
    <3>. QED
      BY <1>3, <3>1, <3>2
  <2>. QED
    BY <1>1, <2>1 DEF FeedInv, OwedOK
<1>8. WantedOK'
  BY <1>1 DEF WantedOK
<1>. QED
  BY <1>4, <1>5, <1>6, <1>7, <1>8 DEF FeedInv

\* The stream ends.
LEMMA HangupKeeps ==
  ASSUME FeedInv, HangupStep
  PROVE  FeedInv'
<1> DEFINE t == [pc |-> "left", next |-> 0, deaf |-> FALSE]
<1>1. UNCHANGED <<dialled, stored, sent, registry>> /\ halts' \in 0..MaxHalts
      /\ conn' = 0 /\ wire' = <<>> /\ taken' = 0 /\ floor' = Len(stored)
      /\ task' = [d \in Dials |-> IF d = conn THEN t ELSE task[d]]
  BY DEF HangupStep, Hangup
<1>2. t \in Tasks /\ t.pc = "left"
  <2>1. 0 \in 0..(MaxStores + 1)
    BY FeedAssumption
  <2>. QED
    BY <2>1 DEF Tasks
<1>3. Len(stored) \in Nat /\ dialled \in Nat
  BY FeedAssumption DEF FeedInv, FeedTypeOK
<1>. HIDE DEF t
<1>4. FeedTypeOK'
  <2>1. task' \in [Dials -> Tasks] /\ wire' \in Seq(1..Len(stored))
    BY <1>1, <1>2 DEF FeedInv, FeedTypeOK
  <2>. QED
    BY <1>1, <1>3, <2>1, FeedAssumption DEF FeedInv, FeedTypeOK
<1>5. LinkOK'
  <2>1. \A d \in Dials : ~Sends(d)'
    BY <1>1, <1>2 DEF FeedInv, LinkOK, Sends
  <2>. QED
    BY <1>1, <1>3, <2>1 DEF FeedInv, LinkOK
<1>6. AgentOK' /\ OwedOK' /\ WantedOK'
  BY <1>1 DEF AgentOK, OwedOK, WantedOK
<1>. QED
  BY <1>4, <1>5, <1>6 DEF FeedInv

\* The enforcer works, fails or starts.
LEMMA LocalKeeps ==
  ASSUME FeedInv, LocalStep
  PROVE  FeedInv'
<1>1. UNCHANGED <<conn, dialled, wire, taken, floor, stored, sent, task, registry, halts>>
  BY DEF LocalStep, stream, feed
<1>2. FeedTypeOK'
  BY <1>1 DEF FeedInv, FeedTypeOK
<1>3. LinkOK'
  BY <1>1 DEF FeedInv, LinkOK, Sends
<1>4. AgentOK'
  BY <1>1 DEF LocalStep, FeedInv, AgentOK
<1>5. OwedOK'
  BY <1>1 DEF FeedInv, OwedOK, Last
<1>6. WantedOK'
  BY <1>1 DEF LocalStep, FeedInv, LinkOK, WantedOK
<1>. QED
  BY <1>2, <1>3, <1>4, <1>5, <1>6 DEF FeedInv

\* Nothing is stored, sent or asked for: the invariant holds at first.
LEMMA FeedInitInv == FeedInit => FeedInv
<1>. SUFFICES ASSUME FeedInit PROVE FeedInv
  OBVIOUS
<1>1. /\ stored = <<>> /\ sent = 0 /\ task = [d \in Dials |-> NoTask] /\ conn = 0 /\ dialled = 0
      /\ wire = <<>> /\ taken = 0 /\ floor = 0 /\ halts = 0
  BY DEF FeedInit
<1>2. registry \in BOOLEAN
  BY Zenon DEF FeedInit
<1>3. FeedTypeOK
  <2>1. NoTask \in Tasks
    <3>1. 0 \in 0..(MaxStores + 1)
      BY FeedAssumption
    <3>. QED
      BY <3>1 DEF Tasks, NoTask
  <2>2. task \in [Dials -> Tasks]
    BY <1>1, <2>1
  <2>. QED
    BY <1>1, <1>2, <2>2, FeedAssumption DEF FeedTypeOK
<1>4. LinkOK
  <2>1. \A d \in Dials : ~Sends(d)
    BY <1>1 DEF Sends, NoTask
  <2>. QED
    BY <1>1, <2>1 DEF LinkOK
<1>5. AgentOK /\ OwedOK /\ WantedOK
  BY <1>1 DEF AgentOK, OwedOK, WantedOK
<1>. QED
  BY <1>3, <1>4, <1>5 DEF FeedInv

\* The feed only takes steps of the enforcer's specification.
LEMMA EnforcerStep ==
  ASSUME FeedTypeOK, [FeedNext]_feedVars
  PROVE  [Next]_vars
<1>1. CASE Deliver
  <2>1. Head(wire) \in 1..Len(stored) /\ Len(stored) \in Nat
    <3>1. Len(stored) \in Nat /\ wire \in Seq(1..Len(stored)) /\ wire # <<>>
      BY <1>1 DEF Deliver, FeedTypeOK
    <3>. QED
      BY <3>1, WireFacts
  <2>2. stored[Head(wire)] \in Policies
    BY <2>1 DEF FeedTypeOK
  <2>. QED
    BY <1>1, <2>2 DEF Deliver, Next, ReceivePolicy
<1>2. CASE Enforce
  BY <1>2 DEF Enforce, Next, Sync
<1>3. CASE CommandFails
  BY <1>3 DEF CommandFails, Next, Sync
<1>4. CASE Boot
  BY <1>4 DEF Boot, Next
<1>5. CASE Renewed \/ Killed \/ Halted
  BY <1>5 DEF Renewed, Killed, Halted, Next
<1>6. CASE StreamLost \/ Dial \/ Broadcast \/ \E policy \in Policies : Store(policy)
  BY <1>6 DEF StreamLost, Dial, Broadcast, Store
<1>7. ASSUME NEW d \in Dials, TaskSteps(d) \/ Heartbeat(d) PROVE UNCHANGED vars
  BY <1>7 DEF TaskSteps, SendFirst, Recv, Lagged, TaskEnds, Heartbeat
<1>8. CASE UNCHANGED feedVars
  BY <1>8 DEF feedVars
<1>. QED
  BY <1>1, <1>2, <1>3, <1>4, <1>5, <1>6, <1>7, <1>8 DEF FeedNext

\* Every step keeps the feed's invariant.
LEMMA FeedStep ==
  ASSUME FeedInv, TypeOK, [FeedNext]_feedVars
  PROVE  FeedInv'
  BY FeedCases, StoreKeeps, BroadcastKeeps, TaskKeeps, RegistryKeeps, DialKeeps, DeliverKeeps,
     HangupKeeps, LocalKeeps

\* Both invariants hold at every step of the composition.
LEMMA FeedInvariance == FeedSpec => [](IInv /\ FeedInv)
<1>1. FeedInit => IInv /\ FeedInv
  BY FeedInitInv, InitInv DEF FeedInit
<1>2. IInv /\ FeedInv /\ [FeedNext]_feedVars => IInv' /\ FeedInv'
  <2>. SUFFICES ASSUME IInv, FeedInv, [FeedNext]_feedVars PROVE IInv' /\ FeedInv'
    OBVIOUS
  <2>1. [Next]_vars
    BY EnforcerStep DEF FeedInv
  <2>2. IInv'
    BY <2>1, TypeStep, RulesStep, BackedStep, HandlesStep, DoomedStep, AwayStep, StaleStep, KnownStep,
       ProgressStep DEF IInv
  <2>3. FeedInv'
    BY FeedStep DEF IInv
  <2>. QED
    BY <2>2, <2>3
<1>. QED
  BY <1>1, <1>2, PTL DEF FeedSpec

-----------------------------------------------------------------------------
(* The theorems.                                                           *)

\* The connector's stored policy, channel, tasks and the agent's stream keep
\* their types.
THEOREM FeedTypeCorrect == FeedSpec => []FeedTypeOK
<1>1. FeedInv => FeedTypeOK
  BY DEF FeedInv
<1>. QED
  BY <1>1, FeedInvariance, PTL

\* Driven by the connector's feed, with its redials, lags and lost streams, the
\* enforcer does nothing that its own specification does not allow: what is
\* proved of the enforcer alone holds of the composition.
THEOREM FeedImplementsFirewall == FeedSpec => Spec
<1>1. FeedInit => Init
  BY DEF FeedInit
<1>2. FeedInv /\ [FeedNext]_feedVars => [Next]_vars
  BY EnforcerStep DEF FeedInv
<1>. QED
  BY <1>1, <1>2, FeedInvariance, PTL DEF FeedSpec, Spec

\* When nothing is under way and no command failed, exactly the ports of the
\* policy the connector stored last are protected, whatever the size of the
\* broadcast buffer and however streams broke, tasks lagged or syncs were cut.
THEOREM NewestEnforcedTheorem == FeedSpec => []NewestEnforced
<1>1. IInv /\ FeedInv => NewestEnforced
  <2>. SUFFICES ASSUME IInv, FeedInv, Still, stored # <<>>, settled
                PROVE  Held = PortsOf(Newest)
    BY DEF NewestEnforced
  <2>1. Held = PortsOf(wanted)
    BY DEF IInv, ProgressOK, Still
  <2>2. conn # 0 /\ sent = Len(stored) /\ task[conn].pc = "loop" /\ wire = <<>>
        /\ task[conn].next > sent
    BY DEF Still
  <2>3. conn \in Dials /\ task[conn].next \in Nat /\ sent \in Nat /\ Len(stored) \in Nat
    BY <2>2, FeedAssumption DEF FeedInv, FeedTypeOK, Dials, Tasks
  <2>4. Last = Len(stored)
    BY <2>2, <2>3 DEF FeedInv, OwedOK
  <2>5. taken = Len(stored)
    BY <2>2, <2>4 DEF Last
  <2>6. Len(stored) # 0
    BY EmptySeq DEF FeedInv, FeedTypeOK
  <2>7. wanted = Newest
    BY <2>5, <2>6 DEF FeedInv, WantedOK, Newest
  <2>. QED
    BY <2>1, <2>7
<1>. QED
  BY <1>1, FeedInvariance, PTL

\* The feed takes only steps its promise allows: an agent takes a policy only
\* while it is connected, and never one that was superseded when it connected.
LEMMA PromiseStep ==
  ASSUME FeedInv, TypeOK, [FeedNext]_feedVars
  PROVE  [Promise!Next]_(Promise!vars)
<1>1. ASSUME NEW policy \in Policies, Store(policy) PROVE Promise!Publish
  BY <1>1 DEF Store, stream, FeedInv, FeedTypeOK, Promise!Publish
<1>2. CASE Dial
  BY <1>2 DEF Dial, Promise!Next, Promise!Connect
<1>3. CASE HangupStep
  BY <1>3 DEF HangupStep, Hangup, Promise!Next, Promise!Connect
<1>4. CASE Deliver
  <2>1. Len(stored) \in Nat /\ wire \in Seq(1..Len(stored)) /\ wire # <<>>
    BY <1>4 DEF Deliver, FeedInv, FeedTypeOK
  <2>2. Len(wire) \in Nat /\ Len(wire) >= 1 /\ Head(wire) = wire[1] /\ wire[1] \in 1..Len(stored)
    BY <2>1, WireFacts
  <2>3. wire[1] >= floor
    BY <2>2 DEF FeedInv, LinkOK
  <2>4. taken' = wire[1] /\ UNCHANGED <<stored, floor>>
    BY <1>4, <2>2 DEF Deliver, feed
  <2>. QED
    BY <2>2, <2>3, <2>4 DEF Promise!Next, Promise!Take
<1>5. CASE \/ Broadcast \/ LocalStep
           \/ \E d \in Dials : SendFirst(d) \/ Recv(d) \/ Lagged(d) \/ TaskEnds(d) \/ Heartbeat(d)
  <2>1. UNCHANGED <<stored, floor, taken>>
    BY <1>5 DEF Broadcast, LocalStep, SendFirst, Recv, Lagged, TaskEnds, Heartbeat, stream, feed
  <2>. QED
    BY <2>1 DEF Promise!vars
<1>. QED
  BY <1>1, <1>2, <1>3, <1>4, <1>5, FeedCases DEF Promise!Next

\* The safety part of the promise (KeepsPromise): connect subscribes before its
\* task reads the stored policy, so no agent is handed a policy older than the
\* one in force when it connected.
THEOREM KeepsPromiseSafely == FeedSpec => Promise!Spec
<1>1. FeedInit => Promise!Init
  BY DEF FeedInit, Promise!Init
<1>2. IInv /\ FeedInv /\ [FeedNext]_feedVars => [Promise!Next]_(Promise!vars)
  BY PromiseStep DEF IInv
<1>. QED
  BY <1>1, <1>2, FeedInvariance, PTL DEF FeedSpec, Promise!Spec
=============================================================================
