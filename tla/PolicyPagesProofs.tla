--------------------------- MODULE PolicyPagesProofs ---------------------------
(***************************************************************************)
(* Proofs about PolicyPages for any tabs, names, ids and bounds, and then  *)
(* about ConsoleStore, the other store the console keeps itself.           *)
(***************************************************************************)
EXTENDS PolicyPages, ConsoleStore, FiniteSetTheorems, TLAPS

ListKinds == {"ensure", "policies"}

\* A list that may be stored, and one that may be written.
ListOK(ps) == wiped \/ (HasDefault(ps) /\ Distinct(ps))
FullOK(ps) == wiped \/ (DefaultId \in IdsOf(ps) /\ Distinct(ps))

\* A sign-in policy that may be stored.
InRange(s) == s.days >= 0 /\ s.hours \in 0 .. 23 /\ (s.days > 0 \/ s.hours > 0)

\* What a tab is about to write may be stored, whatever is stored by then.
BufOK ==
    \A t \in Tabs : /\ buf[t].kind \in ListKinds => FullOK(buf[t].value)
                    /\ buf[t].kind = "signIn" => InRange(buf[t].value)

\* A tab that found the default policy will find it when it reads the list.
EnsuredOK == \A t \in Tabs : buf[t] = Ensured => (wiped \/ DefaultId \in IdsOf(policies))

\* The form has checked the numbers of a reauthentication.
RunOK == \A t \in Tabs : run[t].kind = "reauth" => ReauthOk(run[t].d, run[t].h)

\* Every policy that is stored, on a page, being saved or about to be written.
OnPages == UNION { held[t] : t \in Tabs }
BeingSaved == { run[t].policy : t \in { u \in Tabs : run[u].kind = "save" } }
Buffered == UNION { buf[t].value : t \in { u \in Tabs : buf[u].kind \in ListKinds } }
Known == policies \cup {DefaultPolicy} \cup OnPages \cup BeingSaved \cup Buffered

\* Their ids were given out, each to one name: the copies of a policy agree on
\* its name, however old they are.
KnownOK ==
    /\ \A p \in Known : p.id \in used \cup {DefaultId}
    /\ \A p, q \in Known : p.id = q.id => p.name = q.name

IInv == TypeOK /\ ListOK(policies) /\ ReauthInRange /\ BufOK /\ EnsuredOK /\ RunOK /\ KnownOK

-----------------------------------------------------------------------------
(* Types.                                                                  *)

\* What an operation carries, by its kind.
LEMMA RunFields ==
  ASSUME NEW r \in Running \cup {Nothing}
  PROVE  /\ r.kind = "create" => r.name \in Names
         /\ r.kind = "delete" => r.id \in Ids
         /\ r.kind = "save" => r.policy \in Policy
         /\ r.kind = "reauth" => r.d \in Int /\ r.h \in Int
         /\ r.kind = "mfa" => r.required \in BOOLEAN
         /\ r.kind = "trust" => r.platform \in Platforms
         /\ r.kind = "approve" => r.platform \in Platforms /\ r.enabled \in BOOLEAN
  BY DEF Running, Nothing

\* What a buffer carries, by its kind.
LEMMA BufFields ==
  ASSUME NEW b \in Buffers
  PROVE  /\ b.kind \in ListKinds => b.value \in SUBSET Policy
         /\ b.kind = "signIn" => b.value \in SignIns
         /\ b.kind = "profiles" => b.value \in ProfileStates
  BY DEF Buffers, Nothing, Ensured, ListKinds

\* What may be written is a buffer, and never nothing.
LEMMA BufTypes ==
  /\ \A k \in ListKinds : \A v \in SUBSET Policy : [kind |-> k, value |-> v] \in Buffers
  /\ \A v \in SignIns : [kind |-> "signIn", value |-> v] \in Buffers
  /\ \A v \in ProfileStates : [kind |-> "profiles", value |-> v] \in Buffers
  /\ Nothing \in Buffers /\ Nothing.kind = "none" /\ Ensured \in Buffers /\ Ensured.kind = "ensured"
  BY DEF Buffers, Nothing, Ensured, ListKinds

\* What is read is well typed.
LEMMA ReadTypes ==
  ASSUME TypeOK
  PROVE  ReadSignIn \in SignIns /\ ReadProfiles \in ProfileStates /\ DefaultPolicy \in Policy
<1>1. DefaultSignIn \in SignIns
  BY DEF DefaultSignIn, SignIns
<1>2. DefaultProfiles \in ProfileStates
  BY DEF DefaultProfiles, ProfileStates
<1>3. DefaultPolicy \in Policy
  BY PolicyPagesAssumption DEF DefaultPolicy, Policy, Modes
<1>. QED
  BY <1>1, <1>2, <1>3 DEF ReadSignIn, ReadProfiles, TypeOK

\* A policy with another mode is the same policy otherwise.
LEMMA ModeChange ==
  ASSUME NEW p \in Policy, NEW m \in Modes
  PROVE  LET q == [p EXCEPT !.mode = m] IN q \in Policy /\ q.id = p.id /\ q.name = p.name
  BY DEF Policy

\* What a user may start is an operation.
LEMMA OpsType ==
  ASSUME TypeOK, NEW t \in Tabs, NEW o \in Ops(t)
  PROVE  o \in Running /\ o.kind # "none"
<1>. USE PolicyPagesAssumption
<1>1. held[t] \subseteq Policy
  BY DEF TypeOK
<1>2. CASE o = [kind |-> "load"] \/ o \in [kind : {"create"}, name : Names]
  BY <1>2 DEF Running
<1>3. CASE o \in { [kind |-> "delete", id |-> p.id] : p \in { q \in held[t] : Deletable(q) } }
  <2>1. PICK p \in held[t] : Deletable(p) /\ o = [kind |-> "delete", id |-> p.id]
    BY <1>3
  <2>2. p.id \in Ids
    BY <1>1, <2>1 DEF Deletable, Policy
  <2>. QED
    BY <2>1, <2>2 DEF Running
<1>4. CASE o \in { [kind |-> "save", policy |-> [p EXCEPT !.mode = m]] : p \in held[t], m \in Modes }
  <2>1. PICK p \in held[t], m \in Modes : o = [kind |-> "save", policy |-> [p EXCEPT !.mode = m]]
    BY <1>4
  <2>2. [p EXCEPT !.mode = m] \in Policy
    BY <1>1, ModeChange
  <2>. QED
    BY <2>1, <2>2 DEF Running
<1>5. CASE o \in { [kind |-> "reauth", d |-> d, h |-> h] : d \in Days, h \in Hours }
  BY <1>5 DEF Running
<1>6. CASE \/ o \in [kind : {"mfa"}, required : BOOLEAN] \/ o \in [kind : {"trust"}, platform : Platforms]
           \/ o \in [kind : {"approve"}, platform : Platforms, enabled : BOOLEAN]
  BY <1>6 DEF Running
<1>. QED
  BY <1>2, <1>3, <1>4, <1>5, <1>6 DEF Ops

\* A save is of a policy on the page, but for its mode.
LEMMA SaveOfHeld ==
  ASSUME TypeOK, NEW t \in Tabs, NEW o \in Ops(t), o.kind = "save"
  PROVE  \E p \in held[t] : o.policy \in Policy /\ o.policy.id = p.id /\ o.policy.name = p.name
<1>1. held[t] \subseteq Policy
  BY DEF TypeOK
<1>2. o \in { [kind |-> "save", policy |-> [p EXCEPT !.mode = m]] : p \in held[t], m \in Modes }
  BY DEF Ops
<1>3. PICK p \in held[t], m \in Modes : o = [kind |-> "save", policy |-> [p EXCEPT !.mode = m]]
  BY <1>2
<1>4. /\ o.policy = [p EXCEPT !.mode = m] /\ p \in Policy
  BY <1>1, <1>3
<1>5. o.policy \in Policy /\ o.policy.id = p.id /\ o.policy.name = p.name
  BY <1>4, ModeChange
<1>. QED
  BY <1>5

\* Every step keeps the state well typed.
LEMMA TypeStep == TypeOK /\ [Next]_vars => TypeOK'
<1>. SUFFICES ASSUME TypeOK, [Next]_vars PROVE TypeOK'
  OBVIOUS
<1>. USE PolicyPagesAssumption
<1>1. ASSUME NEW t \in Tabs, Begin(t) PROVE TypeOK'
  <2>1. PICK o \in Ops(t) :
          /\ run' = [run EXCEPT ![t] = o]
          /\ held' = IF o.kind = "save"
                     THEN [held EXCEPT ![t] = { IF p.id = o.policy.id THEN o.policy ELSE p : p \in @ }]
                     ELSE held
    BY <1>1 DEF Begin
  <2>2. run' \in [Tabs -> Running \cup {Nothing}]
    BY <2>1, OpsType DEF TypeOK
  <2>3. o.kind = "save" => { IF p.id = o.policy.id THEN o.policy ELSE p : p \in held[t] } \subseteq Policy
    BY SaveOfHeld DEF TypeOK
  <2>4. held' \in [Tabs -> SUBSET Policy]
    BY <2>1, <2>3 DEF TypeOK
  <2>. QED
    BY <1>1, <2>2, <2>4 DEF Begin, TypeOK
<1>2. ASSUME NEW t \in Tabs, EnsureDefault(t) PROVE TypeOK'
  <2>1. policies \cup {DefaultPolicy} \in SUBSET Policy
    BY ReadTypes DEF TypeOK
  <2>2. buf' \in [Tabs -> Buffers]
    BY <1>2, <2>1, BufTypes DEF EnsureDefault, TypeOK, ListKinds
  <2>. QED
    BY <1>2, <2>2 DEF EnsureDefault, TypeOK
<1>3. ASSUME NEW t \in Tabs, LoadPolicies(t) PROVE TypeOK'
  BY <1>3, BufTypes DEF LoadPolicies, Done, TypeOK
<1>4. ASSUME NEW t \in Tabs, CreateResourcePolicy(t) PROVE TypeOK'
  <2>1. CASE NameTaken(run[t].name)
    BY <1>4, <2>1, BufTypes DEF CreateResourcePolicy, Done, TypeOK
  <2>2. CASE ~NameTaken(run[t].name)
    <3>. DEFINE new(i) == [id |-> i, name |-> run[t].name, isDefault |-> FALSE, mode |-> "any"]
    <3>1. PICK i \in Ids \ used : used' = used \cup {i} /\ WillWrite(t, "policies", policies \cup {new(i)})
      BY <1>4, <2>2 DEF CreateResourcePolicy
    <3>2. run[t].name \in Names
      BY <1>4, RunFields DEF CreateResourcePolicy, Ready, TypeOK
    <3>3. new(i) \in Policy
      BY <3>2 DEF Policy, Modes
    <3>. HIDE DEF new
    <3>4. policies \cup {new(i)} \in SUBSET Policy
      BY <3>3 DEF TypeOK
    <3>5. buf' \in [Tabs -> Buffers]
      BY <3>1, <3>4, BufTypes DEF WillWrite, TypeOK, ListKinds
    <3>. QED
      BY <1>4, <2>2, <3>1, <3>5 DEF CreateResourcePolicy, TypeOK
  <2>. QED
    BY <2>1, <2>2
<1>5. ASSUME NEW t \in Tabs, DeleteResourcePolicy(t) PROVE TypeOK'
  <2>1. { p \in policies : p.id # run[t].id } \in SUBSET Policy
    BY DEF TypeOK
  <2>2. buf' \in [Tabs -> Buffers]
    BY <1>5, <2>1, BufTypes DEF DeleteResourcePolicy, WillWrite, TypeOK, ListKinds
  <2>. QED
    BY <1>5, <2>2 DEF DeleteResourcePolicy, TypeOK
<1>6. ASSUME NEW t \in Tabs, SaveResourcePolicy(t) PROVE TypeOK'
  <2>1. run[t].policy \in Policy
    BY <1>6, RunFields DEF SaveResourcePolicy, Ready, TypeOK
  <2>2. { IF p.id = run[t].policy.id THEN run[t].policy ELSE p : p \in policies } \in SUBSET Policy
    BY <2>1 DEF TypeOK
  <2>3. buf' \in [Tabs -> Buffers]
    BY <1>6, <2>2, BufTypes DEF SaveResourcePolicy, WillWrite, TypeOK, ListKinds
  <2>. QED
    BY <1>6, <2>3 DEF SaveResourcePolicy, TypeOK
<1>7. ASSUME NEW t \in Tabs, SaveSignIn(t) PROVE TypeOK'
  <2>1. PICK v : v \in SignIns /\ buf' = [buf EXCEPT ![t] = [kind |-> "signIn", value |-> v]]
    <3>1. CASE run[t].kind = "reauth" /\ WillWrite(t, "signIn", [ReadSignIn EXCEPT !.days = run[t].d, !.hours = run[t].h])
      <4>1. run[t].d \in Int /\ run[t].h \in Int
        BY <3>1, RunFields DEF TypeOK
      <4>2. [ReadSignIn EXCEPT !.days = run[t].d, !.hours = run[t].h] \in SignIns
        BY <4>1, ReadTypes DEF SignIns
      <4>. QED
        BY <3>1, <4>2 DEF WillWrite
    <3>2. CASE run[t].kind = "mfa" /\ WillWrite(t, "signIn", [ReadSignIn EXCEPT !.required = run[t].required])
      <4>1. run[t].required \in BOOLEAN
        BY <3>2, RunFields DEF TypeOK
      <4>2. [ReadSignIn EXCEPT !.required = run[t].required] \in SignIns
        BY <4>1, ReadTypes DEF SignIns
      <4>. QED
        BY <3>2, <4>2 DEF WillWrite
    <3>. QED
      BY <1>7, <3>1, <3>2 DEF SaveSignIn
  <2>2. buf' \in [Tabs -> Buffers]
    BY <2>1, BufTypes DEF TypeOK
  <2>. QED
    BY <1>7, <2>2 DEF SaveSignIn, TypeOK
<1>8. ASSUME NEW t \in Tabs, SaveProfiles(t) PROVE TypeOK'
  <2>1. buf' = buf \/ \E v \in ProfileStates : buf' = [buf EXCEPT ![t] = [kind |-> "profiles", value |-> v]]
    <3>1. CASE run[t].kind = "trust" /\ buf' # buf
      <4>1. run[t].platform \in Platforms
        BY <3>1, RunFields DEF TypeOK
      <4>2. [ReadProfiles EXCEPT !.trusted = @ \cup {run[t].platform}] \in ProfileStates
        BY <4>1, ReadTypes DEF ProfileStates
      <4>. QED
        BY <1>8, <3>1, <4>2 DEF SaveProfiles, WillWrite
    <3>2. CASE run[t].kind = "approve"
      <4>1. run[t].platform \in Platforms
        BY <3>2, RunFields DEF TypeOK
      <4>. DEFINE on == IF run[t].enabled THEN ReadProfiles.approved \cup {run[t].platform}
                        ELSE ReadProfiles.approved \ {run[t].platform}
      <4>2. on \in SUBSET Platforms
        BY <4>1, ReadTypes DEF ProfileStates
      <4>3. [ReadProfiles EXCEPT !.approved = on] \in ProfileStates
        BY <4>2, ReadTypes DEF ProfileStates
      <4>. QED
        BY <1>8, <3>2, <4>3 DEF SaveProfiles, WillWrite
    <3>. QED
      BY <1>8, <3>1, <3>2 DEF SaveProfiles
  <2>2. buf' \in [Tabs -> Buffers]
    BY <2>1, BufTypes DEF TypeOK
  <2>. QED
    BY <1>8, <2>2 DEF SaveProfiles, TypeOK
<1>9. ASSUME NEW t \in Tabs, Write(t) PROVE TypeOK'
  <2>1. buf[t] \in Buffers /\ run[t] \in Running \cup {Nothing}
    BY DEF TypeOK
  <2>2. policies' \subseteq Policy /\ signIn' \in SignIns \cup {Nothing} /\ profiles' \in ProfileStates \cup {Nothing}
    BY <1>9, <2>1, BufFields DEF Write, TypeOK, ListKinds
  <2>3. AfterWrite(t) \in Running \cup {Nothing}
    BY <2>1 DEF AfterWrite, Running
  <2>4. run' \in [Tabs -> Running \cup {Nothing}] /\ buf' \in [Tabs -> Buffers]
    BY <1>9, <2>3, BufTypes DEF Write, TypeOK
  <2>. QED
    BY <1>9, <2>2, <2>4 DEF Write, TypeOK
<1>10. CASE ClearStorage
  <2>1. wiped' \in BOOLEAN
    BY <1>10, Zenon DEF ClearStorage, TypeOK
  <2>. QED
    BY <1>10, <2>1 DEF ClearStorage, TypeOK
<1>11. CASE UNCHANGED vars
  BY <1>11 DEF vars, TypeOK
<1>. QED
  BY <1>1, <1>2, <1>3, <1>4, <1>5, <1>6, <1>7, <1>8, <1>9, <1>10, <1>11 DEF Next, Step

-----------------------------------------------------------------------------
(* Lists and sign-in policies that are about to be written.                *)

\* The copies that are around keep to their names when every one of them is
\* like one that was around before.
LEMMA KnownKept ==
  ASSUME KnownOK, used \subseteq used',
         \A p \in Known' : \E q \in Known : q.id = p.id /\ q.name = p.name
  PROVE  KnownOK'
  BY DEF KnownOK

\* p is a known policy because of tab t.
KnownTo(t, p) ==
  \/ p \in held[t]
  \/ run[t].kind = "save" /\ p = run[t].policy
  \/ buf[t].kind \in ListKinds /\ p \in buf[t].value

\* Where a known policy is.
LEMMA KnownMember ==
  \A p : p \in Known <=> p \in policies \/ p = DefaultPolicy \/ \E t \in Tabs : KnownTo(t, p)
<1>. SUFFICES ASSUME NEW p
              PROVE  p \in Known <=> p \in policies \/ p = DefaultPolicy \/ \E t \in Tabs : KnownTo(t, p)
  OBVIOUS
<1>1. p \in OnPages <=> \E t \in Tabs : p \in held[t]
  BY DEF OnPages
<1>2. p \in BeingSaved <=> \E t \in Tabs : run[t].kind = "save" /\ p = run[t].policy
  BY DEF BeingSaved
<1>3. p \in Buffered <=> \E t \in Tabs : buf[t].kind \in ListKinds /\ p \in buf[t].value
  BY DEF Buffered
<1>. QED
  BY <1>1, <1>2, <1>3 DEF Known, KnownTo

\* Where it is after a step.
LEMMA KnownMemberNext ==
  (\A p : p \in Known <=> p \in policies \/ p = DefaultPolicy \/ \E t \in Tabs : KnownTo(t, p))'
  BY KnownMember, PTL

\* With the default policy stored, what ensureDefaultResourcePolicy makes of the
\* list may be stored.
LEMMA EnsureList ==
  ASSUME ListOK(policies), DefaultId \notin IdsOf(policies)
  PROVE  FullOK(policies \cup {DefaultPolicy})
<1>. SUFFICES ASSUME ~wiped PROVE FullOK(policies \cup {DefaultPolicy})
  BY DEF FullOK
<1>1. policies = {}
  BY DEF ListOK, HasDefault
<1>. QED
  BY <1>1 DEF FullOK, Distinct, IdsOf, DefaultPolicy

\* So may what createResourcePolicy makes of it.
LEMMA CreateList ==
  ASSUME TypeOK, KnownOK, ListOK(policies), wiped \/ DefaultId \in IdsOf(policies),
         NEW n \in Names, ~NameTaken(n), NEW i \in Ids \ used
  PROVE  FullOK(policies \cup {[id |-> i, name |-> n, isDefault |-> FALSE, mode |-> "any"]})
<1>. DEFINE new == [id |-> i, name |-> n, isDefault |-> FALSE, mode |-> "any"]
<1>1. new.id = i /\ new.name = n
  OBVIOUS
<1>. HIDE DEF new
<1>. SUFFICES ASSUME ~wiped PROVE FullOK(policies \cup {new})
  BY DEF FullOK, new
<1>2. \A p \in policies : p.id # i /\ Folded[p.name] # Folded[n]
  BY KnownMember, PolicyPagesAssumption DEF KnownOK, NameTaken
<1>3. Distinct(policies \cup {new})
  BY <1>1, <1>2 DEF ListOK, Distinct
<1>4. DefaultId \in IdsOf(policies \cup {new})
  BY DEF IdsOf
<1>. QED
  BY <1>3, <1>4 DEF FullOK

\* So may what deleteResourcePolicy makes of it.
LEMMA DeleteList ==
  ASSUME ListOK(policies), wiped \/ DefaultId \in IdsOf(policies), NEW i, i # DefaultId
  PROVE  FullOK({ p \in policies : p.id # i })
<1>. SUFFICES ASSUME ~wiped PROVE FullOK({ p \in policies : p.id # i })
  BY DEF FullOK
<1>1. Distinct({ p \in policies : p.id # i })
  BY DEF ListOK, Distinct
<1>2. DefaultId \in IdsOf({ p \in policies : p.id # i })
  BY DEF IdsOf
<1>. QED
  BY <1>1, <1>2 DEF FullOK

\* So may what saveResourcePolicy makes of it, since the page's copy has kept
\* the name.
LEMMA SaveList ==
  ASSUME ListOK(policies), wiped \/ DefaultId \in IdsOf(policies), NEW x,
         \A p \in policies : p.id = x.id => p.name = x.name
  PROVE  FullOK({ IF p.id = x.id THEN x ELSE p : p \in policies })
<1>. DEFINE ps == { IF p.id = x.id THEN x ELSE p : p \in policies }
<1>. SUFFICES ASSUME ~wiped PROVE FullOK(ps)
  BY DEF FullOK
<1>1. ASSUME NEW q \in ps PROVE \E p \in policies : p.id = q.id /\ p.name = q.name /\ (q = x \/ (q = p /\ p.id # x.id))
  BY <1>1
<1>2. Distinct(ps)
  <2>. SUFFICES ASSUME NEW q \in ps, NEW r \in ps, q.id = r.id \/ Folded[q.name] = Folded[r.name]
                PROVE  q = r
    BY DEF Distinct
  <2>1. PICK p1 \in policies : p1.id = q.id /\ p1.name = q.name /\ (q = x \/ (q = p1 /\ p1.id # x.id))
    BY <1>1
  <2>2. PICK p2 \in policies : p2.id = r.id /\ p2.name = r.name /\ (r = x \/ (r = p2 /\ p2.id # x.id))
    BY <1>1
  <2>3. p1 = p2
    BY <2>1, <2>2 DEF ListOK, Distinct
  <2>. QED
    BY <2>1, <2>2, <2>3
<1>3. DefaultId \in IdsOf(ps)
  <2>1. PICK p \in policies : p.id = DefaultId
    BY DEF IdsOf
  <2>2. CASE p.id = x.id
    BY <2>1, <2>2 DEF IdsOf
  <2>3. CASE p.id # x.id
    BY <2>1, <2>3 DEF IdsOf
  <2>. QED
    BY <2>2, <2>3
<1>. QED
  BY <1>2, <1>3 DEF FullOK

\* What is stored is in range, also when nothing is.
LEMMA SignInRange ==
  ASSUME TypeOK, ReauthInRange
  PROVE  /\ InRange(ReadSignIn)
         /\ \A d, h \in Int : ReauthOk(d, h) => InRange([ReadSignIn EXCEPT !.days = d, !.hours = h])
         /\ \A b \in BOOLEAN : InRange([ReadSignIn EXCEPT !.required = b])
<1>1. InRange(ReadSignIn) /\ ReadSignIn \in SignIns
  BY ReadTypes DEF ReauthInRange, InRange
<1>2. \A d, h \in Int : ReauthOk(d, h) => InRange([ReadSignIn EXCEPT !.days = d, !.hours = h])
  BY <1>1 DEF SignIns, InRange, ReauthOk
<1>3. \A b \in BOOLEAN : InRange([ReadSignIn EXCEPT !.required = b])
  BY <1>1 DEF SignIns, InRange
<1>. QED
  BY <1>1, <1>2, <1>3

-----------------------------------------------------------------------------
(* The steps.                                                              *)

\* What an operation puts into its tab's buffer may be stored.
LEMMA BufStep == IInv /\ [Next]_vars => BufOK'
<1>. SUFFICES ASSUME IInv, [Next]_vars PROVE BufOK'
  OBVIOUS
<1>. USE PolicyPagesAssumption
<1>1. TypeOK /\ ListOK(policies) /\ ReauthInRange /\ BufOK /\ EnsuredOK /\ RunOK /\ KnownOK
  BY DEF IInv
<1>2. ASSUME NEW t \in Tabs, NEW k, NEW v, WillWrite(t, k, v), wiped' = wiped,
             k \in ListKinds => FullOK(v), k = "signIn" => InRange(v)
      PROVE  BufOK'
  <2>1. buf'[t] = [kind |-> k, value |-> v] /\ \A u \in Tabs : u # t => buf'[u] = buf[u]
    BY <1>1, <1>2 DEF WillWrite, TypeOK
  <2>. QED
    BY <1>1, <1>2, <2>1 DEF BufOK, FullOK
<1>a. ASSUME NEW t \in Tabs, wiped' = wiped, buf'[t] \in {Nothing, Ensured}, \A u \in Tabs : u # t => buf'[u] = buf[u]
      PROVE  BufOK'
  BY <1>1, <1>a DEF BufOK, FullOK, Nothing, Ensured, ListKinds
<1>3. ASSUME NEW t \in Tabs, EnsureDefault(t) PROVE BufOK'
  <2>0. wiped' = wiped
    BY <1>3 DEF EnsureDefault
  <2>1. CASE DefaultId \notin IdsOf(policies)
    <3>1. WillWrite(t, "ensure", policies \cup {DefaultPolicy})
      BY <1>3, <2>1 DEF EnsureDefault, WillWrite
    <3>2. FullOK(policies \cup {DefaultPolicy})
      BY <1>1, <2>1, EnsureList
    <3>. QED
      BY <1>2, <2>0, <3>1, <3>2
  <2>2. CASE DefaultId \in IdsOf(policies)
    <3>1. buf'[t] = Ensured /\ \A u \in Tabs : u # t => buf'[u] = buf[u]
      BY <1>1, <1>3, <2>2 DEF EnsureDefault, TypeOK
    <3>. QED
      BY <1>a, <2>0, <3>1
  <2>. QED
    BY <2>1, <2>2
<1>4. ASSUME NEW t \in Tabs, CreateResourcePolicy(t) PROVE BufOK'
  <2>1. CASE NameTaken(run[t].name)
    <3>1. wiped' = wiped /\ buf'[t] = Nothing /\ \A u \in Tabs : u # t => buf'[u] = buf[u]
      BY <1>1, <1>4, <2>1 DEF CreateResourcePolicy, Done, TypeOK
    <3>. QED
      BY <1>a, <3>1
  <2>2. CASE ~NameTaken(run[t].name)
    <3>1. PICK i \in Ids \ used :
            WillWrite(t, "policies",
                      policies \cup {[id |-> i, name |-> run[t].name, isDefault |-> FALSE, mode |-> "any"]})
      BY <1>4, <2>2 DEF CreateResourcePolicy
    <3>2. run[t].name \in Names /\ (wiped \/ DefaultId \in IdsOf(policies)) /\ wiped' = wiped
      BY <1>1, <1>4, RunFields DEF CreateResourcePolicy, Ready, TypeOK, EnsuredOK
    <3>3. FullOK(policies \cup {[id |-> i, name |-> run[t].name, isDefault |-> FALSE, mode |-> "any"]})
      BY <1>1, <2>2, <3>2, CreateList
    <3>. QED
      BY <1>2, <3>1, <3>2, <3>3
  <2>. QED
    BY <2>1, <2>2
<1>5. ASSUME NEW t \in Tabs, DeleteResourcePolicy(t) PROVE BufOK'
  <2>1. run[t].id \in Ids /\ (wiped \/ DefaultId \in IdsOf(policies))
    BY <1>1, <1>5, RunFields DEF DeleteResourcePolicy, Ready, TypeOK, EnsuredOK
  <2>2. FullOK({ p \in policies : p.id # run[t].id })
    BY <1>1, <2>1, DeleteList
  <2>. QED
    BY <1>2, <1>5, <2>2 DEF DeleteResourcePolicy
<1>6. ASSUME NEW t \in Tabs, SaveResourcePolicy(t) PROVE BufOK'
  <2>1. run[t].kind = "save" /\ (wiped \/ DefaultId \in IdsOf(policies))
    BY <1>1, <1>6 DEF SaveResourcePolicy, Ready, EnsuredOK
  <2>2. run[t].policy \in Known /\ policies \subseteq Known
    BY <2>1, KnownMember DEF KnownTo
  <2>3. \A p \in policies : p.id = run[t].policy.id => p.name = run[t].policy.name
    BY <1>1, <2>2 DEF KnownOK
  <2>4. FullOK({ IF p.id = run[t].policy.id THEN run[t].policy ELSE p : p \in policies })
    BY <1>1, <2>1, <2>3, SaveList
  <2>. QED
    BY <1>2, <1>6, <2>4 DEF SaveResourcePolicy
<1>7. ASSUME NEW t \in Tabs, SaveSignIn(t) PROVE BufOK'
  <2>0. wiped' = wiped
    BY <1>7 DEF SaveSignIn
  <2>1. CASE run[t].kind = "reauth" /\ WillWrite(t, "signIn", [ReadSignIn EXCEPT !.days = run[t].d, !.hours = run[t].h])
    <3>1. run[t].d \in Int /\ run[t].h \in Int /\ ReauthOk(run[t].d, run[t].h)
      BY <1>1, <2>1, RunFields DEF TypeOK, RunOK
    <3>2. InRange([ReadSignIn EXCEPT !.days = run[t].d, !.hours = run[t].h])
      BY <1>1, <3>1, SignInRange
    <3>. QED
      BY <1>2, <2>0, <2>1, <3>2 DEF ListKinds
  <2>2. CASE run[t].kind = "mfa" /\ WillWrite(t, "signIn", [ReadSignIn EXCEPT !.required = run[t].required])
    <3>1. run[t].required \in BOOLEAN
      BY <1>1, <2>2, RunFields DEF TypeOK
    <3>2. InRange([ReadSignIn EXCEPT !.required = run[t].required])
      BY <1>1, <3>1, SignInRange
    <3>. QED
      BY <1>2, <2>0, <2>2, <3>2 DEF ListKinds
  <2>. QED
    BY <1>7, <2>1, <2>2 DEF SaveSignIn
<1>8. ASSUME NEW t \in Tabs, SaveProfiles(t) PROVE BufOK'
  <2>1. wiped' = wiped /\ (buf' = buf \/ \E v : WillWrite(t, "profiles", v))
    BY <1>8 DEF SaveProfiles
  <2>. QED
    BY <1>1, <1>2, <2>1 DEF BufOK, FullOK, ListKinds
<1>9. ASSUME NEW t \in Tabs, Write(t) PROVE BufOK'
  <2>1. wiped' = wiped /\ buf'[t] \in {Nothing, Ensured} /\ \A u \in Tabs : u # t => buf'[u] = buf[u]
    BY <1>1, <1>9 DEF Write, TypeOK
  <2>. QED
    BY <1>a, <2>1
<1>10. CASE UNCHANGED buf /\ (wiped => wiped')
  BY <1>1, <1>10 DEF BufOK, FullOK
<1>11. UNCHANGED vars \/ ClearStorage => UNCHANGED buf /\ (wiped => wiped')
  BY DEF vars, ClearStorage
<1>12. ASSUME NEW t \in Tabs, Begin(t) PROVE UNCHANGED buf /\ (wiped => wiped')
  BY <1>12 DEF Begin
<1>13. ASSUME NEW t \in Tabs, LoadPolicies(t) PROVE BufOK'
  <2>1. wiped' = wiped /\ buf'[t] = Nothing /\ \A u \in Tabs : u # t => buf'[u] = buf[u]
    BY <1>1, <1>13 DEF LoadPolicies, Done, TypeOK
  <2>. QED
    BY <1>a, <2>1
<1>. QED
  BY <1>3, <1>4, <1>5, <1>6, <1>7, <1>8, <1>9, <1>10, <1>11, <1>12, <1>13 DEF Next, Step

\* The default policy a tab found stays, unless a clear is recorded.
LEMMA EnsuredStep == IInv /\ [Next]_vars => EnsuredOK'
<1>. SUFFICES ASSUME IInv, [Next]_vars PROVE EnsuredOK'
  OBVIOUS
<1>1. TypeOK /\ BufOK /\ EnsuredOK
  BY DEF IInv
<1>2. ASSUME UNCHANGED << policies, wiped >>, \A u \in Tabs : buf'[u] = Ensured => buf[u] = Ensured
      PROVE  EnsuredOK'
  BY <1>1, <1>2 DEF EnsuredOK
<1>3. ASSUME NEW t \in Tabs, UNCHANGED << policies, wiped >>, NEW b, b.kind # "ensured", buf' = [buf EXCEPT ![t] = b]
      PROVE  EnsuredOK'
  <2>1. \A u \in Tabs : buf'[u] = Ensured => buf[u] = Ensured
    BY <1>1, <1>3 DEF TypeOK, Ensured
  <2>. QED
    BY <1>2, <1>3, <2>1
<1>4. ASSUME NEW t \in Tabs, EnsureDefault(t) PROVE EnsuredOK'
  <2>1. UNCHANGED << policies, wiped >> /\ \A u \in Tabs : u # t => buf'[u] = buf[u]
    BY <1>1, <1>4 DEF EnsureDefault, TypeOK
  <2>2. buf'[t] = Ensured => DefaultId \in IdsOf(policies)
    BY <1>1, <1>4 DEF EnsureDefault, TypeOK, Ensured
  <2>. QED
    BY <1>1, <2>1, <2>2 DEF EnsuredOK
<1>5. ASSUME NEW t \in Tabs, LoadPolicies(t) \/ Begin(t) PROVE EnsuredOK'
  <2>1. UNCHANGED << policies, wiped >> /\ (buf' = buf \/ buf' = [buf EXCEPT ![t] = Nothing])
    BY <1>5 DEF LoadPolicies, Begin, Done
  <2>. QED
    BY <1>2, <1>3, <2>1, BufTypes
<1>6. ASSUME NEW t \in Tabs, UNCHANGED << policies, wiped >>, NEW k, NEW v, k # "ensured", WillWrite(t, k, v) PROVE EnsuredOK'
  BY <1>3, <1>6 DEF WillWrite
<1>7. ASSUME NEW t \in Tabs, CreateResourcePolicy(t) PROVE EnsuredOK'
  <2>1. /\ UNCHANGED << policies, wiped >>
        /\ buf' = [buf EXCEPT ![t] = Nothing] \/ \E v : WillWrite(t, "policies", v)
    BY <1>7 DEF CreateResourcePolicy, Done
  <2>. QED
    BY <1>3, <1>6, <2>1, BufTypes
<1>8. ASSUME NEW t \in Tabs, DeleteResourcePolicy(t) \/ SaveResourcePolicy(t) PROVE EnsuredOK'
  <2>1. UNCHANGED << policies, wiped >> /\ \E v : WillWrite(t, "policies", v)
    BY <1>8 DEF DeleteResourcePolicy, SaveResourcePolicy
  <2>. QED
    BY <1>6, <2>1
<1>9. ASSUME NEW t \in Tabs, SaveSignIn(t) PROVE EnsuredOK'
  <2>1. UNCHANGED << policies, wiped >> /\ \E v : WillWrite(t, "signIn", v)
    BY <1>9 DEF SaveSignIn
  <2>. QED
    BY <1>6, <2>1
<1>10. ASSUME NEW t \in Tabs, SaveProfiles(t) PROVE EnsuredOK'
  <2>1. UNCHANGED << policies, wiped >> /\ (buf' = buf \/ \E v : WillWrite(t, "profiles", v))
    BY <1>10 DEF SaveProfiles
  <2>. QED
    BY <1>2, <1>6, <2>1
<1>11. ASSUME NEW t \in Tabs, Write(t) PROVE EnsuredOK'
  <2>1. CASE buf[t].kind \in ListKinds
    <3>1. policies' = buf[t].value /\ wiped' = wiped
      BY <1>11, <2>1 DEF Write, ListKinds
    <3>2. FullOK(buf[t].value)
      BY <1>1, <2>1 DEF BufOK
    <3>. QED
      BY <3>1, <3>2 DEF EnsuredOK, FullOK
  <2>2. CASE buf[t].kind \notin ListKinds
    <3>1. UNCHANGED << policies, wiped >> /\ buf' = [buf EXCEPT ![t] = Nothing]
      BY <1>11, <2>2 DEF Write, ListKinds
    <3>. QED
      BY <1>3, <3>1, BufTypes
  <2>. QED
    BY <2>1, <2>2
<1>12. CASE ClearStorage
  BY <1>12 DEF ClearStorage, EnsuredOK
<1>13. CASE UNCHANGED vars
  BY <1>2, <1>13 DEF vars
<1>. QED
  BY <1>4, <1>5, <1>7, <1>8, <1>9, <1>10, <1>11, <1>12, <1>13 DEF Next, Step

\* A reauthentication is started with numbers in range only.
LEMMA RunStep == TypeOK /\ RunOK /\ [Next]_vars => RunOK'
<1>. SUFFICES ASSUME TypeOK, RunOK, [Next]_vars PROVE RunOK'
  OBVIOUS
<1>1. ASSUME NEW t \in Tabs, Begin(t) PROVE RunOK'
  <2>1. PICK o \in Ops(t) : (o.kind = "reauth" => ReauthOk(o.d, o.h)) /\ run' = [run EXCEPT ![t] = o]
    BY <1>1 DEF Begin
  <2>2. run'[t] = o /\ \A u \in Tabs : u # t => run'[u] = run[u]
    BY <2>1 DEF TypeOK
  <2>. QED
    BY <2>1, <2>2 DEF RunOK
<1>2. ASSUME NEW t \in Tabs, LoadPolicies(t) \/ CreateResourcePolicy(t) \/ SaveProfiles(t) PROVE RunOK'
  <2>1. \A u \in Tabs : run'[u] = Nothing \/ run'[u] = run[u]
    BY <1>2 DEF LoadPolicies, CreateResourcePolicy, SaveProfiles, Done, TypeOK
  <2>. QED
    BY <2>1 DEF RunOK, Nothing
<1>3. ASSUME NEW t \in Tabs, Write(t) PROVE RunOK'
  <2>1. \A u \in Tabs : run'[u] = Nothing \/ run'[u] = run[u] \/ run'[u] = [kind |-> "load"]
    BY <1>3 DEF Write, AfterWrite, TypeOK
  <2>. QED
    BY <2>1 DEF RunOK, Nothing
<1>4. CASE UNCHANGED run
  BY <1>4 DEF RunOK
<1>5. UNCHANGED vars \/ ClearStorage => UNCHANGED run
  BY DEF vars, ClearStorage
<1>6. ASSUME NEW t \in Tabs,
             EnsureDefault(t) \/ DeleteResourcePolicy(t) \/ SaveResourcePolicy(t) \/ SaveSignIn(t)
      PROVE  UNCHANGED run
  BY <1>6 DEF EnsureDefault, DeleteResourcePolicy, SaveResourcePolicy, SaveSignIn
<1>. QED
  BY <1>1, <1>2, <1>3, <1>4, <1>5, <1>6 DEF Next, Step

\* Only what a tab had in its buffer is stored.
LEMMA StoredStep ==
  ListOK(policies) /\ ReauthInRange /\ BufOK /\ [Next]_vars => ListOK(policies)' /\ ReauthInRange'
<1>. SUFFICES ASSUME ListOK(policies), ReauthInRange, BufOK, [Next]_vars
              PROVE  ListOK(policies)' /\ ReauthInRange'
  OBVIOUS
<1>1. CASE UNCHANGED <<policies, signIn, wiped>>
  BY <1>1 DEF ListOK, HasDefault, Distinct, IdsOf, ReauthInRange, ReadSignIn
<1>2. CASE ClearStorage
  <2>1. policies' = {} /\ signIn' = Nothing
    BY <1>2 DEF ClearStorage
  <2>2. ListOK(policies)'
    BY <2>1 DEF ListOK, HasDefault, Distinct
  <2>. QED
    BY <2>1, <2>2 DEF ReauthInRange, ReadSignIn, DefaultSignIn
<1>3. ASSUME NEW t \in Tabs, Write(t) PROVE ListOK(policies)' /\ ReauthInRange'
  <2>1. wiped' = wiped /\ (policies' = policies \/ FullOK(policies'))
    BY <1>3 DEF Write, BufOK, ListKinds
  <2>2. signIn' = signIn \/ InRange(signIn')
    BY <1>3 DEF Write, BufOK
  <2>3. ListOK(policies)'
    BY <2>1 DEF ListOK, FullOK, HasDefault, Distinct, IdsOf
  <2>4. ReauthInRange'
    <3>1. CASE signIn' = signIn
      BY <3>1 DEF ReauthInRange, ReadSignIn
    <3>2. CASE InRange(signIn') /\ signIn' # Nothing
      BY <3>2 DEF ReauthInRange, ReadSignIn, InRange
    <3>3. CASE signIn' = Nothing
      BY <3>3 DEF ReauthInRange, ReadSignIn, DefaultSignIn
    <3>. QED
      BY <2>2, <3>1, <3>2, <3>3
  <2>. QED
    BY <2>3, <2>4
<1>4. UNCHANGED <<policies, signIn, wiped>> \/ ClearStorage \/ \E t \in Tabs : Write(t)
  BY DEF Next, Step, vars, Begin, EnsureDefault, LoadPolicies, CreateResourcePolicy, DeleteResourcePolicy,
         SaveResourcePolicy, SaveSignIn, SaveProfiles
<1>. QED
  BY <1>1, <1>2, <1>3, <1>4

\* Creations apart, nothing but copies of known policies, with another mode at
\* most, comes up; a creation takes an id that nothing known has.
LEMMA KnownStep == TypeOK /\ KnownOK /\ [Next]_vars => KnownOK'
<1>. SUFFICES ASSUME TypeOK, KnownOK, [Next]_vars PROVE KnownOK'
  OBVIOUS
<1>. USE PolicyPagesAssumption
<1>. DEFINE Like(p) == \E q \in Known : q.id = p.id /\ q.name = p.name
<1>1. /\ Like(DefaultPolicy) /\ \A p \in policies : Like(p)
      /\ \A u \in Tabs : \A p : KnownTo(u, p) => Like(p)
  BY KnownMember
<1>. HIDE DEF Like
<1>2. ASSUME used \subseteq used', \A p \in policies' : Like(p),
             \A u \in Tabs : \A p : KnownTo(u, p)' => Like(p)
      PROVE  KnownOK'
  <2>1. \A p \in Known' : Like(p)
    BY <1>1, <1>2, KnownMemberNext
  <2>. QED
    BY <1>2, <2>1, KnownKept DEF Like
<1>3. ASSUME NEW t \in Tabs,
             \A u \in Tabs \ {t} : UNCHANGED <<held[u], run[u], buf[u]>>,
             used \subseteq used', \A p \in policies' : Like(p), \A p : KnownTo(t, p)' => Like(p)
      PROVE  KnownOK'
  <2>1. \A u \in Tabs \ {t} : \A p : KnownTo(u, p)' => KnownTo(u, p)
    BY <1>3 DEF KnownTo
  <2>. QED
    BY <1>1, <1>2, <1>3, <2>1
<1>4. "none" # "save" /\ "load" # "save" /\ "none" \notin ListKinds
  BY DEF ListKinds
<1>5. ASSUME NEW t \in Tabs, Begin(t) PROVE KnownOK'
  <2>1. PICK o \in Ops(t) :
          /\ run' = [run EXCEPT ![t] = o]
          /\ held' = IF o.kind = "save"
                     THEN [held EXCEPT ![t] = { IF p.id = o.policy.id THEN o.policy ELSE p : p \in @ }]
                     ELSE held
    BY <1>5 DEF Begin
  <2>2. UNCHANGED <<policies, used, buf>> /\ \A u \in Tabs \ {t} : UNCHANGED <<held[u], run[u], buf[u]>>
    BY <1>5, <2>1 DEF Begin, TypeOK
  <2>3. o.kind = "save" => Like(o.policy)
    <3>. SUFFICES ASSUME o.kind = "save" PROVE Like(o.policy)
      OBVIOUS
    <3>1. PICK p \in held[t] : o.policy.id = p.id /\ o.policy.name = p.name
      BY SaveOfHeld
    <3>2. p \in Known
      BY KnownMember DEF KnownTo
    <3>. QED
      BY <3>1, <3>2 DEF Like
  <2>4. run'[t] = o /\ \A p \in held'[t] : p \in held[t] \/ (o.kind = "save" /\ p = o.policy)
    BY <2>1 DEF TypeOK
  <2>5. \A p : KnownTo(t, p)' => KnownTo(t, p) \/ (o.kind = "save" /\ p = o.policy)
    BY <2>2, <2>4 DEF KnownTo
  <2>. QED
    BY <1>1, <1>3, <2>2, <2>3, <2>5
<1>6. ASSUME NEW t \in Tabs, NEW k, NEW v, WillWrite(t, k, v), UNCHANGED <<policies, used, run, held>>,
             k \in ListKinds => \A p \in v : Like(p)
      PROVE  KnownOK'
  <2>1. buf'[t] = [kind |-> k, value |-> v] /\ \A u \in Tabs \ {t} : UNCHANGED buf[u]
    BY <1>6 DEF WillWrite, TypeOK
  <2>2. \A p : KnownTo(t, p)' => KnownTo(t, p) \/ (k \in ListKinds /\ p \in v)
    BY <1>6, <2>1 DEF KnownTo
  <2>. QED
    BY <1>1, <1>3, <1>6, <2>1, <2>2
<1>a. ASSUME NEW t \in Tabs, UNCHANGED <<policies, used, held>>,
             run' = run \/ run' = [run EXCEPT ![t] = Nothing],
             NEW b \in {Nothing, Ensured}, buf' = [buf EXCEPT ![t] = b]
      PROVE  KnownOK'
  <2>1. /\ buf'[t] = b /\ b.kind \notin ListKinds /\ (run'[t] = run[t] \/ run'[t].kind = "none")
        /\ \A u \in Tabs \ {t} : UNCHANGED <<held[u], run[u], buf[u]>>
    BY <1>a DEF TypeOK, Nothing, Ensured, ListKinds
  <2>2. \A p : KnownTo(t, p)' => KnownTo(t, p)
    BY <1>4, <1>a, <2>1 DEF KnownTo
  <2>. QED
    BY <1>1, <1>3, <1>a, <2>1, <2>2
<1>7. ASSUME NEW t \in Tabs, EnsureDefault(t) PROVE KnownOK'
  <2>1. CASE DefaultId \notin IdsOf(policies)
    <3>1. WillWrite(t, "ensure", policies \cup {DefaultPolicy}) /\ UNCHANGED <<policies, used, run, held>>
      BY <1>7, <2>1 DEF EnsureDefault, WillWrite
    <3>2. \A p \in policies \cup {DefaultPolicy} : Like(p)
      BY <1>1
    <3>. QED
      BY <1>6, <3>1, <3>2
  <2>2. CASE DefaultId \in IdsOf(policies)
    BY <1>a, <1>7, <2>2 DEF EnsureDefault
  <2>. QED
    BY <2>1, <2>2
<1>8. ASSUME NEW t \in Tabs, DeleteResourcePolicy(t) PROVE KnownOK'
  <2>1. \A p \in { q \in policies : q.id # run[t].id } : Like(p)
    BY <1>1
  <2>. QED
    BY <1>6, <1>8, <2>1 DEF DeleteResourcePolicy
<1>9. ASSUME NEW t \in Tabs, SaveResourcePolicy(t) PROVE KnownOK'
  <2>1. Like(run[t].policy)
    BY <1>1, <1>9 DEF SaveResourcePolicy, Ready, KnownTo
  <2>2. \A p \in { IF q.id = run[t].policy.id THEN run[t].policy ELSE q : q \in policies } : Like(p)
    BY <1>1, <2>1
  <2>. QED
    BY <1>6, <1>9, <2>2 DEF SaveResourcePolicy
<1>10. ASSUME NEW t \in Tabs, SaveSignIn(t) PROVE KnownOK'
  <2>1. PICK v : WillWrite(t, "signIn", v)
    BY <1>10 DEF SaveSignIn
  <2>. QED
    BY <1>6, <1>10, <2>1 DEF SaveSignIn, ListKinds
<1>11. ASSUME NEW t \in Tabs, UNCHANGED <<policies, used>>, buf' = buf \/ buf' = [buf EXCEPT ![t] = Nothing],
              run' = [run EXCEPT ![t] = Nothing], held' = held \/ held' = [held EXCEPT ![t] = policies]
       PROVE  KnownOK'
  <2>1. /\ run'[t].kind = "none" /\ (buf'[t] = buf[t] \/ buf'[t].kind = "none")
        /\ \A u \in Tabs \ {t} : UNCHANGED <<held[u], run[u], buf[u]>>
    BY <1>11 DEF TypeOK, Nothing
  <2>2. \A p : KnownTo(t, p)' => KnownTo(t, p) \/ p \in policies
    BY <1>4, <1>11, <2>1 DEF KnownTo, TypeOK
  <2>. QED
    BY <1>1, <1>3, <1>11, <2>1, <2>2
<1>12. ASSUME NEW t \in Tabs, SaveProfiles(t) PROVE KnownOK'
  <2>1. CASE \E v : WillWrite(t, "profiles", v) /\ UNCHANGED run
    BY <1>6, <1>12, <2>1 DEF SaveProfiles, ListKinds
  <2>2. CASE UNCHANGED buf /\ run' = [run EXCEPT ![t] = Nothing]
    BY <1>11, <1>12, <2>2 DEF SaveProfiles
  <2>. QED
    BY <1>12, <2>1, <2>2 DEF SaveProfiles
<1>13. ASSUME NEW t \in Tabs, LoadPolicies(t) PROVE KnownOK'
  BY <1>11, <1>13 DEF LoadPolicies, Done
<1>14. ASSUME NEW t \in Tabs, CreateResourcePolicy(t) PROVE KnownOK'
  <2>1. CASE NameTaken(run[t].name)
    BY <1>11, <1>14, <2>1 DEF CreateResourcePolicy, Done
  <2>2. CASE ~NameTaken(run[t].name)
    <3>. DEFINE new(i) == [id |-> i, name |-> run[t].name, isDefault |-> FALSE, mode |-> "any"]
    <3>1. PICK i \in Ids \ used : used' = used \cup {i} /\ WillWrite(t, "policies", policies \cup {new(i)})
      BY <1>14, <2>2 DEF CreateResourcePolicy
    <3>2. new(i).id = i
      OBVIOUS
    <3>. HIDE DEF new
    <3>3. UNCHANGED <<policies, run, held>>
      BY <1>14, <2>2 DEF CreateResourcePolicy
    <3>4. buf'[t].value = policies \cup {new(i)} /\ \A u \in Tabs \ {t} : UNCHANGED buf[u]
      BY <3>1 DEF WillWrite, TypeOK
    <3>5. \A u \in Tabs : \A p : KnownTo(u, p)' => KnownTo(u, p) \/ p \in policies \/ p = new(i)
      BY <3>3, <3>4 DEF KnownTo
    <3>6. \A p \in Known' : p \in Known \/ p = new(i)
      BY <3>3, <3>5, KnownMember, KnownMemberNext
    <3>7. \A p \in Known : p.id # i
      BY DEF KnownOK
    <3>. QED
      BY <3>1, <3>2, <3>6, <3>7 DEF KnownOK
  <2>. QED
    BY <2>1, <2>2
<1>15. ASSUME NEW t \in Tabs, Write(t) PROVE KnownOK'
  <2>1. /\ buf'[t] \in {Nothing, Ensured} /\ run'[t] \in {run[t], [kind |-> "load"], Nothing} /\ UNCHANGED <<used, held>>
        /\ \A u \in Tabs \ {t} : UNCHANGED <<held[u], run[u], buf[u]>>
    BY <1>15 DEF Write, AfterWrite, TypeOK
  <2>2. \A p \in policies' : p \in policies \/ KnownTo(t, p)
    BY <1>15 DEF Write, KnownTo, ListKinds
  <2>3. Nothing.kind = "none" /\ Ensured.kind \notin ListKinds
    BY DEF Nothing, Ensured, ListKinds
  <2>4. \A p : KnownTo(t, p)' => KnownTo(t, p)
    BY <1>4, <2>1, <2>3 DEF KnownTo
  <2>. QED
    BY <1>1, <1>3, <2>1, <2>2, <2>4
<1>16. CASE UNCHANGED <<used, run, buf, held>> /\ (policies' = policies \/ policies' = {})
  BY <1>1, <1>2, <1>16 DEF KnownTo
<1>17. UNCHANGED vars \/ ClearStorage
         => UNCHANGED <<used, run, buf, held>> /\ (policies' = policies \/ policies' = {})
  BY DEF vars, ClearStorage
<1>. QED
  BY <1>5, <1>7, <1>8, <1>9, <1>10, <1>12, <1>13, <1>14, <1>15, <1>16, <1>17 DEF Next, Step

-----------------------------------------------------------------------------
(* The invariant and what follows from it.                                 *)

\* An empty storage is well formed.
LEMMA InitInv == Init => IInv
<1>. SUFFICES ASSUME Init PROVE IInv
  OBVIOUS
<1>1. TypeOK
  BY DEF Init, TypeOK, Buffers
<1>2. ListOK(policies) /\ ReauthInRange
  BY DEF Init, ListOK, HasDefault, Distinct, ReauthInRange, ReadSignIn, DefaultSignIn
<1>3. BufOK /\ EnsuredOK /\ RunOK
  BY DEF Init, BufOK, EnsuredOK, RunOK, Nothing, Ensured, ListKinds
<1>4. \A p \in Known : p = DefaultPolicy
  BY KnownMember DEF Init, KnownTo, Nothing, ListKinds
<1>5. KnownOK
  BY <1>4 DEF KnownOK, DefaultPolicy
<1>. QED
  BY <1>1, <1>2, <1>3, <1>5 DEF IInv

\* The inductive invariant holds throughout.
LEMMA Invariance == Spec => []IInv
<1>1. IInv /\ [Next]_vars => IInv'
  BY TypeStep, BufStep, EnsuredStep, RunStep, StoredStep, KnownStep DEF IInv
<1>. QED
  BY <1>1, InitInv, PTL DEF Spec

\* Whichever tabs read and write localStorage in between and whenever it is
\* cleared, the sign-in policy is in range, and the stored list holds the default
\* policy and its ids and names differ unless a clear fell between a check for
\* the default and the read after it (resource-policies.ts, sign-in-policy.ts).
THEOREM StorageOKTheorem == Spec => []StorageOK
<1>1. IInv => StorageOK
  BY DEF IInv, ListOK, StorageOK, DefaultPresent, PoliciesDistinct
<1>. QED
  BY <1>1, Invariance, PTL

\* A save computes its list from what is stored when it reads: it puts no policy
\* back that was deleted before (saveResourcePolicy maps over the list).
THEOREM NoRevivalTheorem == Spec => NoRevival
<1>. DEFINE Fresh(t) == (buf[t].kind # "policies" /\ buf'[t].kind = "policies")
                          => IdsOf(buf'[t].value) \subseteq IdsOf(policies) \cup (Ids \ used)
<1>1. ASSUME TypeOK, [Next]_vars, NEW t \in Tabs PROVE Fresh(t)
  <2>. SUFFICES ASSUME buf[t].kind # "policies", buf'[t].kind = "policies"
                PROVE  IdsOf(buf'[t].value) \subseteq IdsOf(policies) \cup (Ids \ used)
    OBVIOUS
  <2>1. buf'[t] # buf[t] /\ Nothing.kind = "none"
    BY DEF Nothing
  <2>2. ASSUME NEW u \in Tabs, NEW k, NEW v, WillWrite(u, k, v) PROVE k = "policies" /\ buf'[t].value = v
    BY <1>1, <2>1, <2>2 DEF WillWrite, TypeOK
  <2>a. ASSUME NEW u \in Tabs, buf' = [buf EXCEPT ![u] = Nothing] \/ buf' = [buf EXCEPT ![u] = Ensured] PROVE FALSE
    BY <1>1, <2>1, <2>a DEF TypeOK, Nothing, Ensured
  <2>3. ASSUME NEW u \in Tabs, CreateResourcePolicy(u) PROVE IdsOf(buf'[t].value) \subseteq IdsOf(policies) \cup (Ids \ used)
    <3>1. PICK i \in Ids \ used :
            WillWrite(u, "policies",
                      policies \cup {[id |-> i, name |-> run[u].name, isDefault |-> FALSE, mode |-> "any"]})
      BY <2>a, <2>3 DEF CreateResourcePolicy, Done
    <3>2. buf'[t].value = policies \cup {[id |-> i, name |-> run[u].name, isDefault |-> FALSE, mode |-> "any"]}
      BY <2>2, <3>1
    <3>. QED
      BY <3>2 DEF IdsOf
  <2>4. ASSUME NEW u \in Tabs, DeleteResourcePolicy(u) PROVE IdsOf(buf'[t].value) \subseteq IdsOf(policies)
    <3>1. buf'[t].value = { p \in policies : p.id # run[u].id }
      BY <2>2, <2>4 DEF DeleteResourcePolicy
    <3>. QED
      BY <3>1 DEF IdsOf
  <2>5. ASSUME NEW u \in Tabs, SaveResourcePolicy(u) PROVE IdsOf(buf'[t].value) \subseteq IdsOf(policies)
    <3>1. buf'[t].value = { IF p.id = run[u].policy.id THEN run[u].policy ELSE p : p \in policies }
      BY <2>2, <2>5 DEF SaveResourcePolicy
    <3>. QED
      BY <3>1 DEF IdsOf
  <2>6. ASSUME NEW u \in Tabs, EnsureDefault(u) \/ SaveSignIn(u) PROVE FALSE
    <3>1. CASE EnsureDefault(u)
      <4>1. buf' = [buf EXCEPT ![u] = Ensured] \/ WillWrite(u, "ensure", policies \cup {DefaultPolicy})
        BY <3>1 DEF EnsureDefault, WillWrite
      <4>. QED
        BY <2>2, <2>a, <4>1
    <3>2. CASE SaveSignIn(u)
      <4>1. \E v : WillWrite(u, "signIn", v)
        BY <3>2 DEF SaveSignIn
      <4>. QED
        BY <2>2, <4>1
    <3>. QED
      BY <2>6, <3>1, <3>2
  <2>7. ASSUME NEW u \in Tabs, SaveProfiles(u) PROVE FALSE
    <3>1. \E v : WillWrite(u, "profiles", v)
      BY <2>1, <2>7 DEF SaveProfiles
    <3>. QED
      BY <2>2, <3>1
  <2>8. ASSUME NEW u \in Tabs, Write(u) PROVE FALSE
    <3>1. buf' = [buf EXCEPT ![u] = Nothing] \/ buf' = [buf EXCEPT ![u] = Ensured]
      BY <2>8 DEF Write
    <3>. QED
      BY <2>a, <3>1
  <2>9. ASSUME NEW u \in Tabs, Begin(u) \/ LoadPolicies(u) PROVE FALSE
    BY <2>1, <2>a, <2>9 DEF Begin, LoadPolicies, Done
  <2>10. ~ClearStorage /\ ~UNCHANGED vars
    BY <2>1 DEF ClearStorage, vars
  <2>. QED
    BY <1>1, <2>3, <2>4, <2>5, <2>6, <2>7, <2>8, <2>9, <2>10 DEF Next, Step
<1>2. TypeOK /\ [Next]_vars => [\A t \in Tabs : Fresh(t)]_vars
  BY <1>1
<1>3. IInv => TypeOK
  BY DEF IInv
<1>. QED
  BY <1>2, <1>3, Invariance, PTL DEF Spec, NoRevival

-----------------------------------------------------------------------------
(***************************************************************************)
(* Proofs about ConsoleStore, the console's own store, for any columns     *)
(* that were there before and any bounds.                                  *)
(***************************************************************************)

TableNames == {"users", "groups", "members", "networks", "conns", "resources",
               "rules", "ruleGroups", "seeded"}

HistNames == {"ops", "crashes", "threw", "torn", "deleted", "old"}

\* The tables, one by one: every connector, resource, rule and member leads
\* to a row.
StoreShape ==
    /\ tables = [n \in TableNames |-> tables[n]]
    /\ tables.seeded \in BOOLEAN
    /\ tables.conns \in [DOMAIN tables.conns -> [net : tables.networks, installed : BOOLEAN, seen : BOOLEAN, policy : Nat]]
    /\ tables.resources \in [DOMAIN tables.resources -> tables.networks]
    /\ tables.rules \in [DOMAIN tables.rules -> [res : DOMAIN tables.resources, on : BOOLEAN]]
    /\ tables.members \subseteq tables.groups \X tables.users
    /\ IsFiniteSet(tables.users) /\ IsFiniteSet(tables.members)

\* What happened, and the rows a legacy table may have.
PastShape ==
    /\ hist = [n \in HistNames |-> hist[n]]
    /\ hist.ops \in Nat /\ hist.crashes \in Nat /\ hist.threw \in BOOLEAN
    /\ hist.old \subseteq LegacyRows /\ legacy \subseteq LegacyRows

\* The name of a rule: by the millisecond it was created in or, if
\* addGroupResources made it, by the group and the resource as well.
Plain(k) == k = << "rule", k[2] >> /\ k[2] \in Nat
Granted(k) == k = << "rule", k[2], k[3], k[4] >> /\ k[2] \in Nat \ (0 .. 9)

\* A rule of addGroupResources is about the resource and allows the group it
\* is named after, and no other has the same resource and group.
RulesShape ==
    /\ \A k \in DOMAIN tables.rules :
          \/ Plain(k)
          \/ Granted(k) /\ tables.rules[k].res = k[4] /\ << k, k[3] >> \in tables.ruleGroups
    /\ \A j, k \in DOMAIN tables.rules :
          (Granted(j) /\ Granted(k) /\ j[3] = k[3] /\ j[4] = k[4]) => j = k

\* An access_rule_groups row is a pair of a rule, new or legacy, and a group.
GrantsShape ==
    \A rg \in tables.ruleGroups : /\ rg = << rg[1], rg[2] >> /\ rg[2] \in tables.groups
                                  /\ rg[1] \in DOMAIN tables.rules \cup { row.id : row \in legacy }

\* What each step of getDb may find in the file.
StepShape ==
    /\ rulesTab # "legacy" => legacy = {}
    /\ rulesTab = "legacy" => legacy = hist.old
    /\ rulesTab # "current" => tables.rules = Empty /\ hist.deleted = {}
    /\ pc \in {"copy", "drop"} => rulesTab = "legacy"
    /\ pc = "rename" => rulesTab = "dropped"
    /\ rulesTab = "dropped" => pc \in {"rename", "down", "schema"}
    /\ rulesTab = "none" => pc \in {"down", "schema"} /\ hist.old = {}
    /\ pc = "seed" => rulesTab = "current"

\* A file that is not seeded is new; a seeded one keeps the rows that no
\* function deletes.
SeedShape ==
    /\ ~tables.seeded => /\ tables = NoTables /\ missing = {} /\ hist.old = {} /\ hist.deleted = {}
                         /\ pc \notin {"ready", "backfill_installed", "backfill_last_seen_at"}
                         /\ rulesTab \in {"none", "current"}
    /\ tables.seeded => /\ SeedSites.conns \subseteq DOMAIN tables.conns
                        /\ SeedSites.resources \subseteq DOMAIN tables.resources

AfterLastSeen == {"backfill_last_seen_at", "rules", "copy", "drop", "rename", "seed", "ready"}

\* A column that a start has passed is there; a connector lacks a value only
\* before the column and its UPDATE, or for good when a stop tore the pair.
BackfillShape ==
    /\ (pc \notin {"down", "schema", "installed"} /\ ~hist.threw) => "installed" \notin missing
    /\ (pc \in AfterLastSeen /\ ~hist.threw) => "last_seen_at" \notin missing
    /\ tables.seeded =>
         \A c \in SeedSites.conns :
            /\ "backfill_installed" \notin hist.torn =>
                   (tables.conns[c].installed \/ "installed" \in missing \/ pc = "backfill_installed")
            /\ "backfill_last_seen_at" \notin hist.torn =>
                   (tables.conns[c].seen \/ "last_seen_at" \in missing \/ pc = "backfill_last_seen_at")
    /\ hist.torn # {} => hist.crashes >= 1
    /\ {"backfill_installed", "backfill_last_seen_at"} \subseteq hist.torn => hist.crashes >= 2

OldGroupIds == { row.id : row \in { r \in hist.old : r.type = "GROUP" } }
OldUserIds == { row.id : row \in { r \in hist.old : r.type = "USER" } }

\* Where the legacy rules of groups are, from the old table to the new one.
LegacyShape ==
    /\ staged \subseteq OldGroupIds
    /\ pc = "drop" => OldGroupIds \subseteq staged
    /\ (rulesTab = "dropped" /\ "rename" \notin hist.torn) => (pc = "rename" /\ OldGroupIds \subseteq staged)
    /\ (rulesTab = "current" /\ "rename" \notin hist.torn) => OldGroupIds \subseteq DOMAIN tables.rules \cup hist.deleted
    /\ DOMAIN tables.rules \cap OldUserIds = {}
    /\ (pc = "ready" /\ ~hist.threw) => rulesTab = "current"

\* No legacy rule of a group is lost, and the only grants under legacy ids are the
\* legacy rows' own, which the DROP takes away.
KeptShape ==
    /\ OldGroupIds \subseteq { row.id : row \in legacy } \cup staged \cup DOMAIN tables.rules \cup hist.deleted
    /\ \A rg \in tables.ruleGroups :
          rg[1] \in { row.id : row \in hist.old } =>
              rulesTab = "legacy" /\ [id |-> rg[1], type |-> "GROUP", subject |-> rg[2]] \in hist.old

StoreInv ==
    /\ StoreTypeOK /\ PastShape /\ StoreShape /\ RulesShape /\ GrantsShape /\ StepShape
    /\ SeedShape /\ BackfillShape /\ LegacyShape /\ KeptShape /\ DeletedSeedStaysDeleted

-----------------------------------------------------------------------------
(* Names of rows.                                                          *)

\* Legacy rows: their ids, and those of users' rules are no group's.
LEMMA LegacyIds ==
  ASSUME NEW row \in LegacyRows
  PROVE  /\ Plain(row.id) /\ row.id[2] \in 0 .. 9
         /\ row \in LegacyRow
  BY DEF LegacyRows, Plain, LegacyRow

LEMMA OneTypePerId ==
  ASSUME NEW p \in LegacyRows, NEW q \in LegacyRows, p.id = q.id
  PROVE  p.type = q.type
<1>1. << "rule", 1 >> # << "rule", 2 >> /\ << "rule", 3 >> # << "rule", 2 >>
      /\ << "rule", 3 >> # << "rule", 1 >>
  BY SMT
<1>2. QED BY <1>1 DEF LegacyRows

LEMMA OneKindOfName == ASSUME NEW k, Plain(k) PROVE ~Granted(k) /\ Len(k) # 4
<1>1. PICK a : a = k[2]
  OBVIOUS
<1>2. k = << "rule", a >> /\ Len(<< "rule", a >>) = 2
  BY <1>1 DEF Plain
<1>3. \A b, c, d : Len(<< "rule", b, c, d >>) = 4
  OBVIOUS
<1>4. QED BY <1>2, <1>3 DEF Granted

LEMMA SeedRuleFacts ==
  /\ \A k \in SeedRules : Plain(k) /\ k[2] \in 0 .. 9
  /\ SeedRuleRows \in [SeedRules -> [res : SeedSites.resources, on : BOOLEAN]]
  /\ \A g \in SeedGrants : g = << g[1], g[2] >> /\ g[1] \in SeedRules /\ g[2] \in SeedPeople.groups
<1>1. \A k \in SeedRules : Plain(k) /\ k[2] \in 1 .. 2
  BY DEF SeedRules, Plain
<1>2. \A k \in SeedRules : SeedRow(k[2]) \in [res : SeedSites.resources, on : BOOLEAN]
  BY <1>1 DEF SeedRow, SeedSites, SeedRules
<1>3. SeedRuleRows \in [SeedRules -> [res : SeedSites.resources, on : BOOLEAN]]
  BY <1>2 DEF SeedRuleRows
<1>4. QED BY <1>1, <1>3 DEF SeedGrants, SeedPeople

-----------------------------------------------------------------------------
(* A file as it is found.                                                  *)

\* The fields of a file just seeded.
LEMMA SeededFields ==
  ASSUME NEW conn, NEW rules, NEW grants, NEW s, s = Seeded(NoTables, conn, rules, grants)
  PROVE  /\ s = [n \in TableNames |-> s[n]]
         /\ s.users = SeedPeople.users /\ s.groups = SeedPeople.groups /\ s.members = SeedPeople.members
         /\ s.networks = SeedSites.networks /\ s.conns = [c \in SeedSites.conns |-> conn]
         /\ s.resources = [r \in SeedSites.resources |-> <<"net", 1>>]
         /\ s.rules = rules /\ s.ruleGroups = grants /\ s.seeded = TRUE
  BY DEF Seeded, NoTables, TableNames

LEMMA NoTablesFields ==
  /\ NoTables = [n \in TableNames |-> NoTables[n]]
  /\ NoTables.users = {} /\ NoTables.groups = {} /\ NoTables.members = {} /\ NoTables.networks = {}
  /\ NoTables.conns = Empty /\ NoTables.resources = Empty /\ NoTables.rules = Empty
  /\ NoTables.ruleGroups = {} /\ NoTables.seeded = FALSE
  BY DEF NoTables, TableNames

LEMMA SeedFinite == IsFiniteSet(SeedPeople.users) /\ IsFiniteSet(SeedPeople.members)
<1>1. SeedPeople.users = {<<"usr", 1>>} \cup {<<"usr", 2>>} /\ SeedPeople.members = {<< <<"grp", 1>>, <<"usr", 1>> >>}
  BY DEF SeedPeople
<1>2. IsFiniteSet({<<"usr", 1>>}) /\ IsFiniteSet({<<"usr", 2>>}) /\ IsFiniteSet({<< <<"grp", 1>>, <<"usr", 1>> >>})
  BY FS_Singleton
<1>3. IsFiniteSet({<<"usr", 1>>} \cup {<<"usr", 2>>})
  BY <1>2, FS_Union
<1>4. QED BY <1>1, <1>2, <1>3

\* A seeded file in which every row leads to a row.
LEMMA SeededShape ==
  ASSUME NEW conn \in [net : SeedSites.networks, installed : BOOLEAN, seen : BOOLEAN, policy : Nat],
         NEW rules, NEW grants, tables = Seeded(NoTables, conn, rules, grants),
         rules \in [DOMAIN rules -> [res : SeedSites.resources, on : BOOLEAN]]
  PROVE  /\ tables = [n \in TableNames |-> tables[n]]
         /\ tables.seeded \in BOOLEAN
         /\ tables.conns \in [DOMAIN tables.conns -> [net : tables.networks, installed : BOOLEAN, seen : BOOLEAN, policy : Nat]]
         /\ tables.resources \in [DOMAIN tables.resources -> tables.networks]
         /\ tables.rules \in [DOMAIN tables.rules -> [res : DOMAIN tables.resources, on : BOOLEAN]]
         /\ tables.members \subseteq tables.groups \X tables.users
         /\ IsFiniteSet(tables.users) /\ IsFiniteSet(tables.members)
<1>1. /\ tables = [n \in TableNames |-> tables[n]]
      /\ tables.users = SeedPeople.users /\ tables.groups = SeedPeople.groups /\ tables.members = SeedPeople.members
      /\ tables.networks = SeedSites.networks /\ tables.conns = [c \in SeedSites.conns |-> conn]
      /\ tables.resources = [r \in SeedSites.resources |-> <<"net", 1>>]
      /\ tables.rules = rules /\ tables.ruleGroups = grants /\ tables.seeded = TRUE
  BY DEF Seeded, NoTables, TableNames
<1>2. SeedPeople.members \subseteq SeedPeople.groups \X SeedPeople.users
  BY DEF SeedPeople
<1>3. <<"net", 1>> \in SeedSites.networks
  BY DEF SeedSites
<1>4. tables.conns \in [DOMAIN tables.conns -> [net : tables.networks, installed : BOOLEAN, seen : BOOLEAN, policy : Nat]]
  <2>1. PICK S : S = SeedSites.conns
    OBVIOUS
  <2>2. tables.conns = [c \in S |-> conn]
    BY <1>1, <2>1
  <2>3. conn \in [net : tables.networks, installed : BOOLEAN, seen : BOOLEAN, policy : Nat]
    BY <1>1
  <2>4. QED BY <2>2, <2>3
<1>5. tables.resources \in [DOMAIN tables.resources -> tables.networks] /\ DOMAIN tables.resources = SeedSites.resources
  <2>1. PICK S : S = SeedSites.resources
    OBVIOUS
  <2>2. tables.resources = [r \in S |-> <<"net", 1>>]
    BY <1>1, <2>1
  <2>3. <<"net", 1>> \in tables.networks
    BY <1>1, <1>3
  <2>4. QED BY <2>1, <2>2, <2>3
<1>6. tables.rules \in [DOMAIN tables.rules -> [res : DOMAIN tables.resources, on : BOOLEAN]]
  BY <1>1, <1>5
<1>7. QED BY <1>1, <1>2, <1>4, <1>5, <1>6, SeedFinite

\* The old connector's row.
LEMMA OldConn ==
  ASSUME NEW a \in BOOLEAN, NEW b \in BOOLEAN
  PROVE  [SeedConn EXCEPT !.installed = a, !.seen = b]
            \in [net : SeedSites.networks, installed : BOOLEAN, seen : BOOLEAN, policy : Nat]
  BY DEF SeedConn, SeedSites

LEMMA StoreInitInv == StoreInit => StoreInv
<1> SUFFICES ASSUME StoreInit PROVE StoreInv
  OBVIOUS
<1>h. /\ hist = [n \in HistNames |-> hist[n]]
      /\ hist.ops = 0 /\ hist.crashes = 0 /\ hist.threw = FALSE /\ hist.torn = {} /\ hist.deleted = {}
      /\ hist.old = legacy
  BY DEF StoreInit, HistNames
<1>t. pc = "down" /\ clock \in 0 .. MaxTime /\ staged = {}
  BY StoreAssumption DEF StoreInit
<1>d. DeletedSeedStaysDeleted
  BY <1>h DEF DeletedSeedStaysDeleted
<1>p. PastShape
  <2>1. legacy \subseteq LegacyRows
    BY DEF StoreInit
  <2>2. hist.threw \in BOOLEAN
    BY DEF StoreInit
  <2>3. QED BY <1>h, <2>1, <2>2 DEF PastShape
<1>1. CASE missing = {} /\ rulesTab = "none" /\ legacy = {} /\ tables = NoTables
  <2>1. StoreTypeOK
    BY <1>t, <1>1, NoTablesFields DEF StoreTypeOK
  <2>2. DOMAIN Empty = {}
    BY DEF Empty
  <2>3. StoreShape
    <3>1. tables.conns \in [DOMAIN tables.conns -> [net : tables.networks, installed : BOOLEAN, seen : BOOLEAN, policy : Nat]]
      BY <1>1, NoTablesFields, <2>2 DEF Empty
    <3>2. /\ tables.resources \in [DOMAIN tables.resources -> tables.networks]
          /\ tables.rules \in [DOMAIN tables.rules -> [res : DOMAIN tables.resources, on : BOOLEAN]]
      BY <1>1, NoTablesFields, <2>2 DEF Empty
    <3>3. IsFiniteSet(tables.users) /\ IsFiniteSet(tables.members)
      BY <1>1, NoTablesFields, FS_EmptySet
    <3>4. tables = [n \in TableNames |-> tables[n]] /\ tables.seeded \in BOOLEAN /\ tables.members \subseteq tables.groups \X tables.users
      BY <1>1, NoTablesFields
    <3>5. QED BY <3>1, <3>2, <3>3, <3>4 DEF StoreShape
  <2>4. RulesShape /\ GrantsShape
    BY <1>1, <2>2, NoTablesFields DEF RulesShape, GrantsShape
  <2>5. StepShape /\ SeedShape /\ BackfillShape
    BY <1>h, <1>t, <1>1, NoTablesFields DEF StepShape, SeedShape, BackfillShape, AfterLastSeen
  <2>6. LegacyShape
    BY <1>h, <1>t, <1>1, <2>2, NoTablesFields DEF LegacyShape, OldGroupIds, OldUserIds
  <2>k. KeptShape
    BY <1>h, <1>1 DEF KeptShape, OldGroupIds
  <2>7. QED BY <1>d, <1>p, <2>1, <2>3, <2>4, <2>5, <2>6, <2>k DEF StoreInv
<1>2. CASE ~(missing = {} /\ rulesTab = "none" /\ legacy = {} /\ tables = NoTables)
  <2>a. PICK conn, rules, grants :
          /\ conn = [SeedConn EXCEPT !.installed = "installed" \notin missing, !.seen = "last_seen_at" \notin missing]
          /\ tables = Seeded(NoTables, conn, rules, grants)
          /\ \/ rulesTab = "legacy" /\ legacy \in SUBSET LegacyRows /\ rules = Empty /\ grants = {}
             \/ rulesTab = "current" /\ legacy = {} /\ rules = SeedRuleRows /\ grants = SeedGrants
    BY <1>2 DEF StoreInit
  <2>b. conn \in [net : SeedSites.networks, installed : BOOLEAN, seen : BOOLEAN, policy : Nat]
    BY <2>a, OldConn
  <2>c. conn.installed = ("installed" \notin missing) /\ conn.seen = ("last_seen_at" \notin missing)
    BY <2>a DEF SeedConn
  <2>d. rules \in [DOMAIN rules -> [res : SeedSites.resources, on : BOOLEAN]]
    BY <2>a, SeedRuleFacts DEF Empty
  <2>e. /\ tables.users = SeedPeople.users /\ tables.groups = SeedPeople.groups /\ tables.members = SeedPeople.members
        /\ tables.networks = SeedSites.networks /\ tables.conns = [c \in SeedSites.conns |-> conn]
        /\ tables.resources = [r \in SeedSites.resources |-> <<"net", 1>>]
        /\ tables.rules = rules /\ tables.ruleGroups = grants /\ tables.seeded = TRUE
    BY <2>a DEF Seeded, NoTables, TableNames
  <2>f. missing \subseteq Columns
    BY StoreAssumption, <1>2 DEF StoreInit
  <2>g. legacy \subseteq LegacyRows
    BY <2>a
  <2>1. StoreTypeOK
    BY <1>t, <2>a, <2>e, <2>f, <2>g, LegacyIds DEF StoreTypeOK
  <2>2. StoreShape
    <3>1. /\ tables = [n \in TableNames |-> tables[n]]
          /\ tables.seeded \in BOOLEAN
          /\ tables.conns \in [DOMAIN tables.conns -> [net : tables.networks, installed : BOOLEAN, seen : BOOLEAN, policy : Nat]]
          /\ tables.resources \in [DOMAIN tables.resources -> tables.networks]
          /\ tables.rules \in [DOMAIN tables.rules -> [res : DOMAIN tables.resources, on : BOOLEAN]]
          /\ tables.members \subseteq tables.groups \X tables.users
          /\ IsFiniteSet(tables.users) /\ IsFiniteSet(tables.members)
      BY <2>a, <2>b, <2>d, SeededShape
    <3>2. QED BY <3>1 DEF StoreShape
  <2>3. DOMAIN tables.rules = {} \/ (DOMAIN tables.rules = SeedRules /\ rulesTab = "current" /\ legacy = {})
    BY <2>a, <2>e, SeedRuleFacts DEF Empty
  <2>4. RulesShape
    BY <2>3, SeedRuleFacts, OneKindOfName DEF RulesShape
  <2>5. GrantsShape
    BY <2>a, <2>e, <2>3, SeedRuleFacts DEF GrantsShape
  <2>6. StepShape
    BY <1>h, <1>t, <2>a, <2>e DEF StepShape
  <2>7. SeedShape
    BY <2>e DEF SeedShape
  <2>8. BackfillShape
    BY <1>h, <1>t, <2>c, <2>e DEF BackfillShape, AfterLastSeen
  <2>9. LegacyShape
    BY <1>h, <1>t, <2>a, <2>3 DEF LegacyShape, OldGroupIds, OldUserIds
  <2>k. KeptShape
    BY <1>h, <2>a, <2>e DEF KeptShape, OldGroupIds
  <2>10. QED BY <1>d, <1>p, <2>1, <2>2, <2>4, <2>5, <2>6, <2>7, <2>8, <2>9, <2>k DEF StoreInv
<1>3. QED BY <1>1, <1>2

-----------------------------------------------------------------------------
(* Steps of getDb that leave the rows alone.                               *)

\* The order of the columns.
LEMMA ColumnFacts ==
  ASSUME NEW i \in DOMAIN ColumnOrder
  PROVE  /\ ColumnOrder[i] \in Columns
         /\ AfterColumn(i) \in (Columns \ {"installed", "enabled"}) \cup {"rules"}
         /\ AfterColumn(i) = "rules" => ColumnOrder[i] = "last_seen_at"
<1>1. DOMAIN ColumnOrder = 1 .. 8 /\ Len(ColumnOrder) = 8
  BY DEF ColumnOrder
<1>2. /\ ColumnOrder[1] = "installed" /\ ColumnOrder[2] = "certificate_identity"
      /\ ColumnOrder[3] = "protocol" /\ ColumnOrder[4] = "port_from" /\ ColumnOrder[5] = "port_to"
      /\ ColumnOrder[6] = "firewall_status" /\ ColumnOrder[7] = "last_policy_version"
      /\ ColumnOrder[8] = "last_seen_at"
  BY DEF ColumnOrder
<1>3. /\ ColumnOrder[i] \in Columns
      /\ \A j \in 1 .. 8 : ColumnOrder[j] \in Columns
  BY <1>1 DEF Columns
<1>4. i = 1 \/ i = 2 \/ i = 3 \/ i = 4 \/ i = 5 \/ i = 6 \/ i = 7 \/ i = 8
  BY <1>1
<1>5. i # 8 => AfterColumn(i) = ColumnOrder[i + 1]
  BY <1>1 DEF AfterColumn
<1>6. i = 8 => AfterColumn(i) = "rules"
  BY <1>1 DEF AfterColumn
<1>7. \A j \in 2 .. 8 : ColumnOrder[j] \in Columns \ {"installed", "enabled"}
  <2>1. \A j \in 2 .. 8 : j = 2 \/ j = 3 \/ j = 4 \/ j = 5 \/ j = 6 \/ j = 7 \/ j = 8
    OBVIOUS
  <2>2. QED BY <1>2, <1>3, <2>1
<1>8. i # 8 => AfterColumn(i) \in Columns \ {"installed", "enabled"}
  BY <1>1, <1>5, <1>7
<1>9. "rules" \notin Columns
  BY <1>1, <1>2, <1>3 DEF Columns, ColumnOrder
<1>10. QED BY <1>2, <1>3, <1>6, <1>8, <1>9

\* The names of columns and of the other steps are different.
LEMMA ColumnNames ==
  /\ Columns \cap {"down", "ready", "schema", "backfill_installed", "backfill_last_seen_at",
                 "rules", "copy", "drop", "rename", "seed"} = {}
  /\ ColumnOrder[1] = "installed" /\ ColumnOrder[2] = "certificate_identity"
  /\ "installed" \in Columns /\ "certificate_identity" \in Columns /\ "last_seen_at" \in Columns
<1>1. Columns = {"installed", "certificate_identity", "protocol", "port_from", "port_to",
               "firewall_status", "last_policy_version", "last_seen_at", "enabled"}
  <2>1. DOMAIN ColumnOrder = 1 .. 8
    BY DEF ColumnOrder
  <2>2. \A j \in 1 .. 8 : j = 1 \/ j = 2 \/ j = 3 \/ j = 4 \/ j = 5 \/ j = 6 \/ j = 7 \/ j = 8
    OBVIOUS
  <2>3. /\ ColumnOrder[1] = "installed" /\ ColumnOrder[2] = "certificate_identity"
        /\ ColumnOrder[3] = "protocol" /\ ColumnOrder[4] = "port_from" /\ ColumnOrder[5] = "port_to"
        /\ ColumnOrder[6] = "firewall_status" /\ ColumnOrder[7] = "last_policy_version"
        /\ ColumnOrder[8] = "last_seen_at"
    BY DEF ColumnOrder
  <2>4. QED BY <2>1, <2>2, <2>3 DEF Columns
<1>2. QED BY <1>1 DEF ColumnOrder

\* Rows that stay keep what is said of them.
LEMMA RowsStay ==
  ASSUME StoreShape, RulesShape, GrantsShape, tables' = tables, legacy' = legacy
  PROVE  StoreShape' /\ RulesShape' /\ GrantsShape'
  BY DEF StoreShape, RulesShape, GrantsShape, Plain, Granted

\* Where the legacy rules and their grants are does not change.
LEMMA KeptStays ==
  ASSUME KeptShape, UNCHANGED << legacy, staged >>, tables'.rules = tables.rules,
         tables'.ruleGroups = tables.ruleGroups, hist'.old = hist.old, hist'.deleted = hist.deleted,
         rulesTab = "legacy" => rulesTab' = "legacy"
  PROVE  KeptShape'
  BY DEF KeptShape, OldGroupIds

LEMMA GetDbStep == StoreInv /\ GetDb => StoreInv'
<1> SUFFICES ASSUME StoreInv, GetDb PROVE StoreInv'
  OBVIOUS
<1>1. pc = "down" /\ pc' = "schema" /\ UNCHANGED << missing, rulesTab, legacy, staged, tables, hist, clock >>
  BY DEF GetDb, Goto
<1>2. StoreShape' /\ RulesShape' /\ GrantsShape'
  BY <1>1, RowsStay DEF StoreInv
<1>3. StoreTypeOK' /\ PastShape' /\ DeletedSeedStaysDeleted'
  BY <1>1 DEF StoreInv, StoreTypeOK, PastShape, DeletedSeedStaysDeleted, Steps
<1>4. StepShape' /\ SeedShape'
  BY <1>1 DEF StoreInv, StepShape, SeedShape
<1>5. BackfillShape'
  BY <1>1 DEF StoreInv, BackfillShape, AfterLastSeen
<1>6. LegacyShape'
  BY <1>1 DEF StoreInv, LegacyShape, OldGroupIds, OldUserIds
<1>k. KeptShape'
  BY <1>1, KeptStays DEF StoreInv
<1>7. QED BY <1>2, <1>3, <1>4, <1>5, <1>6, <1>k DEF StoreInv

LEMMA InitSchemaStep == StoreInv /\ InitSchema => StoreInv'
<1> SUFFICES ASSUME StoreInv, InitSchema PROVE StoreInv'
  OBVIOUS
<1>1. /\ pc = "schema" /\ pc' = "installed" /\ UNCHANGED << missing, legacy, staged, tables, hist, clock >>
      /\ rulesTab' = IF rulesTab \in {"none", "dropped"} THEN "current" ELSE rulesTab
  BY ColumnNames DEF InitSchema, Goto
<1>2. StoreShape' /\ RulesShape' /\ GrantsShape'
  BY <1>1, RowsStay DEF StoreInv
<1>3. StoreTypeOK' /\ PastShape' /\ DeletedSeedStaysDeleted'
  BY <1>1, ColumnNames DEF StoreInv, StoreTypeOK, PastShape, DeletedSeedStaysDeleted, Steps
<1>4. StepShape' /\ SeedShape'
  BY <1>1 DEF StoreInv, StoreTypeOK, StepShape, SeedShape
<1>5. BackfillShape'
  BY <1>1 DEF StoreInv, BackfillShape, AfterLastSeen
<1>6. OldGroupIds' = OldGroupIds /\ OldUserIds' = OldUserIds
  BY <1>1 DEF OldGroupIds, OldUserIds
<1>7. rulesTab = "none" => OldGroupIds = {}
  BY DEF StoreInv, StepShape, OldGroupIds
<1>8. LegacyShape'
  BY <1>1, <1>6, <1>7 DEF StoreInv, StoreTypeOK, LegacyShape
<1>k. KeptShape'
  BY <1>1, KeptStays DEF StoreInv
<1>9. QED BY <1>2, <1>3, <1>4, <1>5, <1>8, <1>k DEF StoreInv

\* A column is there already.
LEMMA ColumnThere ==
  ASSUME StoreInv, NEW i \in DOMAIN ColumnOrder, pc = ColumnOrder[i], pc \notin missing,
         pc' = AfterColumn(i), UNCHANGED << missing, rulesTab, legacy, staged, tables, hist, clock >>
  PROVE  StoreInv'
<1>0. pc \in Columns /\ pc' \in (Columns \ {"installed", "enabled"}) \cup {"rules"} /\ (pc' = "rules" => pc = "last_seen_at")
  BY ColumnFacts
<1>2. StoreShape' /\ RulesShape' /\ GrantsShape'
  BY RowsStay DEF StoreInv
<1>3. StoreTypeOK' /\ PastShape' /\ DeletedSeedStaysDeleted'
  BY <1>0 DEF StoreInv, StoreTypeOK, PastShape, DeletedSeedStaysDeleted, Steps
<1>4. StepShape'
  BY <1>0, ColumnNames DEF StoreInv, StepShape
<1>5. SeedShape'
  BY <1>0, ColumnNames DEF StoreInv, SeedShape
<1>6. BackfillShape'
  BY <1>0, ColumnNames DEF StoreInv, BackfillShape, AfterLastSeen
<1>7. LegacyShape'
  BY <1>0, ColumnNames DEF StoreInv, LegacyShape, OldGroupIds, OldUserIds
<1>k. KeptShape'
  BY KeptStays DEF StoreInv
<1>8. QED BY <1>2, <1>3, <1>4, <1>5, <1>6, <1>7, <1>k DEF StoreInv

\* It is added; two columns have an UPDATE to follow.
LEMMA ColumnAdded ==
  ASSUME StoreInv, NEW i \in DOMAIN ColumnOrder, pc = ColumnOrder[i], pc \in missing,
         pc' = CASE pc = "installed"    -> "backfill_installed"
                 [] pc = "last_seen_at" -> "backfill_last_seen_at"
                 [] OTHER               -> AfterColumn(i),
         missing' = missing \ {pc}, UNCHANGED << rulesTab, legacy, staged, tables, hist, clock >>
  PROVE  StoreInv'
<1>0. /\ pc \in Columns /\ AfterColumn(i) \in (Columns \ {"installed", "enabled"}) \cup {"rules"}
      /\ AfterColumn(i) = "rules" => pc = "last_seen_at"
  BY ColumnFacts
<1>1. \/ pc = "installed" /\ pc' = "backfill_installed"
      \/ pc = "last_seen_at" /\ pc' = "backfill_last_seen_at"
      \/ pc \notin {"installed", "last_seen_at"} /\ pc' \in Columns \ {"installed", "enabled"}
  BY <1>0
<1>2. StoreShape' /\ RulesShape' /\ GrantsShape'
  BY RowsStay DEF StoreInv
<1>3. StoreTypeOK' /\ PastShape' /\ DeletedSeedStaysDeleted'
  BY <1>1 DEF StoreInv, StoreTypeOK, PastShape, DeletedSeedStaysDeleted, Steps
<1>4. StepShape'
  BY <1>0, <1>1, ColumnNames DEF StoreInv, StepShape
<1>5. SeedShape'
  BY <1>1, ColumnNames DEF StoreInv, SeedShape
<1>6. BackfillShape'
  BY <1>1, <1>0, ColumnNames DEF StoreInv, BackfillShape, AfterLastSeen
<1>7. LegacyShape'
  BY <1>1, <1>0, ColumnNames DEF StoreInv, LegacyShape, OldGroupIds, OldUserIds
<1>k. KeptShape'
  BY KeptStays DEF StoreInv
<1>8. QED BY <1>2, <1>3, <1>4, <1>5, <1>6, <1>7, <1>k DEF StoreInv

\* A statement throws, in a file that was there before.
LEMMA ThrowStep ==
  ASSUME StoreInv, Throw, tables.seeded, pc \in {"certificate_identity", "copy"},
         UNCHANGED << missing, rulesTab, legacy, staged, tables >>
  PROVE  StoreInv'
<1>1. /\ pc' = "ready" /\ clock' = clock
      /\ hist' = [n \in HistNames |-> hist'[n]] /\ hist'.threw = TRUE /\ hist'.threw \in BOOLEAN
      /\ hist'.ops = hist.ops /\ hist'.crashes = hist.crashes /\ hist'.torn = hist.torn
      /\ hist'.deleted = hist.deleted /\ hist'.old = hist.old
  BY DEF Throw, Goto, StoreInv, PastShape, HistNames
<1>2. StoreShape' /\ RulesShape' /\ GrantsShape'
  BY RowsStay DEF StoreInv
<1>3. StoreTypeOK' /\ DeletedSeedStaysDeleted'
  BY <1>1 DEF StoreInv, StoreTypeOK, DeletedSeedStaysDeleted
<1>a. PastShape'
  BY <1>1 DEF StoreInv, PastShape
<1>4. StepShape'
  BY <1>1 DEF StoreInv, StepShape
<1>5. SeedShape'
  BY <1>1 DEF StoreInv, SeedShape
<1>6. BackfillShape'
  BY <1>1 DEF StoreInv, BackfillShape, AfterLastSeen
<1>7. LegacyShape'
  BY <1>1 DEF StoreInv, StepShape, LegacyShape, OldGroupIds, OldUserIds
<1>k. KeptShape'
  BY <1>1, KeptStays DEF StoreInv
<1>8. QED BY <1>2, <1>3, <1>a, <1>4, <1>5, <1>6, <1>7, <1>k DEF StoreInv

LEMMA EnsureColumnStep ==
  ASSUME StoreInv, NEW i \in DOMAIN ColumnOrder, EnsureColumn(i)
  PROVE  StoreInv'
<1>0. pc = ColumnOrder[i] /\ UNCHANGED << rulesTab, legacy, staged, tables >>
  BY DEF EnsureColumn
<1>1. CASE pc \notin missing /\ Goto(AfterColumn(i)) /\ UNCHANGED << missing, hist >>
  BY <1>0, <1>1, ColumnThere DEF Goto
<1>2. CASE pc \in missing /\ pc = "certificate_identity" /\ Throw /\ UNCHANGED missing
  <2>1. tables.seeded
    BY <1>2 DEF StoreInv, StoreShape, SeedShape
  <2>2. QED BY <1>0, <1>2, <2>1, ThrowStep
<1>3. CASE /\ pc \in missing /\ missing' = missing \ {pc} /\ UNCHANGED hist
           /\ Goto(CASE pc = "installed"    -> "backfill_installed"
                   [] pc = "last_seen_at" -> "backfill_last_seen_at"
                   [] OTHER               -> AfterColumn(i))
  BY <1>0, <1>3, ColumnAdded DEF Goto
<1>4. QED BY <1>0, <1>1, <1>2, <1>3 DEF EnsureColumn

LEMMA RulesBeginStep == StoreInv /\ RulesBegin => StoreInv'
<1> SUFFICES ASSUME StoreInv, RulesBegin PROVE StoreInv'
  OBVIOUS
<1>1. /\ pc = "rules" /\ UNCHANGED << rulesTab, legacy, staged, tables, hist, clock >>
      /\ pc' = IF rulesTab = "legacy" THEN "copy" ELSE "seed"
      /\ missing' = IF rulesTab = "legacy" THEN missing ELSE missing \ {"enabled"}
  BY DEF RulesBegin, Goto
<1>2. StoreShape' /\ RulesShape' /\ GrantsShape'
  BY <1>1, RowsStay DEF StoreInv
<1>3. StoreTypeOK' /\ PastShape' /\ DeletedSeedStaysDeleted'
  BY <1>1 DEF StoreInv, StoreTypeOK, PastShape, DeletedSeedStaysDeleted, Steps
<1>4. StepShape' /\ SeedShape'
  BY <1>1 DEF StoreInv, StoreTypeOK, StepShape, SeedShape
<1>5. BackfillShape'
  BY <1>1 DEF StoreInv, BackfillShape, AfterLastSeen
<1>6. LegacyShape'
  BY <1>1 DEF StoreInv, StepShape, LegacyShape, OldGroupIds, OldUserIds
<1>k. KeptShape'
  BY <1>1, KeptStays DEF StoreInv
<1>7. QED BY <1>2, <1>3, <1>4, <1>5, <1>6, <1>k DEF StoreInv

LEMMA CrashStep == StoreInv /\ Crash => StoreInv'
<1> SUFFICES ASSUME StoreInv, Crash PROVE StoreInv'
  OBVIOUS
<1>1. pc' = "down" /\ UNCHANGED << missing, rulesTab, legacy, staged, tables, clock >>
  BY DEF Crash
<1>2. /\ hist' = [n \in HistNames |-> hist'[n]] /\ hist'.threw = hist.threw
      /\ hist'.ops = hist.ops /\ hist'.crashes = hist.crashes + 1
      /\ hist'.torn = hist.torn \cup ({pc} \cap {"backfill_installed", "backfill_last_seen_at", "rename"})
      /\ hist'.deleted = hist.deleted /\ hist'.old = hist.old
  BY DEF Crash, StoreInv, PastShape, HistNames
<1>3. StoreShape' /\ RulesShape' /\ GrantsShape'
  BY <1>1, RowsStay DEF StoreInv
<1>4. StoreTypeOK' /\ DeletedSeedStaysDeleted'
  BY <1>1, <1>2 DEF StoreInv, StoreTypeOK, DeletedSeedStaysDeleted
<1>a. PastShape'
  BY <1>1, <1>2 DEF StoreInv, PastShape
<1>5. StepShape' /\ SeedShape'
  BY <1>1, <1>2 DEF StoreInv, StepShape, SeedShape
<1>c. /\ hist'.torn # {} => hist'.crashes >= 1
      /\ {"backfill_installed", "backfill_last_seen_at"} \subseteq hist'.torn => hist'.crashes >= 2
  <2>1. hist.crashes \in Nat
    BY DEF StoreInv, PastShape
  <2>2. ASSUME {"backfill_installed", "backfill_last_seen_at"} \subseteq hist'.torn PROVE hist.torn # {}
    BY <1>2, <2>2
  <2>3. hist.torn # {} => hist.crashes >= 1
    BY DEF StoreInv, BackfillShape
  <2>4. QED BY <1>2, <2>1, <2>2, <2>3
<1>6. BackfillShape'
  <2>1. hist.torn \subseteq hist'.torn /\ (pc \in {"backfill_installed", "backfill_last_seen_at"} => pc \in hist'.torn)
    BY <1>2
  <2>2. QED BY <1>1, <1>2, <1>c, <2>1 DEF StoreInv, BackfillShape, AfterLastSeen
<1>7. LegacyShape'
  BY <1>1, <1>2 DEF StoreInv, StepShape, LegacyShape, OldGroupIds, OldUserIds
<1>k. KeptShape'
  BY <1>1, <1>2, KeptStays DEF StoreInv
<1>8. QED BY <1>3, <1>4, <1>a, <1>5, <1>6, <1>7, <1>k DEF StoreInv

-----------------------------------------------------------------------------
(* Steps of getDb that change rows.                                        *)

\* An UPDATE of all connectors.
LEMMA BackfillRows ==
  ASSUME StoreInv, NEW rows, tables' = [tables EXCEPT !.conns = rows], DOMAIN rows = DOMAIN tables.conns,
         rows \in [DOMAIN tables.conns -> [net : tables.networks, installed : BOOLEAN, seen : BOOLEAN, policy : Nat]],
         legacy' = legacy
  PROVE  /\ tables' = [n \in TableNames |-> tables'[n]] /\ tables'.conns = rows
         /\ \A n \in TableNames \ {"conns"} : tables'[n] = tables[n]
         /\ StoreShape' /\ RulesShape' /\ GrantsShape'
<1>1. tables' = [n \in TableNames |-> tables'[n]] /\ tables'.conns = rows /\ \A n \in TableNames \ {"conns"} : tables'[n] = tables[n]
  BY DEF StoreInv, StoreShape, TableNames
<1>2. /\ tables'.users = tables.users /\ tables'.groups = tables.groups /\ tables'.members = tables.members /\ tables'.networks = tables.networks
      /\ tables'.resources = tables.resources /\ tables'.rules = tables.rules /\ tables'.ruleGroups = tables.ruleGroups /\ tables'.seeded = tables.seeded
  BY <1>1 DEF TableNames
<1>3. StoreShape'
  BY <1>1, <1>2 DEF StoreInv, StoreShape
<1>4. RulesShape' /\ GrantsShape'
  BY <1>2 DEF StoreInv, RulesShape, GrantsShape, Plain, Granted
<1>5. QED BY <1>1, <1>3, <1>4

\* What the UPDATE after a column leaves.
LEMMA BackfillStep ==
  ASSUME StoreInv, NEW rows, tables' = [tables EXCEPT !.conns = rows], DOMAIN rows = DOMAIN tables.conns,
         rows \in [DOMAIN tables.conns -> [net : tables.networks, installed : BOOLEAN, seen : BOOLEAN, policy : Nat]],
         \/ /\ pc = "backfill_installed" /\ pc' = "certificate_identity"
            /\ \A c \in DOMAIN rows : rows[c].installed /\ rows[c].seen = tables.conns[c].seen
         \/ /\ pc = "backfill_last_seen_at" /\ pc' = "rules"
            /\ \A c \in DOMAIN rows : rows[c].seen /\ rows[c].installed = tables.conns[c].installed,
         UNCHANGED << missing, rulesTab, legacy, staged, hist, clock >>
  PROVE  StoreInv'
<1>1. /\ tables'.conns = rows /\ \A n \in TableNames \ {"conns"} : tables'[n] = tables[n]
      /\ StoreShape' /\ RulesShape' /\ GrantsShape'
  BY BackfillRows
<1>2. /\ tables'.seeded = tables.seeded /\ tables'.rules = tables.rules
      /\ tables'.resources = tables.resources /\ tables'.ruleGroups = tables.ruleGroups
  BY <1>1 DEF TableNames
<1>3. tables.seeded
  BY DEF StoreInv, StoreShape, SeedShape
<1>4. StoreTypeOK' /\ PastShape' /\ DeletedSeedStaysDeleted'
  BY <1>2, ColumnNames DEF StoreInv, StoreTypeOK, PastShape, DeletedSeedStaysDeleted, Steps
<1>5. StepShape'
  BY <1>2 DEF StoreInv, StepShape
<1>6. SeedShape'
  BY <1>1, <1>2, <1>3 DEF StoreInv, SeedShape
<1>7. BackfillShape'
  <2>1. SeedSites.conns \subseteq DOMAIN rows
    BY <1>3 DEF StoreInv, SeedShape
  <2>2. QED BY <1>1, <1>2, <1>3, <2>1 DEF StoreInv, BackfillShape, AfterLastSeen
<1>8. LegacyShape'
  BY <1>2 DEF StoreInv, StepShape, LegacyShape, OldGroupIds, OldUserIds
<1>k. KeptShape'
  BY <1>2, KeptStays DEF StoreInv
<1>9. QED BY <1>1, <1>4, <1>5, <1>6, <1>7, <1>8, <1>k DEF StoreInv

LEMMA BackfillInstalledStep == StoreInv /\ BackfillInstalled => StoreInv'
<1> SUFFICES ASSUME StoreInv, BackfillInstalled PROVE StoreInv'
  OBVIOUS
<1>1. PICK rows : rows = [c \in DOMAIN tables.conns |-> [tables.conns[c] EXCEPT !.installed = TRUE]]
  OBVIOUS
<1>2. tables' = [tables EXCEPT !.conns = rows]
  BY <1>1 DEF BackfillInstalled
<1>3. /\ rows \in [DOMAIN tables.conns -> [net : tables.networks, installed : BOOLEAN, seen : BOOLEAN, policy : Nat]]
      /\ \A c \in DOMAIN rows : rows[c].installed /\ rows[c].seen = tables.conns[c].seen
  BY <1>1 DEF StoreInv, StoreShape
<1>4. /\ pc = "backfill_installed" /\ pc' = "certificate_identity"
      /\ UNCHANGED << missing, rulesTab, legacy, staged, hist, clock >>
  BY ColumnNames DEF BackfillInstalled, Goto
<1>5. QED BY <1>2, <1>3, <1>4, BackfillStep

LEMMA BackfillLastSeenStep == StoreInv /\ BackfillLastSeen => StoreInv'
<1> SUFFICES ASSUME StoreInv, BackfillLastSeen PROVE StoreInv'
  OBVIOUS
<1>1. PICK rows : rows = [c \in DOMAIN tables.conns |-> [tables.conns[c] EXCEPT !.seen = TRUE]]
  OBVIOUS
<1>2. tables' = [tables EXCEPT !.conns = rows]
  BY <1>1 DEF BackfillLastSeen
<1>3. /\ rows \in [DOMAIN tables.conns -> [net : tables.networks, installed : BOOLEAN, seen : BOOLEAN, policy : Nat]]
      /\ \A c \in DOMAIN rows : rows[c].seen /\ rows[c].installed = tables.conns[c].installed
  BY <1>1 DEF StoreInv, StoreShape
<1>4. /\ pc = "backfill_last_seen_at" /\ pc' = "rules"
      /\ UNCHANGED << missing, rulesTab, legacy, staged, hist, clock >>
  BY DEF BackfillLastSeen, Goto
<1>5. QED BY <1>2, <1>3, <1>4, BackfillStep

LEMMA RulesCopyStep == StoreInv /\ RulesCopy => StoreInv'
<1> SUFFICES ASSUME StoreInv, RulesCopy PROVE StoreInv'
  OBVIOUS
<1>0. pc = "copy" /\ rulesTab = "legacy" /\ UNCHANGED << missing, rulesTab, legacy >> /\ tables.seeded
  BY DEF RulesCopy, StoreInv, StoreShape, StepShape, SeedShape
<1>1. CASE Throw /\ UNCHANGED << staged, tables >>
  BY <1>0, <1>1, ThrowStep
<1>2. CASE /\ \A row \in GroupRows : row.subject \in tables.groups
           /\ staged' = staged \cup { row.id : row \in GroupRows }
           /\ tables' = [tables EXCEPT !.ruleGroups = @ \cup { << row.id, row.subject >> : row \in GroupRows }]
           /\ Goto("drop") /\ UNCHANGED hist
  <2>1. PICK more : more = { << row.id, row.subject >> : row \in GroupRows }
    OBVIOUS
  <2>2. /\ tables' = [n \in TableNames |-> tables'[n]] /\ tables'.ruleGroups = tables.ruleGroups \cup more
        /\ tables'.users = tables.users /\ tables'.groups = tables.groups /\ tables'.members = tables.members /\ tables'.networks = tables.networks
        /\ tables'.conns = tables.conns /\ tables'.resources = tables.resources /\ tables'.rules = tables.rules /\ tables'.seeded = tables.seeded
    BY <1>2, <2>1 DEF StoreInv, StoreShape, TableNames
  <2>3. pc' = "drop" /\ UNCHANGED << clock, hist >>
    BY <1>2 DEF Goto
  <2>4. { row.id : row \in GroupRows } = OldGroupIds
    BY <1>0 DEF StoreInv, StepShape, GroupRows, OldGroupIds
  <2>5. StoreShape' /\ RulesShape'
    BY <2>2 DEF StoreInv, StoreShape, RulesShape, Plain, Granted
  <2>6. GrantsShape'
    BY <1>0, <1>2, <2>1, <2>2 DEF StoreInv, GrantsShape, GroupRows
  <2>7. StoreTypeOK' /\ PastShape' /\ DeletedSeedStaysDeleted'
    BY <1>0, <2>2, <2>3 DEF StoreInv, StoreTypeOK, PastShape, DeletedSeedStaysDeleted, Steps
  <2>8. StepShape' /\ SeedShape'
    BY <1>0, <2>2, <2>3 DEF StoreInv, StepShape, SeedShape
  <2>9. BackfillShape'
    BY <1>0, <2>2, <2>3 DEF StoreInv, BackfillShape, AfterLastSeen
  <2>10. OldGroupIds' = OldGroupIds /\ OldUserIds' = OldUserIds
    BY <2>3 DEF OldGroupIds, OldUserIds
  <2>11. LegacyShape'
    BY <1>0, <1>2, <2>2, <2>3, <2>4, <2>10 DEF StoreInv, LegacyShape
  <2>k. KeptShape'
    <3>1. OldGroupIds' \subseteq { row.id : row \in legacy' }
      BY <1>0, <2>4, <2>10 DEF GroupRows
    <3>2. \A rg \in more : [id |-> rg[1], type |-> "GROUP", subject |-> rg[2]] \in hist.old
      <4>1. SUFFICES ASSUME NEW row \in GroupRows
                     PROVE  [id |-> row.id, type |-> "GROUP", subject |-> row.subject] \in hist.old
        BY <2>1
      <4>2. row \in hist.old /\ row.type = "GROUP" /\ row \in LegacyRow
        BY <1>0, LegacyIds DEF StoreInv, StepShape, PastShape, GroupRows
      <4>3. row = [id |-> row.id, type |-> "GROUP", subject |-> row.subject]
        BY <4>2 DEF LegacyRow
      <4>4. QED BY <4>2, <4>3
    <3>3. QED BY <1>0, <2>2, <2>3, <3>1, <3>2 DEF StoreInv, KeptShape
  <2>12. QED BY <2>5, <2>6, <2>7, <2>8, <2>9, <2>11, <2>k DEF StoreInv
<1>3. QED BY <1>1, <1>2 DEF RulesCopy

LEMMA RulesDropStep == StoreInv /\ RulesDrop => StoreInv'
<1> SUFFICES ASSUME StoreInv, RulesDrop PROVE StoreInv'
  OBVIOUS
<1>1. /\ pc = "drop" /\ pc' = "rename" /\ rulesTab = "legacy" /\ rulesTab' = "dropped" /\ legacy' = {}
      /\ missing' = missing \ {"enabled"} /\ UNCHANGED << staged, hist, clock >> /\ tables.seeded
  BY DEF RulesDrop, Goto, StoreInv, StoreShape, StepShape, SeedShape
<1>2. PICK ids : ids = { row.id : row \in legacy }
  OBVIOUS
<1>3. /\ tables' = [n \in TableNames |-> tables'[n]] /\ tables'.ruleGroups = { g \in tables.ruleGroups : g[1] \notin ids }
      /\ tables'.users = tables.users /\ tables'.groups = tables.groups /\ tables'.members = tables.members /\ tables'.networks = tables.networks
      /\ tables'.conns = tables.conns /\ tables'.resources = tables.resources /\ tables'.rules = tables.rules /\ tables'.seeded = tables.seeded
  BY <1>2 DEF RulesDrop, StoreInv, StoreShape, TableNames
<1>4. tables.rules = Empty /\ DOMAIN tables.rules = {}
  BY <1>1 DEF StoreInv, StepShape, Empty
<1>5. StoreShape'
  BY <1>3 DEF StoreInv, StoreShape
<1>6. RulesShape' /\ GrantsShape'
  BY <1>2, <1>3, <1>4 DEF StoreInv, RulesShape, GrantsShape
<1>7. StoreTypeOK' /\ PastShape' /\ DeletedSeedStaysDeleted'
  BY <1>1, <1>3 DEF StoreInv, StoreTypeOK, PastShape, DeletedSeedStaysDeleted, Steps
<1>8. StepShape' /\ SeedShape'
  BY <1>1, <1>3 DEF StoreInv, StepShape, SeedShape
<1>9. BackfillShape'
  BY <1>1, <1>3 DEF StoreInv, BackfillShape, AfterLastSeen
<1>10. LegacyShape'
  BY <1>1, <1>3 DEF StoreInv, LegacyShape, OldGroupIds, OldUserIds
<1>k. KeptShape'
  <2>1. OldGroupIds' \subseteq staged'
    BY <1>1 DEF StoreInv, LegacyShape, OldGroupIds
  <2>2. ids = { row.id : row \in hist'.old }
    BY <1>1, <1>2 DEF StoreInv, StepShape
  <2>3. QED BY <1>3, <2>1, <2>2 DEF KeptShape
<1>11. QED BY <1>5, <1>6, <1>7, <1>8, <1>9, <1>10, <1>k DEF StoreInv

LEMMA RulesRenameStep == StoreInv /\ RulesRename => StoreInv'
<1> SUFFICES ASSUME StoreInv, RulesRename PROVE StoreInv'
  OBVIOUS
<1>1. /\ pc = "rename" /\ pc' = "seed" /\ rulesTab = "dropped" /\ rulesTab' = "current"
      /\ staged' = {} /\ UNCHANGED << missing, legacy, hist, clock >> /\ tables.seeded /\ legacy = {}
  BY DEF RulesRename, Goto, StoreInv, StoreShape, StepShape, SeedShape
<1>2. PICK rules : rules = [r \in staged |-> SeedRow(1)]
  OBVIOUS
<1>3. /\ tables' = [n \in TableNames |-> tables'[n]] /\ tables'.ruleGroups = tables.ruleGroups /\ tables'.rules = rules
      /\ tables'.users = tables.users /\ tables'.groups = tables.groups /\ tables'.members = tables.members /\ tables'.networks = tables.networks
      /\ tables'.conns = tables.conns /\ tables'.resources = tables.resources /\ tables'.seeded = tables.seeded
  BY <1>2 DEF RulesRename, StoreInv, StoreShape, TableNames
<1>4. SeedRow(1) \in [res : DOMAIN tables.resources, on : BOOLEAN]
  BY <1>1 DEF StoreInv, SeedShape, SeedRow, SeedSites
<1>5. StoreShape'
  <2>1. tables'.rules \in [DOMAIN tables'.rules -> [res : DOMAIN tables'.resources, on : BOOLEAN]]
    BY <1>2, <1>3, <1>4
  <2>2. QED BY <1>3, <2>1 DEF StoreInv, StoreShape
<1>6. OldGroupIds' = OldGroupIds /\ OldUserIds' = OldUserIds
  BY <1>1 DEF OldGroupIds, OldUserIds
<1>7. OldGroupIds \cap OldUserIds = {}
  BY OneTypePerId DEF StoreInv, PastShape, OldGroupIds, OldUserIds
<1>8. DOMAIN rules = staged /\ staged \subseteq OldGroupIds
  BY <1>2 DEF StoreInv, LegacyShape
<1>9. \A k \in OldGroupIds : Plain(k)
  BY LegacyIds DEF StoreInv, PastShape, OldGroupIds
<1>10. RulesShape'
  BY <1>3, <1>8, <1>9, OneKindOfName DEF RulesShape
<1>11. tables.ruleGroups = {}
  BY <1>1 DEF StoreInv, GrantsShape, StepShape, Empty
<1>12. GrantsShape'
  BY <1>3, <1>11 DEF GrantsShape
<1>13. StoreTypeOK' /\ PastShape'
  BY <1>1, <1>3 DEF StoreInv, StoreTypeOK, PastShape, Steps
<1>14. DeletedSeedStaysDeleted'
  BY <1>1 DEF StoreInv, StepShape, DeletedSeedStaysDeleted
<1>15. StepShape' /\ SeedShape'
  BY <1>1, <1>3 DEF StoreInv, StepShape, SeedShape
<1>16. BackfillShape'
  BY <1>1, <1>3 DEF StoreInv, BackfillShape, AfterLastSeen
<1>17. LegacyShape'
  BY <1>1, <1>3, <1>6, <1>7, <1>8 DEF StoreInv, LegacyShape
<1>k. KeptShape'
  <2>1. OldGroupIds' \subseteq DOMAIN tables'.rules
    BY <1>1, <1>3, <1>6, <1>8 DEF StoreInv, StepShape, KeptShape, Empty
  <2>2. QED BY <1>3, <1>11, <2>1 DEF KeptShape
<1>18. QED BY <1>5, <1>10, <1>12, <1>13, <1>14, <1>15, <1>16, <1>17, <1>k DEF StoreInv

\* The seed of a new file.
LEMMA SeedNewStep ==
  ASSUME StoreInv, pc = "seed", ~tables.seeded, tables' = Seeded(tables, SeedConn, SeedRuleRows, SeedGrants),
         pc' = "ready", UNCHANGED << missing, rulesTab, legacy, staged, hist, clock >>
  PROVE  StoreInv'
<1>1. /\ tables = NoTables /\ missing = {} /\ hist.old = {} /\ hist.deleted = {} /\ rulesTab = "current"
  BY DEF StoreInv, SeedShape, StepShape
<1>2. /\ tables'.users = SeedPeople.users /\ tables'.groups = SeedPeople.groups /\ tables'.members = SeedPeople.members
      /\ tables'.networks = SeedSites.networks /\ tables'.conns = [c \in SeedSites.conns |-> SeedConn]
      /\ tables'.resources = [r \in SeedSites.resources |-> <<"net", 1>>]
      /\ tables'.rules = SeedRuleRows /\ tables'.ruleGroups = SeedGrants /\ tables'.seeded = TRUE
      /\ tables' = [n \in TableNames |-> tables'[n]] /\ tables'.seeded \in BOOLEAN
  BY <1>1 DEF Seeded, NoTables, TableNames
<1>3. SeedConn \in [net : SeedSites.networks, installed : BOOLEAN, seen : BOOLEAN, policy : Nat]
      /\ SeedConn.installed /\ SeedConn.seen
  BY DEF SeedConn, SeedSites
<1>4. SeedPeople.members \subseteq SeedPeople.groups \X SeedPeople.users /\ <<"net", 1>> \in SeedSites.networks
  BY DEF SeedPeople, SeedSites
<1>5. StoreShape'
  <2>1. tables'.conns \in [DOMAIN tables'.conns -> [net : tables'.networks, installed : BOOLEAN, seen : BOOLEAN, policy : Nat]]
    BY <1>2, <1>3
  <2>2. tables'.resources \in [DOMAIN tables'.resources -> tables'.networks] /\ DOMAIN tables'.resources = SeedSites.resources
    BY <1>2, <1>4
  <2>3. tables'.rules \in [DOMAIN tables'.rules -> [res : DOMAIN tables'.resources, on : BOOLEAN]]
    BY <1>2, <2>2, SeedRuleFacts
  <2>4. tables'.members \subseteq tables'.groups \X tables'.users /\ IsFiniteSet(tables'.users) /\ IsFiniteSet(tables'.members)
    BY <1>2, <1>4, SeedFinite
  <2>5. QED BY <1>2, <2>1, <2>2, <2>3, <2>4 DEF StoreShape
<1>6. DOMAIN tables'.rules = SeedRules
  BY <1>2 DEF SeedRuleRows
<1>7. RulesShape' /\ GrantsShape'
  BY <1>2, <1>6, SeedRuleFacts, OneKindOfName DEF RulesShape, GrantsShape
<1>8. StoreTypeOK' /\ PastShape' /\ DeletedSeedStaysDeleted'
  BY <1>1, <1>2 DEF StoreInv, StoreTypeOK, PastShape, DeletedSeedStaysDeleted, Steps
<1>9. StepShape'
  BY <1>1 DEF StoreInv, StepShape
<1>10. SeedShape' /\ BackfillShape'
  BY <1>1, <1>2, <1>3 DEF StoreInv, SeedShape, BackfillShape, AfterLastSeen
<1>11. LegacyShape'
  BY <1>1 DEF StoreInv, LegacyShape, OldGroupIds, OldUserIds
<1>k. KeptShape'
  BY <1>1 DEF KeptShape, OldGroupIds
<1>12. QED BY <1>5, <1>7, <1>8, <1>9, <1>10, <1>11, <1>k DEF StoreInv

LEMMA SeedIfNeededStep == StoreInv /\ SeedIfNeeded => StoreInv'
<1> SUFFICES ASSUME StoreInv, SeedIfNeeded PROVE StoreInv'
  OBVIOUS
<1>1. pc = "seed" /\ pc' = "ready" /\ UNCHANGED << missing, rulesTab, legacy, staged, hist, clock >>
  BY DEF SeedIfNeeded, Goto
<1>2. CASE ~tables.seeded
  BY <1>1, <1>2, SeedNewStep DEF SeedIfNeeded
<1>3. CASE tables.seeded
  <2>1. tables' = tables
    BY <1>3 DEF SeedIfNeeded
  <2>2. StoreShape' /\ RulesShape' /\ GrantsShape'
    BY <1>1, <2>1, RowsStay DEF StoreInv
  <2>3. StoreTypeOK' /\ PastShape' /\ DeletedSeedStaysDeleted'
    BY <1>1, <2>1 DEF StoreInv, StoreTypeOK, PastShape, DeletedSeedStaysDeleted
  <2>4. StepShape' /\ SeedShape'
    BY <1>1, <1>3, <2>1 DEF StoreInv, StepShape, SeedShape
  <2>5. BackfillShape'
    BY <1>1, <2>1 DEF StoreInv, BackfillShape, AfterLastSeen
  <2>6. LegacyShape'
    BY <1>1, <2>1 DEF StoreInv, StepShape, LegacyShape, OldGroupIds, OldUserIds
  <2>k. KeptShape'
    BY <1>1, <2>1, KeptStays DEF StoreInv
  <2>7. QED BY <2>2, <2>3, <2>4, <2>5, <2>6, <2>k DEF StoreInv
<1>4. QED BY <1>2, <1>3

-----------------------------------------------------------------------------
(* The writing functions.                                                  *)

\* What a write leaves alone.
Written ==
    /\ pc = "ready" /\ UNCHANGED << pc, missing, rulesTab, legacy, staged, clock >>
    /\ hist' = [n \in HistNames |-> hist'[n]] /\ hist'.ops = hist.ops + 1
    /\ hist'.crashes = hist.crashes /\ hist'.threw = hist.threw /\ hist'.torn = hist.torn /\ hist'.old = hist.old

\* A write of another table than access_rules and access_rule_groups.
RulesAlone == tables'.rules = tables.rules /\ tables'.ruleGroups = tables.ruleGroups /\ hist'.deleted = hist.deleted

\* What a write may do to rules: new ones have new names.
RulesWritten ==
    /\ DOMAIN tables.rules \subseteq DOMAIN tables'.rules \cup hist'.deleted
    /\ \A k \in DOMAIN tables'.rules \ DOMAIN tables.rules : k[2] \notin 0 .. 9
    /\ \A rg \in tables'.ruleGroups \ tables.ruleGroups : rg[1][2] \notin 0 .. 9
    /\ hist.deleted \subseteq hist'.deleted /\ (hist'.deleted \ hist.deleted) \cap DOMAIN tables'.rules = {}
    /\ rulesTab # "current" => tables'.rules = tables.rules /\ hist'.deleted = hist.deleted

LEMMA WriteFacts ==
  ASSUME StoreInv, NEW needs, WriteTables(needs)
  PROVE  Written /\ hist'.deleted = hist.deleted
  BY DEF WriteTables, Written, StoreInv, PastShape, HistNames

\* A write that keeps the rows in order, the seeded connector's values and
\* the names of rules keeps the invariant.
LEMMA WriteStep ==
  ASSUME StoreInv, Written, StoreShape', RulesShape', GrantsShape', RulesWritten,
         tables'.seeded = tables.seeded, DOMAIN tables.resources \subseteq DOMAIN tables'.resources,
         DOMAIN tables.conns \subseteq DOMAIN tables'.conns,
         \A c \in DOMAIN tables.conns : /\ tables.conns[c].installed => tables'.conns[c].installed
                                        /\ tables.conns[c].seen => tables'.conns[c].seen
  PROVE  StoreInv'
<1>1. tables.seeded
  BY DEF StoreInv, StoreShape, SeedShape, Written
<1>2. StoreTypeOK' /\ PastShape'
  BY DEF StoreInv, StoreTypeOK, PastShape, Written
<1>3. DeletedSeedStaysDeleted'
  BY SeedRuleFacts DEF StoreInv, DeletedSeedStaysDeleted, RulesWritten
<1>4. StepShape'
  BY DEF StoreInv, StepShape, Written, RulesWritten
<1>5. SeedShape'
  BY <1>1 DEF StoreInv, SeedShape, Written
<1>6. BackfillShape'
  BY <1>1 DEF StoreInv, SeedShape, BackfillShape, Written, AfterLastSeen
<1>7. OldGroupIds' = OldGroupIds /\ OldUserIds' = OldUserIds
  BY DEF Written, OldGroupIds, OldUserIds
<1>8. \A k \in OldUserIds : k[2] \in 0 .. 9
  BY LegacyIds DEF StoreInv, PastShape, OldUserIds
<1>9. LegacyShape'
  <2>1. DOMAIN tables'.rules \cap OldUserIds = {}
    BY <1>8 DEF StoreInv, LegacyShape, RulesWritten
  <2>2. QED BY <1>7, <2>1 DEF StoreInv, StepShape, LegacyShape, Written, RulesWritten
<1>k. KeptShape'
  <2>1. OldGroupIds' \subseteq { row.id : row \in legacy' } \cup staged' \cup DOMAIN tables'.rules \cup hist'.deleted
    BY <1>7 DEF StoreInv, KeptShape, Written, RulesWritten
  <2>2. \A row \in hist.old : row.id[2] \in 0 .. 9
    BY LegacyIds DEF StoreInv, PastShape
  <2>3. hist'.old = hist.old /\ rulesTab' = rulesTab
    BY DEF Written
  <2>4. \A rg \in tables'.ruleGroups : rg[1] \in { row.id : row \in hist.old } => rg \in tables.ruleGroups
    BY <2>2 DEF RulesWritten
  <2>5. QED BY <2>1, <2>3, <2>4 DEF StoreInv, KeptShape
<1>10. QED BY <1>2, <1>3, <1>4, <1>5, <1>6, <1>9, <1>k DEF StoreInv

\* The same, when rules and connectors keep their rows.
LEMMA OtherTables ==
  ASSUME StoreInv, Written, RulesAlone, tables' = [n \in TableNames |-> tables'[n]],
         tables'.seeded = tables.seeded, tables'.conns = tables.conns, DOMAIN tables.resources \subseteq DOMAIN tables'.resources,
         tables.networks \subseteq tables'.networks, tables.groups \subseteq tables'.groups,
         tables'.resources \in [DOMAIN tables'.resources -> tables'.networks],
         tables'.members \subseteq tables'.groups \X tables'.users, IsFiniteSet(tables'.users), IsFiniteSet(tables'.members)
  PROVE  StoreInv'
<1>1. tables'.conns \in [DOMAIN tables'.conns -> [net : tables'.networks, installed : BOOLEAN, seen : BOOLEAN, policy : Nat]]
  BY DEF StoreInv, StoreShape
<1>2. tables'.rules \in [DOMAIN tables'.rules -> [res : DOMAIN tables'.resources, on : BOOLEAN]]
  BY DEF StoreInv, StoreShape, RulesAlone
<1>3. StoreShape'
  BY <1>1, <1>2 DEF StoreInv, StoreShape
<1>4. RulesShape' /\ GrantsShape'
  BY DEF StoreInv, RulesShape, GrantsShape, Plain, Granted, RulesAlone, Written
<1>5. RulesWritten
  BY DEF RulesWritten, RulesAlone
<1>6. QED BY <1>3, <1>4, <1>5, WriteStep

\* Adding a row that needs no other.
LEMMA AddRowStep ==
  ASSUME StoreInv,
         \/ AddRemoteNetwork
         \/ AddUser
         \/ AddGroup
  PROVE  StoreInv'
<1>w. Written /\ hist'.deleted = hist.deleted
  BY WriteFacts DEF AddRemoteNetwork, AddUser, AddGroup
<1>0. IsFiniteSet(tables.users) /\ IsFiniteSet(tables.members) /\ tables.members \subseteq tables.groups \X tables.users
      /\ tables.resources \in [DOMAIN tables.resources -> tables.networks]
  BY DEF StoreInv, StoreShape
<1>1. CASE AddRemoteNetwork
  <2>1. PICK n : n = Stamp("net")
    OBVIOUS
  <2>2. /\ tables' = [x \in TableNames |-> tables'[x]] /\ tables'.ruleGroups = tables.ruleGroups /\ tables'.rules = tables.rules
        /\ tables'.users = tables.users /\ tables'.groups = tables.groups /\ tables'.members = tables.members /\ tables'.networks = tables.networks \cup {n}
        /\ tables'.conns = tables.conns /\ tables'.resources = tables.resources /\ tables'.seeded = tables.seeded
    BY <1>1, <2>1 DEF AddRemoteNetwork, StoreInv, StoreShape, TableNames
  <2>3. QED BY <1>w, <1>0, <2>2, OtherTables DEF RulesAlone
<1>2. CASE AddUser
  <2>1. PICK u : u = Stamp("usr")
    OBVIOUS
  <2>2. /\ tables' = [x \in TableNames |-> tables'[x]] /\ tables'.ruleGroups = tables.ruleGroups /\ tables'.rules = tables.rules
        /\ tables'.users = tables.users \cup {u} /\ tables'.groups = tables.groups /\ tables'.members = tables.members /\ tables'.networks = tables.networks
        /\ tables'.conns = tables.conns /\ tables'.resources = tables.resources /\ tables'.seeded = tables.seeded
    BY <1>2, <2>1 DEF AddUser, StoreInv, StoreShape, TableNames
  <2>3. IsFiniteSet(tables.users \cup {u})
    BY <1>0, FS_AddElement
  <2>4. QED BY <1>w, <1>0, <2>2, <2>3, OtherTables DEF RulesAlone
<1>3. CASE AddGroup
  <2>1. PICK g : g = Stamp("grp")
    OBVIOUS
  <2>2. /\ tables' = [x \in TableNames |-> tables'[x]] /\ tables'.ruleGroups = tables.ruleGroups /\ tables'.rules = tables.rules
        /\ tables'.users = tables.users /\ tables'.groups = tables.groups \cup {g} /\ tables'.members = tables.members /\ tables'.networks = tables.networks
        /\ tables'.conns = tables.conns /\ tables'.resources = tables.resources /\ tables'.seeded = tables.seeded
    BY <1>3, <2>1 DEF AddGroup, StoreInv, StoreShape, TableNames
  <2>3. QED BY <1>w, <1>0, <2>2, OtherTables DEF RulesAlone
<1>4. QED BY <1>1, <1>2, <1>3

\* Members: a group's rows are replaced, or one is taken away.
LEMMA MembersStep ==
  ASSUME StoreInv, NEW ms, tables' = [tables EXCEPT !.members = ms], Written, hist'.deleted = hist.deleted,
         ms \subseteq tables.groups \X tables.users, IsFiniteSet(ms)
  PROVE  StoreInv'
<1>1. /\ tables' = [x \in TableNames |-> tables'[x]] /\ tables'.ruleGroups = tables.ruleGroups /\ tables'.rules = tables.rules
      /\ tables'.users = tables.users /\ tables'.groups = tables.groups /\ tables'.members = ms /\ tables'.networks = tables.networks
      /\ tables'.conns = tables.conns /\ tables'.resources = tables.resources /\ tables'.seeded = tables.seeded
  BY DEF StoreInv, StoreShape, TableNames
<1>2. IsFiniteSet(tables.users) /\ tables.resources \in [DOMAIN tables.resources -> tables.networks]
  BY DEF StoreInv, StoreShape
<1>3. QED BY <1>1, <1>2, OtherTables DEF RulesAlone

LEMMA UpdateGroupMembersStep ==
  ASSUME StoreInv, NEW g, NEW us, UpdateGroupMembers(g, us)
  PROVE  StoreInv'
<1>1. PICK ms : ms = { m \in tables.members : m[1] # g } \cup ({g} \X us)
  OBVIOUS
<1>2. tables' = [tables EXCEPT !.members = ms] /\ Written /\ hist'.deleted = hist.deleted
  BY <1>1, WriteFacts DEF UpdateGroupMembers
<1>3. g \in tables.groups /\ us \subseteq tables.users /\ tables.members \subseteq tables.groups \X tables.users
      /\ IsFiniteSet(tables.users) /\ IsFiniteSet(tables.members)
  BY DEF UpdateGroupMembers, StoreInv, StoreShape
<1>4. ms \subseteq tables.groups \X tables.users
  BY <1>1, <1>3
<1>5. IsFiniteSet(us) /\ IsFiniteSet({g})
  BY <1>3, FS_Subset, FS_Singleton
<1>6. IsFiniteSet({g} \X us)
  BY <1>5, FS_Product
<1>7. IsFiniteSet({ m \in tables.members : m[1] # g })
  BY <1>3, FS_Subset
<1>8. IsFiniteSet(ms)
  BY <1>1, <1>6, <1>7, FS_Union
<1>9. QED BY <1>2, <1>4, <1>8, MembersStep

LEMMA RemoveGroupMemberStep ==
  ASSUME StoreInv, NEW g, NEW u, RemoveGroupMember(g, u)
  PROVE  StoreInv'
<1>1. PICK ms : ms = tables.members \ {<< g, u >>}
  OBVIOUS
<1>2. tables' = [tables EXCEPT !.members = ms] /\ Written /\ hist'.deleted = hist.deleted
  BY <1>1, WriteFacts DEF RemoveGroupMember
<1>3. ms \subseteq tables.groups \X tables.users /\ ms \subseteq tables.members /\ IsFiniteSet(tables.members)
  BY <1>1 DEF StoreInv, StoreShape
<1>4. IsFiniteSet(ms)
  BY <1>3, FS_Subset
<1>5. QED BY <1>2, <1>3, <1>4, MembersStep

\* Connectors: rows are added or given values.
LEMMA ConnsStep ==
  ASSUME StoreInv, NEW rows, tables' = [tables EXCEPT !.conns = rows], Written, hist'.deleted = hist.deleted,
         rows \in [DOMAIN rows -> [net : tables.networks, installed : BOOLEAN, seen : BOOLEAN, policy : Nat]],
         DOMAIN tables.conns \subseteq DOMAIN rows,
         \A c \in DOMAIN tables.conns : /\ tables.conns[c].installed => rows[c].installed
                                        /\ tables.conns[c].seen => rows[c].seen
  PROVE  StoreInv'
<1>1. /\ tables' = [x \in TableNames |-> tables'[x]] /\ tables'.ruleGroups = tables.ruleGroups /\ tables'.rules = tables.rules
      /\ tables'.users = tables.users /\ tables'.groups = tables.groups /\ tables'.members = tables.members /\ tables'.networks = tables.networks
      /\ tables'.conns = rows /\ tables'.resources = tables.resources /\ tables'.seeded = tables.seeded
  BY DEF StoreInv, StoreShape, TableNames
<1>2. StoreShape'
  BY <1>1 DEF StoreInv, StoreShape
<1>3. RulesShape' /\ GrantsShape'
  BY <1>1 DEF StoreInv, RulesShape, GrantsShape, Plain, Granted, Written
<1>4. RulesWritten
  BY <1>1 DEF RulesWritten
<1>5. QED BY <1>1, <1>2, <1>3, <1>4, WriteStep

LEMMA AddConnectorStep ==
  ASSUME StoreInv, NEW n, AddConnector(n)
  PROVE  StoreInv'
<1>1. PICK c, row : c = Stamp("con") /\ row = [net |-> n, installed |-> FALSE, seen |-> TRUE, policy |-> 0]
  OBVIOUS
<1>2. PICK rows : rows = Put(tables.conns, c, row)
  OBVIOUS
<1>3. tables' = [tables EXCEPT !.conns = rows] /\ Written /\ hist'.deleted = hist.deleted
  BY <1>1, <1>2, WriteFacts DEF AddConnector
<1>4. row \in [net : tables.networks, installed : BOOLEAN, seen : BOOLEAN, policy : Nat] /\ c \notin DOMAIN tables.conns
  BY <1>1 DEF AddConnector
<1>5. /\ rows \in [DOMAIN rows -> [net : tables.networks, installed : BOOLEAN, seen : BOOLEAN, policy : Nat]]
      /\ DOMAIN tables.conns \subseteq DOMAIN rows /\ \A d \in DOMAIN tables.conns : rows[d] = tables.conns[d]
  BY <1>2, <1>4 DEF Put, StoreInv, StoreShape
<1>6. QED BY <1>3, <1>5, ConnsStep

LEMMA HeartbeatStep ==
  ASSUME StoreInv, NEW c, NEW v \in {1}, SimulateConnectorHeartbeat(c) \/ UpdateConnectorHeartbeat(c, v)
  PROVE  StoreInv'
<1>0. Written /\ hist'.deleted = hist.deleted /\ c \in DOMAIN tables.conns
  BY WriteFacts DEF SimulateConnectorHeartbeat, UpdateConnectorHeartbeat
<1>1. PICK row : \/ row = [tables.conns[c] EXCEPT !.installed = TRUE, !.seen = TRUE] /\ SimulateConnectorHeartbeat(c)
                 \/ row = [tables.conns[c] EXCEPT !.policy = v, !.seen = TRUE] /\ UpdateConnectorHeartbeat(c, v)
  OBVIOUS
<1>2. PICK rows : rows = [tables.conns EXCEPT ![c] = row]
  OBVIOUS
<1>3. tables.conns[c] \in [net : tables.networks, installed : BOOLEAN, seen : BOOLEAN, policy : Nat]
  BY <1>0 DEF StoreInv, StoreShape
<1>4. /\ row \in [net : tables.networks, installed : BOOLEAN, seen : BOOLEAN, policy : Nat]
      /\ tables.conns[c].installed => row.installed
      /\ row.seen
  <2>1. PICK old : old = tables.conns[c]
    OBVIOUS
  <2>2. CASE row = [old EXCEPT !.installed = TRUE, !.seen = TRUE]
    BY <1>3, <2>1, <2>2
  <2>3. CASE row = [old EXCEPT !.policy = v, !.seen = TRUE]
    <3>1. row \in [net : tables.networks, installed : BOOLEAN, seen : BOOLEAN, policy : Nat]
      <4>1. v \in Nat
        OBVIOUS
      <4>2. QED BY <1>3, <2>1, <2>3, <4>1
    <3>2. row.installed = old.installed /\ row.seen
      BY <1>3, <2>1, <2>3
    <3>3. QED BY <2>1, <3>1, <3>2
  <2>4. QED BY <1>1, <2>1, <2>2, <2>3
<1>5. tables' = [tables EXCEPT !.conns = rows]
  <2>1. CASE SimulateConnectorHeartbeat(c) /\ row = [tables.conns[c] EXCEPT !.installed = TRUE, !.seen = TRUE]
    BY <1>0, <1>2, <2>1 DEF SimulateConnectorHeartbeat, StoreInv, StoreShape, TableNames
  <2>2. CASE UpdateConnectorHeartbeat(c, v) /\ row = [tables.conns[c] EXCEPT !.policy = v, !.seen = TRUE]
    BY <1>0, <1>2, <2>2 DEF UpdateConnectorHeartbeat, StoreInv, StoreShape, TableNames
  <2>3. QED BY <1>1, <2>1, <2>2
<1>6. /\ rows \in [DOMAIN rows -> [net : tables.networks, installed : BOOLEAN, seen : BOOLEAN, policy : Nat]]
      /\ DOMAIN rows = DOMAIN tables.conns /\ rows[c] = row /\ \A d \in DOMAIN tables.conns : d # c => rows[d] = tables.conns[d]
  BY <1>0, <1>2, <1>4 DEF StoreInv, StoreShape
<1>7. \A d \in DOMAIN tables.conns : /\ tables.conns[d].installed => rows[d].installed
                                     /\ tables.conns[d].seen => rows[d].seen
  BY <1>4, <1>6
<1>8. QED BY <1>0, <1>5, <1>6, <1>7, ConnsStep

\* Resources: a row is added or moved to another network.
LEMMA ResourcesStep ==
  ASSUME StoreInv, NEW n, NEW r, AddResource(n) \/ UpdateResource(r, n)
  PROVE  StoreInv'
<1>0. Written /\ hist'.deleted = hist.deleted /\ n \in tables.networks
  BY WriteFacts DEF AddResource, UpdateResource
<1>1. PICK rs : \/ rs = Put(tables.resources, Stamp("res"), n) /\ AddResource(n)
                \/ rs = [tables.resources EXCEPT ![r] = n] /\ UpdateResource(r, n)
  OBVIOUS
<1>2. tables' = [tables EXCEPT !.resources = rs]
  BY <1>1 DEF AddResource, UpdateResource
<1>3. rs \in [DOMAIN rs -> tables.networks] /\ DOMAIN tables.resources \subseteq DOMAIN rs
  <2>1. tables.resources \in [DOMAIN tables.resources -> tables.networks]
    BY DEF StoreInv, StoreShape
  <2>2. PICK s : s = Stamp("res")
    OBVIOUS
  <2>3. CASE rs = Put(tables.resources, s, n)
    BY <1>0, <2>1, <2>3 DEF Put
  <2>4. CASE rs = [tables.resources EXCEPT ![r] = n]
    BY <1>0, <2>1, <2>4
  <2>5. QED BY <1>1, <2>2, <2>3, <2>4
<1>4. /\ tables' = [x \in TableNames |-> tables'[x]] /\ tables'.ruleGroups = tables.ruleGroups /\ tables'.rules = tables.rules
      /\ tables'.users = tables.users /\ tables'.groups = tables.groups /\ tables'.members = tables.members /\ tables'.networks = tables.networks
      /\ tables'.conns = tables.conns /\ tables'.resources = rs /\ tables'.seeded = tables.seeded
  BY <1>2 DEF StoreInv, StoreShape, TableNames
<1>5. IsFiniteSet(tables.users) /\ IsFiniteSet(tables.members) /\ tables.members \subseteq tables.groups \X tables.users
  BY DEF StoreInv, StoreShape
<1>6. QED BY <1>0, <1>3, <1>4, <1>5, OtherTables DEF RulesAlone

\* Rules: rows of the two tables change together.
LEMMA RulesStep ==
  ASSUME StoreInv, NEW rules, NEW grants, tables' = [tables EXCEPT !.rules = rules, !.ruleGroups = grants], Written,
         rules \in [DOMAIN rules -> [res : DOMAIN tables.resources, on : BOOLEAN]],
         \A k \in DOMAIN rules : \/ Plain(k)
                                 \/ Granted(k) /\ rules[k].res = k[4] /\ << k, k[3] >> \in grants,
         \A rg \in grants : /\ rg = << rg[1], rg[2] >> /\ rg[2] \in tables.groups
                            /\ rg[1] \in DOMAIN rules \cup { row.id : row \in legacy },
         \A j, k \in DOMAIN rules :
             (Granted(j) /\ Granted(k) /\ j[3] = k[3] /\ j[4] = k[4]) => j = k,
         rulesTab = "current",
         DOMAIN tables.rules \subseteq DOMAIN rules \cup hist'.deleted,
         \A k \in DOMAIN rules \ DOMAIN tables.rules : k[2] \notin 0 .. 9,
         \A rg \in grants \ tables.ruleGroups : rg[1][2] \notin 0 .. 9,
         hist.deleted \subseteq hist'.deleted, (hist'.deleted \ hist.deleted) \cap DOMAIN rules = {}
  PROVE  StoreInv'
<1>1. /\ tables' = [x \in TableNames |-> tables'[x]] /\ tables'.ruleGroups = grants /\ tables'.rules = rules
      /\ tables'.users = tables.users /\ tables'.groups = tables.groups /\ tables'.members = tables.members /\ tables'.networks = tables.networks
      /\ tables'.conns = tables.conns /\ tables'.resources = tables.resources /\ tables'.seeded = tables.seeded
  BY DEF StoreInv, StoreShape, TableNames
<1>2. StoreShape'
  BY <1>1 DEF StoreInv, StoreShape
<1>3. RulesShape'
  BY <1>1 DEF RulesShape, Plain, Granted
<1>4. GrantsShape'
  BY <1>1 DEF GrantsShape, Written
<1>5. RulesWritten
  BY <1>1 DEF RulesWritten
<1>6. QED BY <1>1, <1>2, <1>3, <1>4, <1>5, WriteStep

LEMMA DeleteAccessRuleStep ==
  ASSUME StoreInv, NEW k, DeleteAccessRule(k)
  PROVE  StoreInv'
<1>1. PICK rules, grants : rules = Drop(tables.rules, {k}) /\ grants = { g \in tables.ruleGroups : g[1] # k }
  OBVIOUS
<1>2. tables' = [tables EXCEPT !.rules = rules, !.ruleGroups = grants] /\ rulesTab = "current" /\ k \in DOMAIN tables.rules
  BY <1>1 DEF DeleteAccessRule
<1>3. Written /\ hist'.deleted = hist.deleted \cup {k}
  BY DEF DeleteAccessRule, Written, StoreInv, PastShape, HistNames
<1>4. DOMAIN rules = DOMAIN tables.rules \ {k} /\ \A j \in DOMAIN rules : rules[j] = tables.rules[j]
  BY <1>1 DEF Drop
<1>5. rules \in [DOMAIN rules -> [res : DOMAIN tables.resources, on : BOOLEAN]]
  BY <1>1, <1>4 DEF Drop, StoreInv, StoreShape
<1>6. \A j \in DOMAIN rules : \/ Plain(j)
                              \/ Granted(j) /\ rules[j].res = j[4] /\ << j, j[3] >> \in grants
  BY <1>1, <1>4 DEF StoreInv, RulesShape
<1>7. \A rg \in grants : /\ rg = << rg[1], rg[2] >> /\ rg[2] \in tables.groups
                         /\ rg[1] \in DOMAIN rules \cup { row.id : row \in legacy }
  BY <1>1, <1>4 DEF StoreInv, GrantsShape
<1>8. \A i, j \in DOMAIN rules : (Granted(i) /\ Granted(j) /\ i[3] = j[3] /\ i[4] = j[4]) => i = j
  BY <1>4 DEF StoreInv, RulesShape
<1>9. /\ DOMAIN tables.rules \subseteq DOMAIN rules \cup hist'.deleted
      /\ \A j \in DOMAIN rules \ DOMAIN tables.rules : j[2] \notin 0 .. 9
      /\ hist.deleted \subseteq hist'.deleted /\ (hist'.deleted \ hist.deleted) \cap DOMAIN rules = {}
  BY <1>3, <1>4
<1>a. grants \ tables.ruleGroups = {}
  BY <1>1
<1>10. QED BY <1>2, <1>3, <1>5, <1>6, <1>7, <1>8, <1>9, <1>a, RulesStep

LEMMA CreateAccessRuleStep ==
  ASSUME StoreInv, NEW r, NEW gs, NEW on \in BOOLEAN, CreateAccessRule(r, gs, on)
  PROVE  StoreInv'
<1>0. rulesTab = "current" /\ r \in DOMAIN tables.resources /\ gs \subseteq tables.groups
  BY DEF CreateAccessRule
<1>1. PICK k, row : k = Stamp("rule") /\ row = [res |-> r, on |-> on]
  OBVIOUS
<1>2. PICK rules, grants : rules = Put(tables.rules, k, row) /\ grants = tables.ruleGroups \cup ({k} \X gs)
  OBVIOUS
<1>3. tables' = [tables EXCEPT !.rules = rules, !.ruleGroups = grants] /\ Written /\ hist'.deleted = hist.deleted
  BY <1>1, <1>2, WriteFacts DEF CreateAccessRule
<1>4. Plain(k) /\ k[2] \notin 0 .. 9 /\ k \notin DOMAIN tables.rules
  BY <1>1 DEF CreateAccessRule, Stamp, Plain, StoreInv, StoreTypeOK
<1>5. row \in [res : DOMAIN tables.resources, on : BOOLEAN]
  BY <1>0, <1>1
<1>6. DOMAIN rules = DOMAIN tables.rules \cup {k} /\ rules[k] = row /\ \A j \in DOMAIN tables.rules : rules[j] = tables.rules[j]
  BY <1>2, <1>4 DEF Put
<1>7. rules \in [DOMAIN rules -> [res : DOMAIN tables.resources, on : BOOLEAN]]
  BY <1>2, <1>5 DEF Put, StoreInv, StoreShape
<1>8. \A j \in DOMAIN rules : \/ Plain(j)
                              \/ Granted(j) /\ rules[j].res = j[4] /\ << j, j[3] >> \in grants
  BY <1>2, <1>4, <1>6 DEF StoreInv, RulesShape
<1>9. \A rg \in grants : /\ rg = << rg[1], rg[2] >> /\ rg[2] \in tables.groups
                         /\ rg[1] \in DOMAIN rules \cup { row1.id : row1 \in legacy }
  BY <1>0, <1>2, <1>6 DEF StoreInv, GrantsShape
<1>10. \A i, j \in DOMAIN rules : (Granted(i) /\ Granted(j) /\ i[3] = j[3] /\ i[4] = j[4]) => i = j
  BY <1>4, <1>6, OneKindOfName DEF StoreInv, RulesShape
<1>a. \A rg \in grants \ tables.ruleGroups : rg[1][2] \notin 0 .. 9
  BY <1>2, <1>4
<1>11. QED BY <1>0, <1>3, <1>4, <1>6, <1>7, <1>8, <1>9, <1>10, <1>a, RulesStep

LEMMA AddGroupResourcesStep ==
  ASSUME StoreInv, NEW g, NEW rs, AddGroupResources(g, rs)
  PROVE  StoreInv'
<1>0. rulesTab = "current" /\ g \in tables.groups /\ rs \subseteq DOMAIN tables.resources
  BY DEF AddGroupResources
<1>1. PICK fresh : fresh = { << "rule", 10 + clock, g, r >> : r \in Ungranted(g, rs) }
  OBVIOUS
<1>2. PICK rules : rules = [k \in DOMAIN tables.rules \cup fresh |->
                               IF k \in fresh THEN [res |-> k[4], on |-> TRUE] ELSE tables.rules[k]]
  OBVIOUS
<1>3. PICK grants : grants = tables.ruleGroups \cup (fresh \X {g})
  OBVIOUS
<1>4. tables' = [tables EXCEPT !.rules = rules, !.ruleGroups = grants] /\ Written /\ hist'.deleted = hist.deleted
  BY <1>1, <1>2, <1>3, WriteFacts DEF AddGroupResources
<1>5. fresh \cap DOMAIN tables.rules = {}
  BY <1>1 DEF AddGroupResources
<1>6. \A k \in fresh : Granted(k) /\ k[2] \notin 0 .. 9 /\ k[3] = g /\ k[4] \in DOMAIN tables.resources
  BY <1>0, <1>1 DEF Ungranted, Granted, StoreInv, StoreTypeOK
<1>7. /\ DOMAIN rules = DOMAIN tables.rules \cup fresh
      /\ \A k \in fresh : rules[k] = [res |-> k[4], on |-> TRUE]
      /\ \A k \in DOMAIN tables.rules : rules[k] = tables.rules[k]
  BY <1>2, <1>5
<1>8. rules \in [DOMAIN rules -> [res : DOMAIN tables.resources, on : BOOLEAN]]
  <2>0. \A r \in DOMAIN tables.resources : [res |-> r, on |-> TRUE] \in [res : DOMAIN tables.resources, on : BOOLEAN]
    OBVIOUS
  <2>1. \A k \in fresh : rules[k] \in [res : DOMAIN tables.resources, on : BOOLEAN]
    BY <1>6, <1>7, <2>0
  <2>2. \A k \in DOMAIN tables.rules : rules[k] \in [res : DOMAIN tables.resources, on : BOOLEAN]
    BY <1>7 DEF StoreInv, StoreShape
  <2>3. QED BY <1>2, <1>7, <2>1, <2>2
<1>9. \A j \in DOMAIN rules : \/ Plain(j)
                              \/ Granted(j) /\ rules[j].res = j[4] /\ << j, j[3] >> \in grants
  <2>1. \A j \in fresh : rules[j].res = j[4] /\ << j, j[3] >> \in grants
    BY <1>3, <1>6, <1>7
  <2>2. QED BY <1>3, <1>6, <1>7, <2>1 DEF StoreInv, RulesShape
<1>10. \A rg \in grants : /\ rg = << rg[1], rg[2] >> /\ rg[2] \in tables.groups
                          /\ rg[1] \in DOMAIN rules \cup { row.id : row \in legacy }
  BY <1>0, <1>3, <1>7 DEF StoreInv, GrantsShape
<1>11. \A i, j \in DOMAIN rules : (Granted(i) /\ Granted(j) /\ i[3] = j[3] /\ i[4] = j[4]) => i = j
  <2>1. SUFFICES ASSUME NEW i \in DOMAIN rules, NEW j \in fresh, Granted(i), Granted(j), i[3] = j[3], i[4] = j[4]
                 PROVE  i = j
    BY <1>7 DEF StoreInv, RulesShape
  <2>2. j = << "rule", 10 + clock, g, j[4] >> /\ j[4] \in Ungranted(g, rs)
    BY <1>1
  <2>3. CASE i \in fresh
    BY <1>1, <2>1, <2>2, <2>3
  <2>4. CASE i \in DOMAIN tables.rules
    <3>1. tables.rules[i].res = j[4] /\ << i, g >> \in tables.ruleGroups
      BY <2>1, <2>2, <2>4, OneKindOfName DEF StoreInv, RulesShape
    <3>2. QED BY <2>2, <2>4, <3>1 DEF Ungranted
  <2>5. QED BY <1>7, <2>3, <2>4
<1>12. /\ DOMAIN tables.rules \subseteq DOMAIN rules \cup hist'.deleted
       /\ \A k \in DOMAIN rules \ DOMAIN tables.rules : k[2] \notin 0 .. 9
       /\ hist.deleted \subseteq hist'.deleted /\ (hist'.deleted \ hist.deleted) \cap DOMAIN rules = {}
  BY <1>4, <1>6, <1>7
<1>a. \A rg \in grants \ tables.ruleGroups : rg[1][2] \notin 0 .. 9
  BY <1>3, <1>6
<1>13. QED BY <1>0, <1>4, <1>8, <1>9, <1>10, <1>11, <1>12, <1>a, RulesStep

LEMMA TickStep == StoreInv /\ Tick => StoreInv'
<1> SUFFICES ASSUME StoreInv, Tick PROVE StoreInv'
  OBVIOUS
<1>1. UNCHANGED << pc, missing, rulesTab, legacy, staged, tables, hist >> /\ clock < MaxTime /\ clock' = clock + 1
  BY DEF Tick
<1>2. StoreShape' /\ RulesShape' /\ GrantsShape'
  BY <1>1, RowsStay DEF StoreInv
<1>3. StoreTypeOK'
  BY <1>1, StoreAssumption DEF StoreInv, StoreTypeOK
<1>4. PastShape' /\ DeletedSeedStaysDeleted' /\ StepShape' /\ SeedShape'
  BY <1>1 DEF StoreInv, PastShape, DeletedSeedStaysDeleted, StepShape, SeedShape
<1>5. BackfillShape' /\ LegacyShape'
  BY <1>1 DEF StoreInv, BackfillShape, LegacyShape, OldGroupIds, OldUserIds
<1>k. KeptShape'
  BY <1>1, KeptStays DEF StoreInv
<1>6. QED BY <1>2, <1>3, <1>4, <1>5, <1>k DEF StoreInv

LEMMA StoreStays == StoreInv /\ UNCHANGED storeVars => StoreInv'
<1> SUFFICES ASSUME StoreInv, UNCHANGED storeVars PROVE StoreInv'
  OBVIOUS
<1>1. UNCHANGED << pc, missing, rulesTab, legacy, staged, tables, hist, clock >>
  BY DEF storeVars
<1>2. StoreShape' /\ RulesShape' /\ GrantsShape'
  BY <1>1, RowsStay DEF StoreInv
<1>3. StoreTypeOK' /\ PastShape' /\ DeletedSeedStaysDeleted' /\ StepShape' /\ SeedShape'
  BY <1>1 DEF StoreInv, StoreTypeOK, PastShape, DeletedSeedStaysDeleted, StepShape, SeedShape
<1>4. BackfillShape' /\ LegacyShape'
  BY <1>1 DEF StoreInv, BackfillShape, LegacyShape, OldGroupIds, OldUserIds
<1>k. KeptShape'
  BY <1>1, KeptStays DEF StoreInv
<1>5. QED BY <1>2, <1>3, <1>4, <1>k DEF StoreInv

LEMMA StoreInductive == StoreInv /\ [StoreNext]_storeVars => StoreInv'
<1> SUFFICES ASSUME StoreInv, [StoreNext]_storeVars PROVE StoreInv'
  OBVIOUS
<1>1. CASE OpenNext
  BY <1>1, GetDbStep, InitSchemaStep, BackfillInstalledStep, BackfillLastSeenStep, EnsureColumnStep,
     RulesBeginStep, RulesCopyStep, RulesDropStep, RulesRenameStep, SeedIfNeededStep, CrashStep DEF OpenNext
<1>2. CASE DataNext
  BY <1>2, AddRowStep, TickStep, AddConnectorStep, ResourcesStep, HeartbeatStep, UpdateGroupMembersStep,
     RemoveGroupMemberStep, AddGroupResourcesStep, CreateAccessRuleStep, DeleteAccessRuleStep DEF DataNext
<1>3. QED BY <1>1, <1>2, StoreStays DEF StoreNext

LEMMA StoreSafe == StoreSpec => []StoreInv
  BY StoreInitInv, StoreInductive, PTL DEF StoreSpec

-----------------------------------------------------------------------------
(* What it gives.                                                          *)

LEMMA FileOKFollows == StoreInv => FileOK
<1> SUFFICES ASSUME StoreInv PROVE FileOK
  OBVIOUS
<1>1. References
  <2>1. tables.members \subseteq tables.groups \X tables.users
    BY DEF StoreInv, StoreShape
  <2>2. \A c \in DOMAIN tables.conns : tables.conns[c].net \in tables.networks
    BY DEF StoreInv, StoreShape
  <2>3. \A r \in DOMAIN tables.resources : tables.resources[r] \in tables.networks
    BY DEF StoreInv, StoreShape
  <2>4. \A k \in DOMAIN tables.rules : tables.rules[k].res \in DOMAIN tables.resources
    BY DEF StoreInv, StoreShape
  <2>5. QED BY <2>1, <2>2, <2>3, <2>4 DEF References, StoreInv, GrantsShape
<1>2. OneRulePerGrant
  BY OneKindOfName DEF OneRulePerGrant, StoreInv, RulesShape
<1>3. QED BY <1>1, <1>2 DEF StoreInv, FileOK

\* The sizes of sets of the two columns that have an UPDATE.
LEMMA TwoAtMost ==
  ASSUME NEW S, S \subseteq {"installed", "last_seen_at"}
  PROVE  /\ Cardinality(S) \in 0 .. 2
         /\ S = {} => Cardinality(S) = 0
         /\ S # {"installed", "last_seen_at"} => Cardinality(S) <= 1
<1>1. Cardinality({}) = 0
  BY FS_EmptySet
<1>2. IsFiniteSet({"installed"}) /\ Cardinality({"installed"}) = 1 /\ Cardinality({"last_seen_at"}) = 1
  BY FS_Singleton
<1>3. {"installed", "last_seen_at"} = {"installed"} \cup {"last_seen_at"}
  OBVIOUS
<1>4. Cardinality({"installed", "last_seen_at"}) = 2
  <2>1. "last_seen_at" \notin {"installed"}
    OBVIOUS
  <2>2. Cardinality({"installed"} \cup {"last_seen_at"}) = Cardinality({"installed"}) + 1
    BY <1>2, <2>1, FS_AddElement
  <2>3. QED BY <1>2, <1>3, <2>2
<1>5. CASE "installed" \in S /\ "last_seen_at" \in S
  <2>1. S = {"installed", "last_seen_at"}
    BY <1>5
  <2>2. Cardinality(S) = 2 /\ S # {}
    BY <1>4, <1>5, <2>1
  <2>3. QED BY <2>1, <2>2
<1>6. CASE "installed" \in S /\ "last_seen_at" \notin S
  <2>1. S = {"installed"}
    BY <1>6
  <2>2. S # {}
    BY <2>1
  <2>3. Cardinality(S) = 1
    BY <1>2, <2>1
  <2>4. Cardinality(S) \in 0 .. 2 /\ Cardinality(S) <= 1
    BY <2>3
  <2>5. QED BY <2>2, <2>4
<1>7. CASE "installed" \notin S /\ "last_seen_at" \in S
  <2>1. S = {"last_seen_at"}
    BY <1>7
  <2>2. S # {}
    BY <2>1
  <2>3. Cardinality(S) = 1
    BY <1>2, <2>1
  <2>4. Cardinality(S) \in 0 .. 2 /\ Cardinality(S) <= 1
    BY <2>3
  <2>5. QED BY <2>2, <2>4
<1>8. CASE "installed" \notin S /\ "last_seen_at" \notin S
  <2>1. S = {}
    BY <1>8
  <2>2. Cardinality(S) = 0
    BY <1>1, <2>1
  <2>3. QED BY <2>2
<1>9. QED BY <1>5, <1>6, <1>7, <1>8

LEMMA StartKeepsFollows == StoreInv => StartKeeps
<1> SUFFICES ASSUME StoreInv PROVE StartKeeps
  OBVIOUS
<1>1. ConnectorsBackfilled
  <2>1. SUFFICES ASSUME pc = "ready" PROVE Cardinality(Unfilled) <= hist.crashes
    BY DEF ConnectorsBackfilled
  <2>2. /\ "installed" \in Unfilled => "backfill_installed" \in hist.torn
        /\ "last_seen_at" \in Unfilled => "backfill_last_seen_at" \in hist.torn
        /\ Unfilled \subseteq {"installed", "last_seen_at"}
    BY <2>1 DEF StoreInv, StoreShape, SeedShape, BackfillShape, Unfilled
  <2>3. hist.crashes \in Nat
    BY DEF StoreInv, PastShape
  <2>4. /\ hist.torn # {} => hist.crashes >= 1
        /\ {"backfill_installed", "backfill_last_seen_at"} \subseteq hist.torn => hist.crashes >= 2
    BY DEF StoreInv, BackfillShape
  <2>5. PICK n : n = Cardinality(Unfilled)
    OBVIOUS
  <2>6. n \in 0 .. 2 /\ (Unfilled = {} => n = 0) /\ (Unfilled # {"installed", "last_seen_at"} => n <= 1)
    BY <2>2, <2>5, TwoAtMost
  <2>7. CASE Unfilled = {}
    BY <2>3, <2>5, <2>6, <2>7
  <2>8. CASE Unfilled = {"installed", "last_seen_at"}
    <3>1. hist.crashes >= 2
      BY <2>2, <2>4, <2>8
    <3>2. QED BY <2>3, <2>5, <2>6, <3>1
  <2>9. CASE Unfilled # {} /\ Unfilled # {"installed", "last_seen_at"}
    <3>1. hist.torn # {}
      BY <2>2, <2>9
    <3>2. hist.crashes >= 1
      BY <2>4, <3>1
    <3>3. QED BY <2>3, <2>5, <2>6, <2>9, <3>2
  <2>10. QED BY <2>7, <2>8, <2>9
<1>2. LegacyRulesKept
  <2>1. SUFFICES ASSUME NEW row \in hist.old
                 PROVE  /\ row.type = "GROUP" =>
                            /\ \/ row \in legacy
                               \/ row.id \in staged \cup DOMAIN tables.rules \cup hist.deleted
                            /\ (pc = "ready" /\ ~hist.threw /\ "rename" \notin hist.torn) =>
                                   row.id \in DOMAIN tables.rules \cup hist.deleted
                        /\ row.type = "USER" => row.id \notin DOMAIN tables.rules
    BY DEF LegacyRulesKept
  <2>2. rulesTab # "legacy" => legacy = {}
    BY DEF StoreInv, StepShape
  <2>3. rulesTab = "legacy" => row \in legacy
    BY DEF StoreInv, StepShape
  <2>4. QED BY <2>2, <2>3 DEF StoreInv, LegacyShape, KeptShape, OldGroupIds, OldUserIds
<1>3. NoGrantGained
  BY DEF StoreInv, KeptShape, NoGrantGained
<1>4. QED BY <1>1, <1>2, <1>3 DEF StoreInv, StartKeeps

\* As many users as rows of a group.
LEMMA MembersCounted ==
  ASSUME StoreInv, NEW g \in tables.groups
  PROVE  Cardinality({ m \in tables.members : m[1] = g }) = Cardinality({ u \in tables.users : << g, u >> \in tables.members })
<1>1. PICK S : S = { m \in tables.members : m[1] = g }
  OBVIOUS
<1>2. PICK T : T = { u \in tables.users : << g, u >> \in tables.members }
  OBVIOUS
<1>3. PICK f : f = [m \in S |-> m[2]]
  OBVIOUS
<1>4. \A m \in S : m = << g, m[2] >> /\ m[2] \in T
  <2>1. tables.members \subseteq tables.groups \X tables.users
    BY DEF StoreInv, StoreShape
  <2>2. SUFFICES ASSUME NEW m \in S PROVE m = << g, m[2] >> /\ m[2] \in T
    OBVIOUS
  <2>3. m \in tables.members /\ m[1] = g
    BY <1>1
  <2>4. m = << m[1], m[2] >> /\ m[2] \in tables.users
    BY <2>1, <2>3
  <2>5. QED BY <1>2, <2>3, <2>4
<1>5. \A u \in T : << g, u >> \in S
  BY <1>1, <1>2
<1>6. f \in Bijection(S, T)
  <2>1. f \in [S -> T]
    BY <1>3, <1>4
  <2>2. \A a, b \in S : f[a] = f[b] => a = b
    BY <1>3, <1>4
  <2>3. \A u \in T : \E m \in S : f[m] = u
    BY <1>3, <1>5
  <2>4. QED BY <2>1, <2>2, <2>3 DEF Bijection, Injection, Surjection, IsInjective
<1>7. IsFiniteSet(S)
  BY <1>1, FS_Subset DEF StoreInv, StoreShape
<1>8. QED BY <1>1, <1>2, <1>6, <1>7, FS_Bijection DEF ExistsBijection

LEMMA ViewsAgreeFollows == StoreInv => ViewsAgree
<1> SUFFICES ASSUME StoreInv PROVE ViewsAgree
  OBVIOUS
<1>1. \A n \in tables.networks :
          /\ ListRemoteNetworks[n].connectors = Cardinality(GetRemoteNetworkDetail(n).connectors)
          /\ ListRemoteNetworks[n].resources = Cardinality(GetRemoteNetworkDetail(n).resources)
  BY DEF ListRemoteNetworks, GetRemoteNetworkDetail
<1>2. \A c \in DOMAIN tables.conns : GetConnectorDetail(c).network # {}
  BY FileOKFollows DEF GetConnectorDetail, FileOK, References
<1>3. ASSUME NEW g \in tables.groups
      PROVE  /\ ListGroups[g].members = Cardinality(GetGroupDetail(g).members)
             /\ ListGroups[g].resources = Cardinality(GetGroupDetail(g).resources)
             /\ \A u \in tables.users : (u \in GetGroupDetail(g).members) <=> (g \in ListUsers[u])
             /\ \A r \in DOMAIN tables.resources :
                    (r \in GetGroupDetail(g).resources) <=>
                        \E rule \in GetResourceDetail(r) : g \in rule.allowedGroups
  <2>1. ListGroups[g].members = Cardinality(GetGroupDetail(g).members)
    BY MembersCounted DEF ListGroups, GetGroupDetail
  <2>2. { tables.rules[k].res : k \in RulesOfGroup(g) }
            = { r \in DOMAIN tables.resources : \E k \in RulesOfGroup(g) : tables.rules[k].res = r }
    BY FileOKFollows DEF FileOK, References, RulesOfGroup
  <2>3. ListGroups[g].resources = Cardinality(GetGroupDetail(g).resources)
    BY <2>2 DEF ListGroups, GetGroupDetail
  <2>4. \A u \in tables.users : (u \in GetGroupDetail(g).members) <=> (g \in ListUsers[u])
    <3>1. SUFFICES ASSUME NEW u \in tables.users
                   PROVE  (u \in GetGroupDetail(g).members) <=> (g \in ListUsers[u])
      OBVIOUS
    <3>2. tables.members \subseteq tables.groups \X tables.users
      BY DEF StoreInv, StoreShape
    <3>3. (u \in GetGroupDetail(g).members) <=> << g, u >> \in tables.members
      BY DEF GetGroupDetail
    <3>4. ListUsers[u] = { m[1] : m \in { x \in tables.members : x[2] = u } }
      BY DEF ListUsers
    <3>5. << g, u >> \in tables.members <=> \E m \in tables.members : m[2] = u /\ m[1] = g
      BY <3>2
    <3>6. QED BY <3>3, <3>4, <3>5
  <2>5. ASSUME NEW r \in DOMAIN tables.resources
        PROVE  (r \in GetGroupDetail(g).resources) <=> \E rule \in GetResourceDetail(r) : g \in rule.allowedGroups
    <3>1. (r \in GetGroupDetail(g).resources) <=> \E k \in DOMAIN tables.rules : << k, g >> \in tables.ruleGroups /\ tables.rules[k].res = r
      BY DEF GetGroupDetail, RulesOfGroup
    <3>2. \A k : g \in { rg[2] : rg \in { x \in tables.ruleGroups : x[1] = k } } <=> << k, g >> \in tables.ruleGroups
      BY DEF StoreInv, GrantsShape
    <3>3. (\E rule \in GetResourceDetail(r) : g \in rule.allowedGroups)
             <=> \E k \in DOMAIN tables.rules : /\ tables.rules[k].res = r
                                                /\ g \in { rg[2] : rg \in { x \in tables.ruleGroups : x[1] = k } }
      <4>1. PICK al : al = [k \in DOMAIN tables.rules |-> { rg[2] : rg \in { x \in tables.ruleGroups : x[1] = k } }]
        OBVIOUS
      <4>2. GetResourceDetail(r) = { [id |-> k, allowedGroups |-> al[k]] : k \in { x \in DOMAIN tables.rules : tables.rules[x].res = r } }
        BY <4>1 DEF GetResourceDetail
      <4>3. (\E rule \in GetResourceDetail(r) : g \in rule.allowedGroups)
               <=> \E k \in DOMAIN tables.rules : tables.rules[k].res = r /\ g \in al[k]
        <5>1. ASSUME NEW rule \in GetResourceDetail(r), g \in rule.allowedGroups
              PROVE  \E k \in DOMAIN tables.rules : tables.rules[k].res = r /\ g \in al[k]
          <6>1. PICK k \in DOMAIN tables.rules : tables.rules[k].res = r /\ rule = [id |-> k, allowedGroups |-> al[k]]
            BY <4>2
          <6>2. rule.allowedGroups = al[k]
            BY <6>1
          <6>3. QED BY <5>1, <6>1, <6>2
        <5>2. ASSUME NEW k \in DOMAIN tables.rules, tables.rules[k].res = r, g \in al[k]
              PROVE  \E rule \in GetResourceDetail(r) : g \in rule.allowedGroups
          <6>1. PICK rule : rule = [id |-> k, allowedGroups |-> al[k]]
            OBVIOUS
          <6>2. rule \in GetResourceDetail(r) /\ rule.allowedGroups = al[k]
            BY <4>2, <5>2, <6>1
          <6>3. QED BY <5>2, <6>2
        <5>3. QED BY <5>1, <5>2
      <4>4. QED BY <4>1, <4>3
    <3>4. QED BY <3>1, <3>2, <3>3
  <2>6. QED BY <2>1, <2>3, <2>4, <2>5
<1>4. QED BY <1>1, <1>2, <1>3 DEF ViewsAgree

\* In every state a write, a migration or a stop in the middle of one can
\* leave it in, the store's file is well formed: its rows refer to rows that
\* are there, and addGroupResources has made no two rules for one group and
\* resource (lib/db.ts 34-312).
THEOREM FileOKTheorem == StoreSpec => []FileOK
  BY StoreSafe, FileOKFollows, PTL

\* A start of the console, wherever earlier starts were stopped or threw, loses at
\* most one column's values of the old connectors for each stop, no legacy rule of
\* a group, gives no group access it did not have, and brings back no seeded rule
\* an administrator deleted (lib/db.ts 132-312).
THEOREM StartKeepsTheorem == StoreSpec => []StartKeeps
  BY StoreSafe, StartKeepsFollows, PTL

\* The lists and the detail pages, each computed by queries of its own over
\* the same tables, never contradict each other (lib/data.ts 118-434).
THEOREM ViewsAgreeTheorem == StoreSpec => []ViewsAgree
  BY StoreSafe, ViewsAgreeFollows, PTL

=============================================================================
