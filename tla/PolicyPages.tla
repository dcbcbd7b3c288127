------------------------------ MODULE PolicyPages ------------------------------
(***************************************************************************)
(* The console's policy pages.  Resource policies, the sign-in policy and  *)
(* the device profiles live in the browser's localStorage only: three keys *)
(* that every tab of the console reads and writes whole.  A change is a    *)
(* read followed by a write of what was computed from it, and nothing      *)
(* locks the storage between tabs: other tabs read and write in between.   *)
(* A page holds a copy of what it read and saves the copy.                 *)
(***************************************************************************)
EXTENDS Integers

CONSTANTS
    Tabs,         \* tabs with a policy page
    Names,        \* policy names, trimmed
    Folded,       \* a name in lower case
    DefaultName,  \* "Default Policy"
    Ids,          \* what newId returns
    Platforms,    \* operating systems
    Days, Hours,  \* numbers a user types into the form
    MaxOps        \* bound on the operations of all tabs

Nothing == [kind |-> "none"]      \* no operation, no value
Ensured == [kind |-> "ensured"]   \* the default was there; the list is read next
DefaultId == "default"
Modes == {"any", "trusted", "custom"}

ASSUME PolicyPagesAssumption ==
    /\ DefaultName \in Names /\ Folded \in [Names -> Names]
    /\ DefaultId \notin Ids
    /\ Days \subseteq Int /\ Hours \subseteq Int /\ MaxOps \in Nat

VARIABLES
    policies,  \* the policies stored, {} when the key is missing
    signIn,    \* the sign-in policy stored, or Nothing
    profiles,  \* the device profiles stored, or Nothing
    used,      \* policy ids given out
    run,       \* per tab, the operation under way
    buf,       \* per tab, what it will write
    held,      \* per tab, the policies its page holds
    ops,       \* operations begun
    wiped      \* history: a clear fell between a tab's check and its read

vars == << policies, signIn, profiles, used, run, buf, held, ops, wiped >>

Policy == [id : Ids \cup {DefaultId}, name : Names, isDefault : BOOLEAN, mode : Modes]
IdsOf(ps) == { p.id : p \in ps }

-----------------------------------------------------------------------------
(* What is read from the storage.                                          *)

DefaultPolicy == [id |-> DefaultId, name |-> DefaultName, isDefault |-> TRUE, mode |-> "any"]
DefaultSignIn == [days |-> 30, hours |-> 0, required |-> FALSE]
DefaultProfiles == [trusted |-> {}, approved |-> Platforms]

ReadSignIn == IF signIn = Nothing THEN DefaultSignIn ELSE signIn
ReadProfiles == IF profiles = Nothing THEN DefaultProfiles ELSE profiles

-----------------------------------------------------------------------------
(* Operations: what the user does, and what it makes of the stored value.  *)

\* The trash button of the list is there for policies that are not the
\* default, and deleteResourcePolicy refuses the default's id.
Deletable(p) == ~p.isDefault /\ p.id # DefaultId

\* handleConfirmReauth.
ReauthOk(d, h) == d >= 0 /\ h >= 0 /\ h <= 23 /\ ~(d = 0 /\ h = 0)

Ops(t) ==
    {[kind |-> "load"]}
    \cup [kind : {"create"}, name : Names]
    \cup { [kind |-> "delete", id |-> p.id] : p \in { q \in held[t] : Deletable(q) } }
    \cup { [kind |-> "save", policy |-> [p EXCEPT !.mode = m]] : p \in held[t], m \in Modes }
    \cup { [kind |-> "reauth", d |-> d, h |-> h] : d \in Days, h \in Hours }
    \cup [kind : {"mfa"}, required : BOOLEAN]
    \cup [kind : {"trust"}, platform : Platforms]
    \cup [kind : {"approve"}, platform : Platforms, enabled : BOOLEAN]

PolicyOps == {"load", "create", "delete", "save"}

Idle(t) == run[t] = Nothing

\* The user clicks; the setDeviceMode of a page changes its copy at once.
Begin(t) ==
    /\ Idle(t) /\ ops < MaxOps
    /\ \E o \in Ops(t) :
          /\ (o.kind = "reauth" => ReauthOk(o.d, o.h))
          /\ run' = [run EXCEPT ![t] = o]
          /\ held' = IF o.kind = "save"
                     THEN [held EXCEPT ![t] = { IF p.id = o.policy.id THEN o.policy ELSE p : p \in @ }]
                     ELSE held
    /\ ops' = ops + 1
    /\ UNCHANGED << policies, signIn, profiles, used, buf, wiped >>

\* ensureDefaultResourcePolicy, called before every use of the list, which is
\* then read a second time.
EnsureDefault(t) ==
    /\ ~Idle(t) /\ run[t].kind \in PolicyOps /\ buf[t] = Nothing
    /\ buf' = [buf EXCEPT ![t] = IF DefaultId \in IdsOf(policies) THEN Ensured
                                 ELSE [kind |-> "ensure", value |-> policies \cup {DefaultPolicy}]]
    /\ UNCHANGED << policies, signIn, profiles, used, run, held, ops, wiped >>

Ready(t, kind) == ~Idle(t) /\ run[t].kind = kind /\ buf[t] = Ensured
Done(t) == buf' = [buf EXCEPT ![t] = Nothing] /\ run' = [run EXCEPT ![t] = Nothing]
WillWrite(t, key, value) == buf' = [buf EXCEPT ![t] = [kind |-> key, value |-> value]]

LoadPolicies(t) ==
    /\ Ready(t, "load")
    /\ held' = [held EXCEPT ![t] = policies] /\ Done(t)
    /\ UNCHANGED << policies, signIn, profiles, used, ops, wiped >>

\* Mutant: names are compared as typed.
NameTakenExact(n) == \E p \in policies : p.name = n

NameTaken(n) == \E p \in policies : Folded[p.name] = Folded[n]

CreateResourcePolicy(t) ==
    /\ Ready(t, "create")
    /\ IF NameTaken(run[t].name)
       THEN Done(t) /\ UNCHANGED used
       ELSE \E i \in Ids \ used :
               /\ used' = used \cup {i}
               /\ WillWrite(t, "policies",
                            policies \cup {[id |-> i, name |-> run[t].name, isDefault |-> FALSE, mode |-> "any"]})
               /\ UNCHANGED run
    /\ UNCHANGED << policies, signIn, profiles, held, ops, wiped >>

DeleteResourcePolicy(t) ==
    /\ Ready(t, "delete")
    /\ WillWrite(t, "policies", { p \in policies : p.id # run[t].id })
    /\ UNCHANGED << policies, signIn, profiles, used, run, held, ops, wiped >>

\* Mutant: a policy that is no longer there is stored anew.
SaveResourcePolicyUpsert(t) ==
    /\ Ready(t, "save")
    /\ WillWrite(t, "policies", { p \in policies : p.id # run[t].policy.id } \cup {run[t].policy})
    /\ UNCHANGED << policies, signIn, profiles, used, run, held, ops, wiped >>

\* The page's copy replaces the policy of its id, if there is one.
SaveResourcePolicy(t) ==
    /\ Ready(t, "save")
    /\ WillWrite(t, "policies", { IF p.id = run[t].policy.id THEN run[t].policy ELSE p : p \in policies })
    /\ UNCHANGED << policies, signIn, profiles, used, run, held, ops, wiped >>

SaveSignIn(t) ==
    /\ ~Idle(t) /\ buf[t] = Nothing
    /\ \/ /\ run[t].kind = "reauth"
          /\ WillWrite(t, "signIn", [ReadSignIn EXCEPT !.days = run[t].d, !.hours = run[t].h])
       \/ /\ run[t].kind = "mfa"
          /\ WillWrite(t, "signIn", [ReadSignIn EXCEPT !.required = run[t].required])
    /\ UNCHANGED << policies, signIn, profiles, used, run, held, ops, wiped >>

\* A platform that is trusted already is left alone, a switch is not.
SaveProfiles(t) ==
    /\ ~Idle(t) /\ buf[t] = Nothing
    /\ \/ /\ run[t].kind = "trust"
          /\ IF run[t].platform \in ReadProfiles.trusted
             THEN run' = [run EXCEPT ![t] = Nothing] /\ UNCHANGED buf
             ELSE /\ WillWrite(t, "profiles", [ReadProfiles EXCEPT !.trusted = @ \cup {run[t].platform}])
                  /\ UNCHANGED run
       \/ /\ run[t].kind = "approve"
          /\ WillWrite(t, "profiles", [ReadProfiles EXCEPT !.approved =
                                           IF run[t].enabled THEN @ \cup {run[t].platform} ELSE @ \ {run[t].platform}])
          /\ UNCHANGED run
    /\ UNCHANGED << policies, signIn, profiles, used, held, ops, wiped >>

\* The list is read again after a creation or a deletion; the page of a
\* policy keeps its copy.
AfterWrite(t) ==
    CASE buf[t].kind = "ensure"                 -> run[t]
      [] run[t].kind \in {"create", "delete"}  -> [kind |-> "load"]
      [] OTHER                                 -> Nothing

Write(t) ==
    /\ buf[t] \notin {Nothing, Ensured}
    /\ policies' = IF buf[t].kind \in {"ensure", "policies"} THEN buf[t].value ELSE policies
    /\ signIn' = IF buf[t].kind = "signIn" THEN buf[t].value ELSE signIn
    /\ profiles' = IF buf[t].kind = "profiles" THEN buf[t].value ELSE profiles
    /\ run' = [run EXCEPT ![t] = AfterWrite(t)]
    /\ buf' = [buf EXCEPT ![t] = IF @.kind = "ensure" THEN Ensured ELSE Nothing]
    /\ UNCHANGED << used, held, ops, wiped >>

\* The user clears the site's data, whatever the tabs are doing.
ClearStorage ==
    /\ ops < MaxOps /\ ops' = ops + 1
    /\ wiped' = (wiped \/ \E t \in Tabs : buf[t] = Ensured)
    /\ policies' = {} /\ signIn' = Nothing /\ profiles' = Nothing
    /\ UNCHANGED << used, run, buf, held >>

-----------------------------------------------------------------------------
Init ==
    /\ policies = {} /\ signIn = Nothing /\ profiles = Nothing /\ used = {} /\ ops = 0 /\ wiped = FALSE
    /\ run = [t \in Tabs |-> Nothing] /\ buf = [t \in Tabs |-> Nothing] /\ held = [t \in Tabs |-> {}]

Step(t) ==
    \/ Begin(t) \/ EnsureDefault(t) \/ LoadPolicies(t) \/ CreateResourcePolicy(t) \/ DeleteResourcePolicy(t)
    \/ SaveResourcePolicy(t) \/ SaveSignIn(t) \/ SaveProfiles(t) \/ Write(t)

Next == ClearStorage \/ \E t \in Tabs : Step(t)

Spec == Init /\ [][Next]_vars

-----------------------------------------------------------------------------
(* Properties.                                                             *)

SignIns == [days : Int, hours : Int, required : BOOLEAN]
ProfileStates == [trusted : SUBSET Platforms, approved : SUBSET Platforms]

Running ==
    [kind : {"load"}] \cup [kind : {"create"}, name : Names] \cup [kind : {"delete"}, id : Ids]
    \cup [kind : {"save"}, policy : Policy] \cup [kind : {"reauth"}, d : Int, h : Int]
    \cup [kind : {"mfa"}, required : BOOLEAN] \cup [kind : {"trust"}, platform : Platforms]
    \cup [kind : {"approve"}, platform : Platforms, enabled : BOOLEAN]

Buffers ==
    {Nothing, Ensured} \cup [kind : {"ensure", "policies"}, value : SUBSET Policy] \cup [kind : {"signIn"}, value : SignIns]
    \cup [kind : {"profiles"}, value : ProfileStates]

TypeOK ==
    /\ policies \subseteq Policy /\ used \subseteq Ids /\ ops \in Nat /\ wiped \in BOOLEAN
    /\ signIn \in SignIns \cup {Nothing} /\ profiles \in ProfileStates \cup {Nothing}
    /\ run \in [Tabs -> Running \cup {Nothing}] /\ buf \in [Tabs -> Buffers]
    /\ held \in [Tabs -> SUBSET Policy]

\* The list is empty or holds the default policy, whichever tabs create,
\* delete, save and seed at the same time and whenever the storage is cleared,
\* but between ensureDefaultResourcePolicy and the readAll after it: the
\* operation then writes a list without the default.
HasDefault(ps) == ps = {} \/ DefaultId \in IdsOf(ps)
DefaultPresent == wiped \/ HasDefault(policies)

\* Two policies of the list differ in id, and in name whatever the case of
\* its letters, also when tabs create policies of the same name at the same
\* time: the later write replaces the earlier list (resource-policies.ts
\* 69-83).  After a clear between ensureDefaultResourcePolicy and readAll a
\* policy may take the default's name before the default is back.
Distinct(ps) == \A p, q \in ps : (p.id = q.id \/ Folded[p.name] = Folded[q.name]) => p = q
PoliciesDistinct == wiped \/ Distinct(policies)

\* The sign-in policy never asks for authentication every 0 days and 0
\* hours, nor for a negative time (SignInPolicyPage.tsx 31-49).
ReauthInRange ==
    LET s == ReadSignIn IN s.days >= 0 /\ s.hours \in 0 .. 23 /\ (s.days > 0 \/ s.hours > 0)

\* What the browser keeps stays well formed, whichever tabs read and write it.
StorageOK == TypeOK /\ DefaultPresent /\ PoliciesDistinct /\ ReauthInRange

\* A page that saves its old copy of a policy does not bring back one that
\* was deleted since: what is written has only policies that were stored
\* when it was read, the default and a new one (resource-policies.ts 85-89).
NoRevival ==
    [][\A t \in Tabs : (buf[t].kind # "policies" /\ buf'[t].kind = "policies")
          => IdsOf(buf'[t].value) \subseteq IdsOf(policies) \cup (Ids \ used)]_vars
=============================================================================
