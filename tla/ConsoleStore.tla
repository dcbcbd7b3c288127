---------------------------- MODULE ConsoleStore ----------------------------
(***************************************************************************)
(* The console's own SQLite file: lib/db.ts opens it, brings an older file *)
(* up to date and seeds a new one; lib/data.ts reads and writes its        *)
(* tables.  Every statement outside a transaction commits by itself, so    *)
(* the process may stop between any two of them and the next start finds   *)
(* what was committed.  getDb assigns dbInstance before it initialises the *)
(* file: after an exception the next call uses the file as it is.          *)
(***************************************************************************)
EXTENDS Naturals, Sequences, FiniteSets

CONSTANTS
    OldColumns,  \* columns a file written by an older version may lack
    MaxTime,     \* bound on Date.now()
    MaxWrites,   \* bound on the writes of lib/data.ts
    MaxCrashes   \* bound on stops of the process

\* The columns the migrations add, in the order they are tried.
ColumnOrder == << "installed", "certificate_identity", "protocol", "port_from",
                  "port_to", "firewall_status", "last_policy_version", "last_seen_at" >>

Columns == { ColumnOrder[i] : i \in DOMAIN ColumnOrder } \cup {"enabled"}

ASSUME StoreAssumption ==
    /\ OldColumns \subseteq Columns
    /\ MaxTime \in Nat /\ MaxWrites \in Nat /\ MaxCrashes \in Nat

VARIABLES
    pc,        \* "down", a step of getDb, or "ready"
    missing,   \* columns the file's tables lack
    rulesTab,  \* access_rules: "none", "legacy", "dropped" or "current"
    legacy,    \* rows of a legacy access_rules table
    staged,    \* rows of access_rules_new
    tables,    \* the other tables
    clock,     \* Date.now()
    hist       \* what happened: see StoreInit

storeVars == << pc, missing, rulesTab, legacy, staged, tables, clock, hist >>

Null == "null"

\* A row of the legacy access_rules table: one subject, of some type.
LegacyRow == [id : {<<"rule", 1>>, <<"rule", 2>>, <<"rule", 3>>},
              type : {"GROUP", "USER"}, subject : {<<"grp", 1>>, <<"grp", 9>>, <<"usr", 1>>}]

LegacyRows == { [id |-> <<"rule", 1>>, type |-> "GROUP", subject |-> <<"grp", 1>>],
                [id |-> <<"rule", 2>>, type |-> "USER",  subject |-> <<"usr", 1>>],
                [id |-> <<"rule", 3>>, type |-> "GROUP", subject |-> <<"grp", 9>>] }

Empty == [x \in {} |-> x]
Put(f, k, v) == [x \in DOMAIN f \cup {k} |-> IF x = k THEN v ELSE f[x]]
Drop(f, S) == [x \in DOMAIN f \ S |-> f[x]]

\* The seed's rows, reduced to two of each kind that a rule or a group needs.
SeedRules == {<<"rule", 1>>, <<"rule", 2>>}
SeedPeople == [users |-> {<<"usr", 1>>, <<"usr", 2>>}, groups |-> {<<"grp", 1>>, <<"grp", 2>>},
               members |-> {<< <<"grp", 1>>, <<"usr", 1>> >>}]
SeedSites == [networks |-> {<<"net", 1>>}, conns |-> {<<"con", 1>>}, resources |-> {<<"res", 1>>, <<"res", 2>>}]
SeedRow(i) == [res |-> <<"res", i>>, on |-> TRUE]

NoTables == [users |-> {}, groups |-> {}, members |-> {}, networks |-> {}, conns |-> Empty,
             resources |-> Empty, rules |-> Empty, ruleGroups |-> {}, seeded |-> FALSE]

\* Content of a file that was seeded: by this version, or by an older one
\* whose connectors rows have neither installed nor last_seen_at.
Seeded(rows, conn, rules, grants) ==
    [rows EXCEPT !.users = @ \cup SeedPeople.users, !.groups = @ \cup SeedPeople.groups,
                 !.members = @ \cup SeedPeople.members, !.networks = @ \cup SeedSites.networks,
                 !.conns = [c \in SeedSites.conns |-> conn],
                 !.resources = [r \in SeedSites.resources |-> <<"net", 1>>],
                 !.rules = rules, !.ruleGroups = grants, !.seeded = TRUE]

SeedConn == [net |-> <<"net", 1>>, installed |-> TRUE, seen |-> TRUE, policy |-> 0]
SeedRuleRows == [r \in SeedRules |-> SeedRow(r[2])]
SeedGrants == { << r, <<"grp", 1>> >> : r \in SeedRules }

-----------------------------------------------------------------------------
(* Opening the file: getDb and the steps it calls.                         *)

Steps == {"schema", "backfill_installed", "backfill_last_seen_at", "rules", "copy", "drop", "rename", "seed"}
             \cup Columns

\* The step after trying column i.
AfterColumn(i) == IF i = Len(ColumnOrder) THEN "rules" ELSE ColumnOrder[i + 1]

Goto(step) == pc' = step /\ UNCHANGED clock

\* A statement throws: getDb's caller sees the exception, and the next call
\* finds dbInstance set and returns it.
Throw == Goto("ready") /\ hist' = [hist EXCEPT !.threw = TRUE]

\* getDb on a file that is not open yet.
GetDb ==
    /\ pc = "down"
    /\ Goto("schema")
    /\ UNCHANGED << missing, rulesTab, legacy, staged, tables, hist >>

\* CREATE TABLE IF NOT EXISTS for every table; foreign keys on.
InitSchema ==
    /\ pc = "schema"
    /\ Goto(ColumnOrder[1])
    /\ rulesTab' = IF rulesTab \in {"none", "dropped"} THEN "current" ELSE rulesTab
    /\ UNCHANGED << missing, legacy, staged, tables, hist >>

\* One ALTER TABLE ... ADD COLUMN; SQLite refuses to add a UNIQUE column.
EnsureColumn(i) ==
    LET c == ColumnOrder[i] IN
    /\ pc = c
    /\ UNCHANGED << rulesTab, legacy, staged, tables >>
    /\ \/ /\ c \notin missing
          /\ Goto(AfterColumn(i))
          /\ UNCHANGED << missing, hist >>
       \/ /\ c \in missing /\ c = "certificate_identity"
          /\ Throw
          /\ UNCHANGED missing
       \/ /\ c \in missing /\ c # "certificate_identity"
          /\ missing' = missing \ {c}
          /\ Goto(CASE c = "installed"    -> "backfill_installed"
                    [] c = "last_seen_at" -> "backfill_last_seen_at"
                    [] OTHER              -> AfterColumn(i))
          /\ UNCHANGED hist

\* UPDATE connectors SET installed = 1: the rows that were there before.
BackfillInstalled ==
    /\ pc = "backfill_installed"
    /\ tables' = [tables EXCEPT !.conns = [c \in DOMAIN @ |-> [@[c] EXCEPT !.installed = TRUE]]]
    /\ Goto(ColumnOrder[2])
    /\ UNCHANGED << missing, rulesTab, legacy, staged, hist >>

\* UPDATE connectors SET last_seen_at = last_seen WHERE last_seen_at IS NULL.
BackfillLastSeen ==
    /\ pc = "backfill_last_seen_at"
    /\ tables' = [tables EXCEPT !.conns = [c \in DOMAIN @ |-> [@[c] EXCEPT !.seen = TRUE]]]
    /\ Goto("rules")
    /\ UNCHANGED << missing, rulesTab, legacy, staged, hist >>

\* Mutant: the legacy table is dropped before its rows are copied.
RulesBeginDrop ==
    /\ pc = "rules"
    /\ Goto(IF rulesTab = "legacy" THEN "drop" ELSE "seed")
    /\ missing' = IF rulesTab = "legacy" THEN missing ELSE missing \ {"enabled"}
    /\ UNCHANGED << rulesTab, legacy, staged, tables, hist >>

\* ensureAccessRuleSchema: a table with subject_id is copied, dropped and
\* replaced; access_rule_groups already exists, with a reference to
\* access_rules, so its CREATE does nothing.  Any other table without the
\* enabled column gets it.
RulesBegin ==
    /\ pc = "rules"
    /\ Goto(IF rulesTab = "legacy" THEN "copy" ELSE "seed")
    /\ missing' = IF rulesTab = "legacy" THEN missing ELSE missing \ {"enabled"}
    /\ UNCHANGED << rulesTab, legacy, staged, tables, hist >>

GroupRows == { row \in legacy : row.type = "GROUP" }

\* The copying transaction: only GROUP subjects; a group that is gone breaks
\* the foreign key of access_rule_groups and rolls everything back.
RulesCopy ==
    /\ pc = "copy"
    /\ UNCHANGED << missing, rulesTab, legacy >>
    /\ \/ /\ \E row \in GroupRows : row.subject \notin tables.groups
          /\ Throw
          /\ UNCHANGED << staged, tables >>
       \/ /\ \A row \in GroupRows : row.subject \in tables.groups
          /\ staged' = staged \cup { row.id : row \in GroupRows }
          /\ tables' = [tables EXCEPT !.ruleGroups = @ \cup { << row.id, row.subject >> : row \in GroupRows }]
          /\ Goto("drop")
          /\ UNCHANGED hist

\* DROP TABLE with foreign keys on deletes the rows first, and the deletion
\* cascades to access_rule_groups.
RulesDrop ==
    /\ pc = "drop"
    /\ rulesTab' = "dropped"
    /\ legacy' = {}
    /\ tables' = [tables EXCEPT !.ruleGroups = { g \in @ : g[1] \notin { row.id : row \in legacy } }]
    /\ missing' = missing \ {"enabled"}
    /\ Goto("rename")
    /\ UNCHANGED << staged, hist >>

RulesRename ==
    /\ pc = "rename"
    /\ rulesTab' = "current"
    /\ tables' = [tables EXCEPT !.rules = [r \in staged |-> SeedRow(1)]]
    /\ staged' = {}
    /\ Goto("seed")
    /\ UNCHANGED << missing, legacy, hist >>

\* seedIfNeeded: one transaction, with the marker that makes it the only one.
SeedIfNeeded ==
    /\ pc = "seed"
    /\ IF tables.seeded THEN UNCHANGED tables ELSE tables' = Seeded(tables, SeedConn, SeedRuleRows, SeedGrants)
    /\ Goto("ready")
    /\ UNCHANGED << missing, rulesTab, legacy, staged, hist >>

\* The process stops; what was committed stays.  A stop between the two
\* statements of a pair leaves the pair torn.
Crash ==
    /\ pc # "down" /\ hist.crashes < MaxCrashes
    /\ pc' = "down"
    /\ hist' = [hist EXCEPT !.crashes = @ + 1, !.torn = @ \cup ({pc} \cap
                    {"backfill_installed", "backfill_last_seen_at", "rename"})]
    /\ UNCHANGED << missing, rulesTab, legacy, staged, tables, clock >>

OpenNext ==
    \/ GetDb \/ InitSchema \/ BackfillInstalled \/ BackfillLastSeen
    \/ \E i \in DOMAIN ColumnOrder : EnsureColumn(i)
    \/ RulesBegin \/ RulesCopy \/ RulesDrop \/ RulesRename \/ SeedIfNeeded \/ Crash

-----------------------------------------------------------------------------
(* lib/data.ts: one action per writing function.  A statement that names a *)
(* column or a table the file lacks throws and changes nothing, and so     *)
(* does one that breaks a key; both are simply not steps here.             *)

WriteTables(needs) ==
    /\ pc = "ready" /\ hist.ops < MaxWrites /\ needs \cap missing = {}
    /\ hist' = [hist EXCEPT !.ops = @ + 1]
    /\ UNCHANGED << pc, missing, rulesTab, legacy, staged, clock >>

Stamp(kind) == << kind, 10 + clock >>   \* `${kind}_${Date.now()}`

AddRemoteNetwork ==
    /\ Stamp("net") \notin tables.networks
    /\ tables' = [tables EXCEPT !.networks = @ \cup {Stamp("net")}]
    /\ WriteTables({})

AddConnector(n) ==
    /\ n \in tables.networks /\ Stamp("con") \notin DOMAIN tables.conns
    /\ tables' = [tables EXCEPT !.conns = Put(@, Stamp("con"),
                                  [net |-> n, installed |-> FALSE, seen |-> TRUE, policy |-> 0])]
    /\ WriteTables({"installed", "last_policy_version", "last_seen_at"})

SimulateConnectorHeartbeat(c) ==
    /\ c \in DOMAIN tables.conns
    /\ tables' = [tables EXCEPT !.conns[c].installed = TRUE, !.conns[c].seen = TRUE]
    /\ WriteTables({"installed", "last_seen_at"})

\* connector_policy_versions is never written here: the answer is version 0.
UpdateConnectorHeartbeat(c, v) ==
    /\ c \in DOMAIN tables.conns
    /\ tables' = [tables EXCEPT !.conns[c].policy = v, !.conns[c].seen = TRUE]
    /\ WriteTables({"last_policy_version", "last_seen_at"})

AddUser ==
    /\ Stamp("usr") \notin tables.users
    /\ tables' = [tables EXCEPT !.users = @ \cup {Stamp("usr")}]
    /\ WriteTables({"certificate_identity"})

AddGroup ==
    /\ Stamp("grp") \notin tables.groups
    /\ tables' = [tables EXCEPT !.groups = @ \cup {Stamp("grp")}]
    /\ WriteTables({})

\* A transaction: all rows of the group are replaced, or none.
UpdateGroupMembers(g, us) ==
    /\ g \in tables.groups /\ us \subseteq tables.users
    /\ tables' = [tables EXCEPT !.members = { m \in @ : m[1] # g } \cup ({g} \X us)]
    /\ WriteTables({})

RemoveGroupMember(g, u) ==
    /\ tables' = [tables EXCEPT !.members = @ \ {<< g, u >>}]
    /\ WriteTables({})

\* The resources of the list the group has no rule for yet.
Ungranted(g, rs) ==
    { r \in rs : \A k \in DOMAIN tables.rules : tables.rules[k].res = r => << k, g >> \notin tables.ruleGroups }

AddGroupResources(g, rs) ==
    LET fresh == { << "rule", 10 + clock, g, r >> : r \in Ungranted(g, rs) } IN
    /\ rulesTab = "current" /\ g \in tables.groups /\ rs \subseteq DOMAIN tables.resources
    /\ fresh \cap DOMAIN tables.rules = {}
    /\ tables' = [tables EXCEPT !.rules = [k \in DOMAIN @ \cup fresh |->
                                              IF k \in fresh THEN [res |-> k[4], on |-> TRUE] ELSE @[k]],
                                !.ruleGroups = @ \cup (fresh \X {g})]
    /\ WriteTables({"enabled"})

AddResource(n) ==
    /\ n \in tables.networks /\ Stamp("res") \notin DOMAIN tables.resources
    /\ tables' = [tables EXCEPT !.resources = Put(@, Stamp("res"), n)]
    /\ WriteTables({"protocol", "port_from", "port_to"})

UpdateResource(r, n) ==
    /\ r \in DOMAIN tables.resources /\ n \in tables.networks
    /\ tables' = [tables EXCEPT !.resources[r] = n]
    /\ WriteTables({"protocol", "port_from", "port_to"})

CreateAccessRule(r, gs, on) ==
    /\ rulesTab = "current" /\ r \in DOMAIN tables.resources /\ gs \subseteq tables.groups
    /\ Stamp("rule") \notin DOMAIN tables.rules
    /\ tables' = [tables EXCEPT !.rules = Put(@, Stamp("rule"), [res |-> r, on |-> on]),
                                !.ruleGroups = @ \cup ({Stamp("rule")} \X gs)]
    /\ WriteTables({"enabled"})

\* Mutant: foreign keys are not enforced, so nothing cascades.
DeleteRuleRow(k) ==
    /\ rulesTab = "current" /\ k \in DOMAIN tables.rules
    /\ tables' = [tables EXCEPT !.rules = Drop(@, {k})]
    /\ WriteTables({})

\* The deletion cascades to access_rule_groups.
DeleteAccessRule(k) ==
    /\ rulesTab = "current" /\ k \in DOMAIN tables.rules
    /\ tables' = [tables EXCEPT !.rules = Drop(@, {k}), !.ruleGroups = { g \in @ : g[1] # k }]
    /\ pc = "ready" /\ hist.ops < MaxWrites
    /\ hist' = [hist EXCEPT !.ops = @ + 1, !.deleted = @ \cup {k}]
    /\ UNCHANGED << pc, missing, rulesTab, legacy, staged, clock >>

Tick ==
    /\ pc = "ready" /\ clock < MaxTime
    /\ clock' = clock + 1
    /\ UNCHANGED << pc, missing, rulesTab, legacy, staged, tables, hist >>

DataNext ==
    \/ AddRemoteNetwork \/ AddUser \/ AddGroup \/ Tick
    \/ \E n \in tables.networks : AddConnector(n) \/ AddResource(n)
    \/ \E c \in DOMAIN tables.conns : SimulateConnectorHeartbeat(c)
    \/ \E c \in DOMAIN tables.conns, v \in {1} : UpdateConnectorHeartbeat(c, v)
    \/ \E g \in tables.groups, us \in SUBSET (tables.users \cup {<<"usr", 9>>}) : UpdateGroupMembers(g, us)
    \/ \E m \in tables.members : RemoveGroupMember(m[1], m[2])
    \/ \E g \in tables.groups, rs \in SUBSET DOMAIN tables.resources : AddGroupResources(g, rs)
    \/ \E r \in DOMAIN tables.resources, n \in tables.networks : UpdateResource(r, n)
    \/ \E r \in DOMAIN tables.resources, gs \in SUBSET tables.groups, on \in BOOLEAN : CreateAccessRule(r, gs, on)
    \/ \E k \in DOMAIN tables.rules : DeleteAccessRule(k)

-----------------------------------------------------------------------------
(* The reading functions of lib/data.ts, reduced to the rows and counts    *)
(* they return; each joins the tables in its own way.                      *)

ConnectorsOf(n) == { c \in DOMAIN tables.conns : tables.conns[c].net = n }
ResourcesOf(n) == { r \in DOMAIN tables.resources : tables.resources[r] = n }

ListRemoteNetworks ==
    [n \in tables.networks |-> [connectors |-> Cardinality(ConnectorsOf(n)),
                                resources  |-> Cardinality(ResourcesOf(n))]]

GetRemoteNetworkDetail(n) == [connectors |-> ConnectorsOf(n), resources |-> ResourcesOf(n)]

\* Connector and its network's row, which must exist for the page's title.
GetConnectorDetail(c) == [network |-> { n \in tables.networks : n = tables.conns[c].net }]

ListUsers == [u \in tables.users |-> { m[1] : m \in { x \in tables.members : x[2] = u } }]

\* access_rules joined with access_rule_groups.
RulesOfGroup(g) == { k \in DOMAIN tables.rules : << k, g >> \in tables.ruleGroups }

\* Mutant: COUNT(*) where the code has COUNT(DISTINCT resource_id).
ListGroupsAll ==
    [g \in tables.groups |-> [members   |-> Cardinality({ m \in tables.members : m[1] = g }),
                              resources |-> Cardinality(RulesOfGroup(g))]]

ListGroups ==
    [g \in tables.groups |-> [members   |-> Cardinality({ m \in tables.members : m[1] = g }),
                              resources |-> Cardinality({ tables.rules[k].res : k \in RulesOfGroup(g) })]]

GetGroupDetail(g) ==
    [members   |-> { u \in tables.users : << g, u >> \in tables.members },
     resources |-> { r \in DOMAIN tables.resources : \E k \in RulesOfGroup(g) : tables.rules[k].res = r }]

\* The rules of a resource with their allowedGroups.
GetResourceDetail(r) ==
    { [id |-> k, allowedGroups |-> { rg[2] : rg \in { x \in tables.ruleGroups : x[1] = k } }] :
          k \in { x \in DOMAIN tables.rules : tables.rules[x].res = r } }

-----------------------------------------------------------------------------
\* A new file, or one an older version seeded: without some columns, and
\* with a legacy or a current access_rules table.
StoreInit ==
    /\ pc = "down" /\ clock = 0 /\ staged = {}
    /\ \/ missing = {} /\ rulesTab = "none" /\ legacy = {} /\ tables = NoTables
       \/ /\ missing \in SUBSET OldColumns
          /\ \/ /\ rulesTab = "legacy" /\ legacy \in SUBSET LegacyRows
                /\ tables = Seeded(NoTables, [SeedConn EXCEPT !.installed = "installed" \notin missing,
                                                              !.seen = "last_seen_at" \notin missing], Empty, {})
             \/ /\ rulesTab = "current" /\ legacy = {}
                /\ tables = Seeded(NoTables, [SeedConn EXCEPT !.installed = "installed" \notin missing,
                                                              !.seen = "last_seen_at" \notin missing],
                                   SeedRuleRows, SeedGrants)
    /\ hist = [ops |-> 0, crashes |-> 0, threw |-> FALSE, torn |-> {}, deleted |-> {}, old |-> legacy]

StoreNext == OpenNext \/ DataNext

StoreSpec == StoreInit /\ [][StoreNext]_storeVars

-----------------------------------------------------------------------------
(* Properties.                                                             *)

StoreTypeOK ==
    /\ pc \in {"down", "ready"} \cup Steps
    /\ missing \subseteq Columns
    /\ rulesTab \in {"none", "legacy", "dropped", "current"}
    /\ legacy \subseteq LegacyRow
    /\ tables.seeded \in BOOLEAN
    /\ clock \in 0 .. MaxTime

\* Every reference of a row leads to a row, in every state the file can be
\* left in by any order of writes, migrations and stops: a member's group
\* and user, a connector's and a resource's network, a rule's resource, and
\* the rule and the group of an access_rule_groups row (lib/db.ts 34-113).
References ==
    /\ tables.members \subseteq tables.groups \X tables.users
    /\ \A c \in DOMAIN tables.conns : tables.conns[c].net \in tables.networks
    /\ \A r \in DOMAIN tables.resources : tables.resources[r] \in tables.networks
    /\ \A k \in DOMAIN tables.rules : tables.rules[k].res \in DOMAIN tables.resources
    /\ \A rg \in tables.ruleGroups : /\ rg[2] \in tables.groups
                                     /\ rg[1] \in DOMAIN tables.rules \cup { row.id : row \in legacy }

\* The columns with an UPDATE to follow that the file has and a connector of an
\* old file has no value for.
Unfilled ==
    { col \in {"installed", "last_seen_at"} \ missing :
        \E c \in SeedSites.conns :
            ~ IF col = "installed" THEN tables.conns[c].installed ELSE tables.conns[c].seen }

\* The connectors an old file holds come out of the migration installed and
\* with a last_seen_at; each stop of the process costs them one of the two at
\* most (the one between whose ALTER and UPDATE it falls: a later start finds
\* the column and skips the UPDATE), and an exception costs none.
ConnectorsBackfilled == pc = "ready" => Cardinality(Unfilled) <= hist.crashes

\* No legacy rule for a group ever leaves the file before an administrator
\* deletes it, wherever the migration throws or is stopped: it is in the old
\* table, in access_rules_new or in the new one, and the console shows it unless
\* a stop fell between DROP TABLE and RENAME.  No other legacy rule becomes one.
LegacyRulesKept ==
    \A row \in hist.old :
        /\ row.type = "GROUP" =>
              /\ \/ row \in legacy
                 \/ row.id \in staged \cup DOMAIN tables.rules \cup hist.deleted
              /\ (pc = "ready" /\ ~hist.threw /\ "rename" \notin hist.torn) =>
                     row.id \in DOMAIN tables.rules \cup hist.deleted
        /\ row.type = "USER" => row.id \notin DOMAIN tables.rules

\* The migration gives no group access that the legacy rule of that id did not
\* give it.  (It may take it away: see LegacyGrantsKept.)
NoGrantGained ==
    \A rg \in tables.ruleGroups :
        rg[1] \in { row.id : row \in hist.old } =>
            [id |-> rg[1], type |-> "GROUP", subject |-> rg[2]] \in hist.old

\* A seeded rule an administrator deleted stays deleted through restarts:
\* the marker is written in the transaction that seeds.
DeletedSeedStaysDeleted == hist.deleted \cap SeedRules \cap DOMAIN tables.rules = {}

\* What a start of the console keeps of an older file and of an
\* administrator's deletions, wherever an earlier start was stopped or threw
\* (lib/db.ts 132-312).
StartKeeps ==
    ConnectorsBackfilled /\ LegacyRulesKept /\ NoGrantGained /\ DeletedSeedStaysDeleted

\* ensureAccessRuleSchema copies the group of a legacy rule with
\* insertRuleGroup.run(row.id, row.subject_id): a migrated rule still allows the
\* group it was about.  (The rows it inserted refer to the old table, and the
\* DROP TABLE that follows cascades to them.)
LegacyGrantsKept ==
    (pc = "ready" /\ ~hist.threw) =>
        \A row \in hist.old :
            (row.type = "GROUP" /\ row.id \in DOMAIN tables.rules) =>
                << row.id, row.subject >> \in tables.ruleGroups

\* addGroupResources makes no second rule for a resource the group has one
\* for, however often and in whatever millisecond it is called.
OneRulePerGrant ==
    \A j, k \in { r \in DOMAIN tables.rules : Len(r) = 4 } :
        (j[3] = k[3] /\ j[4] = k[4]) => j = k

\* The file is well formed in every state a write, a migration or a stop can
\* leave it in.
FileOK == StoreTypeOK /\ References /\ OneRulePerGrant

\* The console's pages tell one story: a list's counts are the sizes of the
\* detail pages, a user's groups are the groups that list the user, a
\* connector's network exists, and a group shows a resource exactly when some
\* rule of that resource allows the group (lib/data.ts 118-434).
ViewsAgree ==
    (pc = "ready" /\ rulesTab = "current") =>
        /\ \A n \in tables.networks :
               /\ ListRemoteNetworks[n].connectors = Cardinality(GetRemoteNetworkDetail(n).connectors)
               /\ ListRemoteNetworks[n].resources = Cardinality(GetRemoteNetworkDetail(n).resources)
        /\ \A c \in DOMAIN tables.conns : GetConnectorDetail(c).network # {}
        /\ \A g \in tables.groups :
               /\ ListGroups[g].members = Cardinality(GetGroupDetail(g).members)
               /\ ListGroups[g].resources = Cardinality(GetGroupDetail(g).resources)
               /\ \A u \in tables.users : (u \in GetGroupDetail(g).members) <=> (g \in ListUsers[u])
               /\ \A r \in DOMAIN tables.resources :
                      (r \in GetGroupDetail(g).resources) <=>
                          \E rule \in GetResourceDetail(r) : g \in rule.allowedGroups
=============================================================================
