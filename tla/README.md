# TLA+ models of the zero-trust access system

The repository implements a zero-trust network: a **controller** (Go) with a
PostgreSQL database, an admin API and a gRPC server; **connectors** (Rust), one
per remote network, which hold a control-plane stream to the controller;
**agents** (Rust), which dial a connector and protect ports of their machine with
nftables; a web **console** (TypeScript: React pages, an Express proxy and a local
store); and a desktop **client**. Most of its correctness depends on the order in
which these processes take steps, on answers that arrive late, and on what is left
after a failed command, a lost stream, a stop or a restart. That is what this
directory models.

Paths below are relative to `src/services/` for the services and to
`src/apps/frontend/` for the console.

## 1. Inventory

| Component | State | Operations | Interacts through |
|---|---|---|---|
| Control plane server, `controller/api/control_plane.go` | `clients` (by SPIFFE id), one goroutine per stream, `connectors.status` | `Connect`, broadcasts, `SendToConnector`, heartbeat handling | stream messages, database |
| Policy compiler, `controller/api/policy_snapshot.go` | `connector_policy_versions` | `CompilePolicySnapshot`, `policyVersion` | called by every push |
| Enrolment, `controller/api/enroll.go`, `state/token.go`, `ca/ca.go` | tokens, CAs of controller and workspaces | create, consume, delete token; issue, renew certificate | gRPC, admin API |
| Registries, `controller/state/registry.go`, `tunneler.go`, `persistence.go` | records in memory and tables `connectors`, `tunnelers` | register, heartbeat, save, load, revoke, grant, delete | all of the above |
| Scan store, `controller/state/discovery.go`, `admin/handlers_discovery.go` | jobs in memory | create, mark, complete, fail, read | console, stream to the connector |
| Admin API, `controller/admin/` | the policy tables, sessions, workspaces, invitations | CRUD, revoke, delete, notify | HTTP; `NotifyPolicyChange` |
| Connector, `connector/src/` | signing key, policy cache, allowlist, agents connected, latest firewall policy and its channel | dial and redial, apply snapshot, admit agent, feed policy to agents, scan, renew | stream up, streams down |
| Agent, `agent/src/` | map of protected ports, `firewall_state.json`, kernel rules, certificate | dial, sync policy, save, restore, clean up, renew | stream, `nft` |
| Console store, `lib/db.ts`, `lib/data.ts` | a SQLite file | open, migrate, seed; writes and views | functions called by a server (none today) |
| Console sign-in, `src/App.tsx`, login, signup and workspace pages | address, token, session storage | callback, guards, select, create, switch, sign out | HTTP, full page loads |
| Console pages on groups, users, resources, rules, connectors, agents, networks | what the page shows, its dialogs, outstanding requests | load, change, reload, timers | the proxy `server/routes`, the controller's tables |
| Console policy pages, `lib/resource-policies.ts`, `sign-in-policy.ts`, `device-profiles.ts` | three keys of the local storage | read, compute, write | other tabs |
| Console discovery page | scan shown, timer, added rows | start, poll, add | the scan store |
| Client, `ztna-client/src/` | tokens of the logged-in user | login, refresh | HTTP |

What is hard here, and hardly reached by a test (the list with lines is under
`hazards` in `PROJECT.json`):

* a stream that is replaced while the goroutine or task of the old one still
  winds up;
* lists that are copied under a lock and sent after it is released; a channel that
  drops what a slow reader has not read;
* rows in the database that are written back from memory, and memory filled from
  rows after a restart;
* a handler that is dropped between two commands to the kernel, commands that
  fail, a process that stops without clean-up, a file cut short, a migration
  stopped between two statements;
* a page that goes on with what it closed over before an `await`: its answer comes
  after a second change, after another administrator, after the user has left;
* timers that fire while an earlier request is outstanding, or that are set after
  the page is gone;
* several tabs that read, compute and write one key.

What makes each component correct: an edit reaches every connected connector and
is accepted there; the client map follows the streams; an enrolment token serves
one workload; a revocation is not undone by a heartbeat; a connector admits the
agents that were enrolled and nobody else; the agent enforces the newest policy
its connector stored, its idea of the firewall agrees with the kernel's, and a
port it protects is closed to the network; a start of the console loses no rule
and grants nothing; a page at rest shows what the tables hold, and
a stale page changes nothing nobody asked for; what a browser keeps stays well
formed; a scan, a redirect and a timer end.

## 2. Modules

### ControlPlane

One goroutine per stream, one per admin request that edits policy (a
*notifier*), and the connectors.

| Definition | Code |
|---|---|
| `Dial`, `Drop`, `Receive`, `Verifies` | `connector/src/main.rs` `connect_control_plane`, `control_plane_loop`; `policy/cache.rs` `replace_snapshot`, `verify_snapshot` |
| `Register`, `InitialRead`, `MarkOnline`, `Heartbeat`, `RecvFails`, `RemoveClient` | `Connect`, in the order of its statements; the defers run last in, first out |
| `ReadResources`, `SelectVersion`, `UpsertVersion`, `Send` | `sendPolicySnapshot` and `CompilePolicySnapshot`, one database access or send per step |
| `InitialSkip`, `BroadcastSkip` (`GiveUp`) | the early returns of `sendPolicySnapshot`: no signing key, a lookup or a compilation that fails. A line is logged, nothing is sent and nobody tries again |
| `Edit`, `CopyClients`, `BroadcastRead` | an admin handler's write, then `broadcastPolicySnapshots` |
| `StaleTick`, `Restart` | `main.go` |

A policy is a member of `Contents`; a signing key is the stream whose TLS session
it was derived from, so that a signature check is a comparison. `rev`, `edits`,
`newest` and `skipped` (the edit whose snapshot was last given up for a stream) are
history. Abstracted: snapshot expiry, the network of a connector (all are in the
one being edited), `policyResources` as one read, and the errors `policyVersion`
ignores, which change the version number only, and no connector compares versions.

### Firewall

The agent's enforcer against the kernel's chain, one `nft` command per step. A
rule's handle is its position: nft appends, and gives each rule a larger handle
than the last. `pc` follows `sync_policy` (`remove`, `add`), `protect_port`
(`rule`) and `delete_rules` (`delete`), then `save`. `AddFails`, `DeleteFails` and
`SaveFails` are the error paths; `Cut` is the renewal that drops the handler;
`Stop` is SIGTERM, a panic or a kill; in both, a command that was running may
still take effect (`InFlight`). `Start` restores the file in any order (it lists
a hash map). `wanted`, `settled`, `leaked` and `faults` are history. `Passes` is
nft's own rule: the first rule that matches a packet decides. Abstracted: a port is not a number, nft's syntax is not spelled out, `initialize` succeeds.

### FirewallFeed, and its promise PolicyFeed

`FirewallFeed` extends `Firewall` with the way a policy takes: `Store` and
`Broadcast` (`handle_control_message` on the connector), one task per stream of
the agent (`SendFirst`, `Recv`, `Lagged`, `TaskEnds`, `Heartbeat` in
`connector/src/control_plane.rs`), and the agent's side (`Dial`, `Deliver`,
`StreamLost`, `Renewed`, `Killed`, `Halted`, `Boot` in `agent/src/run.rs`), which
drives the enforcer's own actions. Policies are numbered as they are stored. The
channel keeps `Capacity` messages: a task behind by more loses the oldest, and
because `select!` disables a branch whose pattern does not match, it is *deaf* to
the channel until the agent's next message.

`PolicyFeed` is what the feed promises, in three variables: policies are
published; an agent takes policies at least as new as the one in force when it
connected, perhaps twice and out of order, and ends up with the newest.
`KeepsPromise` is that specification, fairness included, under the mapping
`newest <- Len(stored)`, `got <- taken`; TLC checks it, and `KeepsPromiseSafely`
proves its safety part.

### Allowlist

One connector, several agents: an enrolment request (`EnrollTunneler`,
`AddAgent`, `InsertAgent`, `CopyClients`, `SendAllow`, the steps of
`NotifyAgentAllowed`), the `Connect` goroutine with its `sendAllowlist` split
into taking and sending the list, heartbeats that write the `tunnelers` table,
the connector's `AgentAllowlist`, restarts of either side. A SPIFFE id is an
agent and a trust domain. The connector's sessions hold one stream per agent.

### Enrollment

Tokens under `TokenStore.mu`, enrolment requests that are retried or lost,
certificates that age, expire and are renewed, the `connectors` table beside the
`Registry`, the connector's stream, and the four admin requests that revoke or
delete a connector, as the sequence of steps each takes (`Requests`). Two facts
about the environment are definitions of their own: `Trusted` (who accepts whose
certificate in the TLS handshake) and `SeenRevoked` (a statement that is not
passed through `Rebind` fails on PostgreSQL, and its error is ignored).

### ConsoleStore

The console's SQLite file. `InitSchema`, `EnsureColumn`, `Backfill*`, `Rules*` and
`SeedIfNeeded` are the statements of `getDb` in order, each committed by itself
unless the code opens a transaction; `Crash` stops the process between any two,
`Throw` is an exception in one (adding a `UNIQUE` column always is), after which
the next call uses the file as it is. The writes of `lib/data.ts` are one action
each (better-sqlite3 is synchronous), its views are operators. Ids are time
stamps: two calls in one millisecond clash. A file may be new or of an older
version with any of the old columns missing and a legacy `access_rules` table.

### Session

One tab: `route`, the token in local storage, the attempts of the signup form in
session storage, and outstanding workspace requests (`flights`). A page's effect
runs once after the page is shown (`CaptureEffect`, `AuthGuard`, `LoginEffect`,
...); a client-side navigation keeps continuations alive, a full load drops them
(`Orphaned`) while the server may still serve them. Tokens are what their claims
say: none, bare, or for a workspace with a role. The role is whatever the invitation
named (`oauth_invite_handlers.go` does not validate it, and `ON CONFLICT` keeps the
one a user has); `Regrade` is an owner who changes it afterwards, so that a token may
carry a role its holder no longer has. `roles[ws]` is the role now and every role
ever given or signed. Signing out sends a request and drops the token when it is
answered or fails (`LogoutAnswer`, `UserLogoutAnswer`): the tab goes on in between.

### GroupPages, ResourcePages, FleetPages

The console's pages over the controller's tables, built alike. `page` and `shown`
are what the tab shows; a request is a member of `flights` with the data its
continuation closed over; `Serve*` is the server side, statement by statement
where the code has several (the loop of `server/routes/groups.ts`, the three
deletes of `admin/ui_resources.go`, the deletion of a network) and may fail at
each; `LoseAnswer` is a request that was served and whose answer is lost on the way
through the proxy; `Swallow*` is a handler that ignores the database's error and
answers `ok` with nothing changed (`ui_access_rules.go:140`, `ui_agents.go:81`,
`ui_remote_networks.go:184`); `*Answer` is the continuation, including what it shows, reloads, closes or
navigates to. `Other` is another administrator. History variables record whether
requests overlapped, failed, were swallowed or lost, or were mixed with another administrator's, because
most of what a page promises holds only for one who waits for answers; the
properties say exactly when. In `FleetPages` the tables also change by
enrolments, heartbeats and the stale ticker, and the page of a connector reloads
on a timer.

Abstracted: names, descriptions, sorting and filtering; a resource is its address
and firewall status, a rule its resource. The table `access_rule_groups` is not kept
in `ResourcePages`: the statement of a resource's deletion on it goes with the next.
`UserGroups` is the column of the users page as `server/routes/users.ts` computes it.

### PolicyPages

Three keys of the browser's local storage that every tab reads and writes whole.
`Begin` is the click (with the guards of the form), a read computes a buffer, and
`Write` stores it: other tabs run in between. A list that `ensureDefault` has to
create is written and then read again (`Ensured`). `ClearStorage`, the user clearing
the site's data, may fall anywhere; `wiped` records one that fell between
`ensureDefault` and `readAll`. The resource policies' list is a set
of records; `Folded` is `toLowerCase`.

### Discovery

A scan end to end: the page's `StartScan`, `StartAnswer`, `Poll`, `PollAnswer`
with its interval timer and `pollRef`, the controller's `SendCommand`,
`MarkInProgress`, `TakeReport`, `StoreResults` (the last two are one `Complete`
seen by an unlocked reader), `ServePoll`, `ServeFails` (a request fails before it is
served, or its answer is lost), and the connector's `ExecuteScan`, which
dies with its stream. `hist` records which scans' reports overtook
`MarkInProgress`, polls that overlapped, and pages left with a start outstanding.

`Firewall`, `FirewallFeed` and `PolicyFeed` are composed; the other modules share
no variables. Each keeps its own copy of what it needs of a stream or a table,
because the questions differ: contents of pushes, membership of a list, rows of a
table, what a page shows.

## 3. Runs

`MC*.tla` gives model values; the `.cfg` files give the bounds.

| Run | Checks | Bounds, and why they are enough |
|---|---|---|
| `push` | `NoMissedEdit`, `NoGhostClient`, `NeverRejected`, `EditsDelivered`, `StatusSettles` | one connector with an old and a new stream, the first policy and one edit, any send given up, one restart (412 000 states). Concurrent edits and several connectors are covered by the theorems. |
| `firewall_feed` | `PortShielded`, `Converged`, `FileAgrees`, `Accounted`, `NewestEnforced`, `KeepsPromise`, `EndsUpRegistered` | two policies (one changes a port's protocol and adds a port), a channel that holds one message, two streams, one fault, one orderly end or reboot: a task lags, an old task ends after the new stream is up, a sync is cut and done again (645 000 states) |
| `allowlist_safety` | `AdmissionOK`, `ListedIsAllowed` | an agent that enrols twice in two trust domains, three streams, one restart |
| `enrolment` | `TokensOK`, `NoForeignWorkspace`, `RevocationSticks` | two connectors and an agent after one token, one workspace, one admin request, two dials, one restart; two requests with one dial pass as well (2.4 million states) and are left out for their time |
| `enrolment_tombstone` | `TombstoneHolds` is violated | one connector, deleted before it dials or while its stream is up. The same run with `Driver = "sqlite"` passes |
| `console_store` | `FileOK`, `StartKeeps`, `ViewsAgree` | a new file and old files lacking any of four columns, two crashes anywhere (the second in the start after the first), two writes, two time stamps (1.2 million states) |
| `session` | `Guarded`, `OneCreatePerAttempt`, `SignOutHolds`, `Settles` | a workspace that exists and one to be created, three roles, one attempt, two outstanding requests, one reload, one role given or changed by others (970 000 states). Two attempts pass as well (2.4 million states) and are left out for their time |
| `group_pages` | `TablesOK`, `PageInStep`, `NothingUnasked` | three users and two groups of which one each is still to be added, four changes, one by another administrator |
| `resource_pages` | `TablesOK`, `PageIsTrue`, `NothingUnasked`, `BusyMeansOutstanding` | two resources and two rules of which one each is still to be added, four changes, one by another administrator |
| `policy_pages` | `StorageOK`, `NoRevival` | two tabs, two names that differ in case, two ids, four changes; valid and invalid days and hours |
| `discovery` | `TimersOK`, `PageIsTrue`, `ScansEnd` | two scans, two openings of the page, one fault: an old poll meets a new scan, a start outlives its page |
| `fleet_pages` | `TablesOK`, `PageInStep`, `CatchesUp` | two networks, two connectors, one agent, three changes, two steps of the fleet, one failure |

The type invariant of a module is a conjunct of its structural invariant
(`AdmissionOK`, `TokensOK`, `FileOK`, `Guarded`, `TablesOK`, `StorageOK`,
`TimersOK`); those of `ControlPlane`, `Firewall` and `FirewallFeed` are theorems.

Deadlock is not checked where the bounds on streams, edits or requests make a
behaviour end.

**Fairness.** `ControlPlane`: weak fairness of every step of a goroutine that has
started, of redialling (`control_plane_loop` never gives up), of reading a live
stream, of heartbeats (every 10 s) and of the stale ticker (every 30 s). Edits,
drops and restarts are not forced. `FirewallFeed`: the connector's tasks, dialling,
delivery, the enforcer's commands, the service manager that starts the agent
again, and heartbeats; stores, faults and stops are not forced. `Enrollment` (for
`WorkspaceConnects` only): weak fairness of dialling and of the goroutine's steps;
tokens, requests, expiry and restarts are not forced. The console: React runs effects, browsers run
continuations and timers, the proxy answers every request it gets, if only with an
error; users are free. In `Discovery` and `FleetPages` each request or scan is
served for itself, since polls never end and must not hold up the others.

### Where the code and its documents disagree

`enrolment_tombstone` violates the comment at
`controller/admin/ui_connectors.go:113` that a deleted connector "cannot
re-register via gRPC": the `revoked` checks are not passed through `Rebind` and
fail on PostgreSQL. `TombstoneHolds` speaks of the time after the request that
deletes is complete: no `Connect` lets the connector in and no heartbeat is saved.
In the trace the connector dials after its deletion. What a `Connect` that passed
its check earlier still writes (`control_plane.go:101`) is not held against the
comment; that race does not depend on the driver.

Four more have a property and a configuration of their own, which are not among the
runs; TLC finds each violated in seconds.

* `FirewallLoopback.cfg` (module `MCFirewallFeed`, `LoopbackOpen`): `agent/todo.md:119`
  says that `ssh localhost` "should work". A drop whose handle is lost
  (`firewall.rs:190`, or `:200` when a deletion fails) stays in the chain, the accepts
  of the next `protect_port` come after it, and the machine is shut out of its own
  port.
* `EnrollmentWorkspace.cfg` (`MCEnrollment`, `WorkspaceConnects`):
  `api/interceptor.go:191` says "Accept global trust domain or any workspace trust
  domain". A connector certified by a workspace's CA never gets as far as the
  interceptor, since the server's pool has the controller's CA only (`main.go:87`) and
  the connector was given the workspace's CA only.
* `GroupPagesColumn.cfg` (`MCGroupPages`, `GroupsColumn`): `lib/types.ts:20` says of a
  user's `groups` "Group IDs this user belongs to". `server/routes/users.ts:73` looks
  for a key the controller does not send (`admin/handlers_users.go:254`), and the users
  page says "No groups" for everybody.
* `ConsoleStoreGrants.cfg` (`MCConsoleStore`, `LegacyGrantsKept`): the groups that
  `lib/db.ts:252` copies for the legacy rules go again with `DROP TABLE access_rules`
  (`:257`), by the cascade of their own foreign key (`:111`, with `foreign_keys` on,
  `:10`), and the migrated rules allow nobody.

Others that the modules exhibit:

* `IsStreamActive` (`control_plane.go:317`) is false for a connector whose old
  goroutine's `removeClient` (`:340`) deleted the entry of the new stream.
* Two broadcasts interleave (`control_plane.go:407`); the snapshot compiled first
  arrives last and is accepted, against `agent/plan.md:25`. Two compilations can
  give one version to two policies (`UpsertVersion`).
* "Survives controller restarts" (`control_plane.go:276`): a heartbeat upserts the
  agent's row with an empty `spiffe_id` (`:152`). An `agent_allow` sent between
  `List` and `send` of `sendAllowlist` is wiped by the older list (`overtaken`).
* Rules of an agent that stopped without clean-up are unknown to the next one,
  against `agent/todo.md:120`. A port held in one protocol is skipped in another
  (`SkipHeld`).
* After a restart `Renew` signs with the CA of the row's workspace, against
  `enroll.go:203`.
* The guard of the dashboard (`src/App.tsx:224`) turns away the role `member` and no
  other: whoever was invited with a role nobody validated is let in, and one made a
  member since stays in until the token is replaced.
* The signup callback (`src/App.tsx:46`) stays on its spinner when it is reloaded
  while the attempt is `pending` (lines 124-127); the controller's 409 becomes a
  500 in the proxy, so that lines 147-150 are not reached.
* The "Port Restrictions" of `add-resource-modal.tsx:207` are not sent
  (`handleSubmit`, 117-129).
* The dialogs of `connectors-list.tsx:151` and `remote-networks-list.tsx:174` say
  that agents are removed as well; the requests leave agents of a connector
  (`admin/server.go:355-373`).
* `lib/db.ts:145`: SQLite cannot add a `UNIQUE` column, so that an old file is
  never migrated in one start.
* `UserLayout.tsx` posts to `/api/oauth/logout` and the sessions and identity
  provider pages to `/api/admin/...`, for which the proxy has no route.

## 4. Proofs

TLAPS checks the theorems of the `*Proofs` modules. They hold for all values of
the constants that satisfy the modules' assumptions: numbers as bounds, and
placeholder values distinct from real ones (`NoEntry` is no entry of the
enforcer's map, `NoFile` no list of rules, `None` no workspace slug, `"unborn"` and `"deleted"` no
resources). The enforcer's proofs are the first part of `FirewallFeedProofs`. Three
proofs modules extend two components each and prove about one after the other:
`ControlPlaneProofs` also has the theorems on `GroupPages`, `AllowlistProofs` those
on `FleetPages`, and `PolicyPagesProofs` those on `ConsoleStore`. The two share no
state and each theorem is about one specification (`GroupSpec`, `FleetSpec`,
`StoreSpec` for the second).

**ControlPlane.** `NoMissedEdit` is not inductive: it speaks of moments at which
nothing is under way. The invariant `IInv` says what holds in between. `OwedOK`:
a registered live stream was sent the current policy or had that very one given up
(`Settled`), or somebody is bound to send it:
its own handler that has still to read or carries a current draft, or a notifier
that has still to copy the client list, has the stream on its copy, or carries a
current draft for it. An edit makes its notifier owe everyone; `Register` comes
before the first read, so that a stream is owed from the moment it is in the map.
`StreamOK` and `WireOK` (a connector's key is that of its open stream, a snapshot
is signed for the stream it is on) give `NeverRejected`; `FreshOK` (a stream not
yet dialled has no goroutine) gives `NoGhostClient`.

**Firewall.** The invariant has `RulesOK` (handles identify rules and the next is
larger than all), `EntryBacked` (the handles of an entry are two accepts and a drop
of its port, in this order), `HandlesOK` (what `protect_port` has on its
stack is in the chain, for a port not in the map), `DoomedOK` (handles being
deleted are in no entry), `AwayOK` (the rules they name are of ports not in the map,
whence a deletion never hits a protected port), `StaleOK`, `KnownOK` (while nothing leaked, a rule's handle is in the map or on
the stack) and `ProgressOK` (how far a sync without errors has come). One lemma
per conjunct shows that every step preserves it; `PortShielded`, `Converged` and
`Accounted` follow. Of `PortShielded`, that the network is shut out needs
`EntryBacked` alone and holds whatever fails (`NetClosed`); that loopback and tunnel
are let in needs that the entry's drop is the port's only one (`OwnDrop`, from
`KnownOK`), which a lost handle ends: `LoopbackOpen` shows that the condition
is needed. The theorems hold for any number of faults. `FileAgrees` has an
invariant of its own, `FileInv`: a file lists a port once, and while a restart
restores it the file is the map together with the ports still in the queue
(`RestoreOK`), whence a restart that is not disturbed ends where the file began.

**FirewallFeed.** `FeedImplementsFirewall`: every step of the composition is a
step of `Firewall` or leaves it alone, so that the enforcer's theorems hold of the
composition. `FeedInv` is the feed's own invariant: `LinkOK` (only the task of the
agent's stream sends, and nothing that was superseded when the stream was opened,
because `connect` subscribes before its task reads the stored policy), `AgentOK`,
`OwedOK` (the last policy on its way is the newest, or the task has still to send
its first, has unread messages, or a broadcast is due) and `WantedOK` (what the
enforcer was asked for is what was taken). Lemma `FeedCases` reduces the agent's
many actions to three kinds of step, and one lemma per kind shows that `FeedInv`
is kept. `NewestEnforcedTheorem` joins `OwedOK`, `WantedOK` and the enforcer's
`ProgressOK`, for a buffer of any size; `KeepsPromiseSafely` maps each kind of step
to a step of `PolicyFeed` or a stutter.

**Allowlist.** `AdmissionOK` needs `SourcesIssued`: not only the allowlist but the
registry, the table, a list that was taken and not sent, an enrolment under way
and every message on the wire name issued identities only. `ListedIsAllowed`
speaks of quiet moments; `OnItsWay` is what holds in between: while the stream in
use is the registered one, an agent of the registry that was not overtaken is in
the list about to be sent, or an enrolment is yet to announce it on this stream,
or what is on the wire leaves it allowed once it is read (`WillBeAllowed`: a
message admits it and no later list leaves it out).

**Enrollment.** `TokenStoreOK`: between SELECT and UPDATE a request holds the mutex
(`MutexHeld`), at that moment nobody was certified or is about to be by its token,
and all those who were are equal (`TokenInv`); the rest of `TokensOK` follows.
`NoForeignWorkspace` needs that the record which a heartbeat is about to save is of
a workspace of its connector (`RecEntitled`). `RevocationSticks` is an action
property, proved action by action from the type invariant.

**PolicyPages.** A tab writes what it computed from an older list, so that the
invariant says of every buffer what `StorageOK` says of the storage (`BufOK`).
That ids stay distinct across stale copies is `KnownOK`: all copies of a policy,
stored, on a page, being saved or buffered, agree on the name of an id, and ids
are given out once. `EnsuredOK`: a tab between `ensureDefault` and `readAll` finds a
list with its default (`FullOK`), unless the storage was wiped just then; such a
clear is the one way to a list without the default, and `StorageOK` says so.
`NoRevival` is an action property.

**Session.** `PostsMarked` ties the history of requests to the mark in session
storage, `OneWaiting` says that an attempt waits for one answer, which gives
`OneCreatePerAttempt` across reloads. `GrantsOK` gives `Guarded`: every token, in
the storage, in the address or in an answer under way, names a role that was given
in its workspace at some time, and what was given stays in the history (`RolesStep`,
`TokensStep`). `SignedOut` strengthens `SignOutHolds`: no
token in the address either, no continuation alive, and no page shown past its
effect that would ask for a token.

**Discovery.** Two arguments. `OneAtATime`: as long as no tick met an unanswered
poll, a page instance has one request outstanding at most, with a start
outstanding no timer runs, a poll is of its timer's scan, and all are of the scan
asked for last; hence a final answer stops the page's only timer. `Snapshot`: a
copy of a job with results, on the page or in an answer under way, was taken when
the job's task was over, after which only a restart touches the results;
`StartsOK` (a scan is asked for once; a start not yet served has no job) rules out
that the job comes back. `AddsCounted` bounds what is stored by what was asked
for. The attempt to prove `PollersOwned` without its condition failed for a
reason: TLC shows, with three scans, that after an overlapping tick a second final
answer enables the button under an outstanding start; two starts then set two
timers of which `pollRef` holds one, and the other survives its page. The
property now says so.

**ResourcePages.** `BusyMeansOutstanding` holds however requests overlap; its
invariant says which kinds of request hold the row. The others speak of an
administrator who waits, and of moments without requests. `OneRequest`: as long as
nobody hurried, one request is under way, of the page shown. `AloneInv` says what
that request may rely on: a rule is created for a resource that exists, and a
deletion whose first statements ran left no rule. `TrueInv` says what it will show:
a load that was served has read the tables as they are, and a change of a rule
closed over the tables' next state before it is served and their state after, but
for rules whose `DELETE` or `COMMIT` failed unsaid (`hist.swallowed`).
`ChangeInv` says that dialog and switch started from what the tables hold. Lemmas
`ClickForms`, `ServeForms` and `WaitingAnswer` reduce the actions to a few kinds of
step.

**ConsoleStore.** `FileOK` and `StartKeeps` speak of a file that any start, write or
stop may have left. `StoreInv` has the references table by table (`StoreShape`,
`GrantsShape`: an allowed group's rule is new or still in the legacy table); the
names of rules (`RulesShape`: a rule of `addGroupResources` is about the resource
and allows the group it is named after, so that the next call finds it, and
`OneRulePerGrant` holds); what each step of `getDb` may find in the file
(`StepShape`); that an unseeded file is a new one and that the seeded connectors
and resources stay (`SeedShape`); that a connector lacks a value only between the
column and its UPDATE, or for good when a stop tore the two, one value of the two for
each stop (`BackfillShape`, `TwoAtMost`); and where the legacy rules of groups are on their way from the old table through the
staged copy to the new one (`LegacyShape`): a legacy rule is in one of the three at
any time, and out of sight only after a stop between `DROP TABLE` and `RENAME`.
`StartKeeps` says besides that no start grants a group anything; it does not say that
the migrated rules keep their groups, which they do not (`LegacyGrantsKept`).
`ViewsAgree` follows from the
references; that the counts agree takes a bijection between a group's member rows
and its users.

**GroupPages.** Built like `ResourcePages`. `OneRequest`: as long as nobody
hurried, one request is under way. `AloneInv`: the page's group is live, the page
shows members only, but for those whose removal was served and is not answered yet
or had its answer lost (`hist.lost`), and a request to set the members names members and users that were picked. `TrueInv`:
what a request will show is what the tables hold once it is served, as long as no
request failed or lost its answer. `ChangeInv`:
the dialog started from what the tables hold. The actions come down to a few
forms, of clicks (`Opens`, `Visits`, `Sends`), of the controller (`Serves`) and of
answers (`Drops`, `Follows`).

**FleetPages.** `TablesOK` needs `HalfDone`: a network whose deletion has done the
first of its two statements has no connector left, but for those that were added
since and those the database refused to delete (`hist.swallowed`). `PageInStep` needs `InStep`: as long as nothing crossed and no answer was lost, the page waits for
one request at most, besides the networks a dialog asks for; a load that was
served has read the tables as they are, and a change that was served is seen in the
tables and not yet on the page (`InTime`).

Every invariant and every action property that a passing run checks is a theorem.
Only model-checked are the liveness properties (`EditsDelivered`, `StatusSettles`,
`EndsUpRegistered`, `Settles`, `ScansEnd`, `CatchesUp`) and the
fairness part of `KeepsPromise`: fairness and `ENABLED` are out of the prover's
reach.

No module uses `RECURSIVE` operators.

## 5. Not modelled

The controller's session table, device authorisation and the desktop client's
tokens; the mailer, diagnostics, generated code and scripts; the console's
settings, audit and diagnostics pages, which load a list or save one form and hold
nothing that a later step could find stale; its widgets and styles. Inside the
modelled parts: snapshot expiry, X.509 and JSON encodings, the order of
certificate, key and CA writes, flow control of gRPC streams, relayed log and ACL
messages, the connector's own restart in `FirewallFeed`, the invitation dialog.
`PROJECT.json` says so component by component.

## 6. Plan

1. `WorkloadFiles`: certificate, key and CA written one by one, restart and
   renewal in between; `PolicyCache`: expiry and grace.
2. `Sessions`: the controller's sessions, refresh, device authorisation and
   invitations, single use of each code.
