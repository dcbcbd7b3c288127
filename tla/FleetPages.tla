------------------------------ MODULE FleetPages ------------------------------
(***************************************************************************)
(* The console's pages on connectors, agents and remote networks: three    *)
(* lists, three detail pages and their dialogs, with the tables they show, *)
(* which enrolments and heartbeats change at any time.  One tab shows one  *)
(* page at a time.  The page of a connector loads itself again on a timer, *)
(* whatever is outstanding; revoke and grant reload it as well.  Leaving a *)
(* page does not stop a request that changes something, and the            *)
(* continuation of a deletion still navigates.                             *)
(***************************************************************************)
EXTENDS Integers, FiniteSets

CONSTANTS
    Networks, Connectors, AgentIds, \* identifiers, of rows that exist or will
    NewNetworks, NewConnectors,     \* those of rows still to be added
    MaxOps,                         \* bound on what the user does
    MaxFleet,                       \* bound on enrolments, heartbeats and losses
    MaxFails                        \* bound on requests that fail

None == "none"

ASSUME FleetPagesAssumption ==
    /\ NewNetworks \subseteq Networks /\ NewConnectors \subseteq Connectors
    /\ None \notin Networks \cup Connectors \cup AgentIds
    /\ MaxOps \in Nat /\ MaxFleet \in Nat /\ MaxFails \in Nat

VARIABLES
    nets,     \* table remote_networks: "unborn", "live" or "deleted"
    conns,    \* table connectors
    agents,   \* table tunnelers
    procs,    \* connectors whose process runs
    page,     \* the page mounted and its parameter
    mount,    \* how many pages were mounted
    loading,  \* the page shows its spinner
    shown,    \* the rows the page holds
    dialog,   \* the dialog that is open, and the networks it offers
    busy,     \* buttons of the page that are disabled
    clean,    \* since the page was mounted nobody else changed a table, no
              \* load failed, no change was made whose answer was lost, and
              \* no load or change met another
    token,    \* the install card has a token
    flights,  \* requests outstanding
    hist      \* bounds, and what the properties ask about the past

server == << nets, conns, agents, procs >>
tab == << page, mount, loading, shown, dialog, busy, clean, token >>
fleetVars == << server, tab, flights, hist >>

Rows == {"unborn", "deleted", "offline", "online"}
\* fresh: last_seen is less than half a minute ago.
Row(st) == [st |-> st, of |-> None, revoked |-> FALSE, installed |-> FALSE, fresh |-> FALSE]
There(row) == row.st \in {"offline", "online"}

LiveNets == { n \in Networks : nets[n] = "live" }
LiveConns == { c \in Connectors : There(conns[c]) }
LiveAgents == { a \in AgentIds : There(agents[a]) }

-----------------------------------------------------------------------------
(* What the pages read.                                                    *)

\* A revoked row is shown as such, whatever its status; a connector that was
\* not seen lately is offline, whatever its row says.
ConnectorCard(c) ==
    LET row == conns[c]
        status == IF row.revoked THEN "revoked" ELSE IF row.fresh THEN row.st ELSE "offline" IN
    << c, status, row.installed >>

AgentCard(a) == << a, IF agents[a].revoked THEN "revoked" ELSE agents[a].st, agents[a].installed >>

ConnectorsOf(n) == { c \in LiveConns : conns[c].of = n }
Counts(n) == << n, Cardinality(ConnectorsOf(n)), Cardinality({ c \in ConnectorsOf(n) : conns[c].st = "online" }) >>

\* The list of agents looks at last_seen only, and never shows "revoked".
AgentLine(a) == << a, IF agents[a].fresh THEN "online" ELSE "offline" >>

View(p) ==
    CASE p.name = "connectors" -> { ConnectorCard(c) : c \in LiveConns }
      [] p.name = "connector"  -> { ConnectorCard(c) : c \in LiveConns \cap {p.id} }
      [] p.name = "agents"     -> { AgentLine(a) : a \in LiveAgents }
      [] p.name = "agent"      -> { AgentCard(a) : a \in LiveAgents \cap {p.id} }
      [] p.name = "networks"   -> { Counts(n) : n \in LiveNets }
      [] p.name = "network"    -> UNION { {Counts(n)} \cup { ConnectorCard(c) : c \in ConnectorsOf(n) } : n \in LiveNets \cap {p.id} }

Page(name, id) == [name |-> name, id |-> id]
Lists == {"connectors", "agents", "networks"}
Pages == { Page(name, None) : name \in Lists }
            \cup { Page("connector", c) : c \in Connectors } \cup { Page("agent", a) : a \in AgentIds }
            \cup { Page("network", n) : n \in Networks }

Closed == [kind |-> None, offers |-> {}]

-----------------------------------------------------------------------------
(* Requests.                                                               *)

\* Loads of the page: its first and the ones that follow a change, those of
\* the timer, and the one that revoke and grant wait for.
Loads == {"load", "poll", "reload"}
Reads == Loads \cup {"offers"}

\* A request of the page mounted as number m; x is what it is about, y the
\* network of a new connector or where a deletion was asked for, n tells
\* requests of one kind apart.
Call(kind, m, x, y) ==
    LET used == { f.n : f \in { g \in flights : g.kind = kind } } IN
    [kind |-> kind, m |-> m, x |-> x, y |-> y, st |-> "sent", got |-> {},
     n |-> CHOOSE n \in 0 .. Cardinality(used) : n \notin used]

Here(f) == f.m = mount
Waiting == { f \in flights : Here(f) /\ f.kind # "token" }
Acts == hist.ops < MaxOps /\ hist' = [hist EXCEPT !.ops = @ + 1]

\* A deletion of a detail page navigates when it is answered, from anywhere.
Navigates(f) == f.kind \in {"deleteConnector", "deleteAgent"} /\ f.y \in {"delete", "cardDelete"}

\* Nobody waits for the reads of a page that was left; changes are served.
Survivors == { f \in flights : f.kind \notin Reads \cup {"token"} /\ (f.st = "sent" \/ Navigates(f)) }

\* A page mounts and loads; the page of a connector also fetches a token for
\* its install card.
Mount(p) ==
    /\ page' = p /\ mount' = mount + 1 /\ loading' = TRUE /\ shown' = {} /\ dialog' = Closed
    /\ clean' = TRUE /\ token' = FALSE
    /\ busy' = IF p.name = "connector" THEN {"token"} ELSE {}
    /\ flights' = Survivors \cup {Call("load", mount + 1, None, None)}
          \cup (IF p.name = "connector" THEN {Call("token", mount + 1, None, None)} ELSE {})
    /\ UNCHANGED server

\* Links: the sidebar leads to the lists, a row of a list to its page.
OpenList(name) == page.name # name /\ Acts /\ Mount(Page(name, None))
OpenRow(list, name, x) ==
    /\ page.name = list /\ ~loading /\ \E row \in shown : row[1] = x
    /\ Acts /\ Mount(Page(name, x))

On(name) == page.name = name /\ ~loading

\* The user sends request f; buttons b are disabled until its answer.
Send(f, b) ==
    /\ Acts /\ b \cap busy = {}
    /\ flights' = flights \cup {f} /\ busy' = busy \cup b
    /\ clean' = (clean /\ Waiting = {})
    /\ UNCHANGED << server, page, mount, loading, shown, dialog, token >>

-----------------------------------------------------------------------------
(* The page of a connector or an agent.                                    *)

Revoked == \E row \in shown : row[2] = "revoked"
Installed == \E row \in shown : row[3]

\* The install card replaces a connector that is not there or not installed;
\* under an agent it is an addition.
InstallCard ==
    \/ On("connector") /\ ~Installed /\ ~Revoked
    \/ On("agent") /\ ~Installed
Managed(name) == On(name) /\ shown # {} /\ (name = "connector" => ~InstallCard)

\* fetchEnrollmentToken again, after an error; the agent's card has a button
\* that is always there.
GetToken ==
    /\ InstallCard /\ (page.name = "connector" => ~token)
    /\ Send(Call("token", mount, None, None), {"token"})

\* The token itself is no row of these tables (Enrollment has it), so the
\* request is served and answered in one step.
TokenAnswer(f) ==
    /\ f \in flights /\ f.kind = "token"
    /\ \/ token' = TRUE /\ UNCHANGED hist
       \/ hist.fails < MaxFails /\ hist' = [hist EXCEPT !.fails = @ + 1] /\ UNCHANGED token
    /\ flights' = flights \ {f} /\ busy' = busy \ {"token"}
    /\ UNCHANGED << server, page, mount, loading, shown, dialog, clean >>

\* Mutant: the page is polled until the connector is installed.
PollUntilInstalled ==
    /\ page.name = "connector" /\ ~Installed
    /\ \/ UNCHANGED hist /\ ~\E f \in flights : f.kind = "poll"
       \/ hist.fails < MaxFails /\ hist' = [hist EXCEPT !.fails = @ + 1]
    /\ flights' = flights \cup {Call("poll", mount, None, None)}
    /\ clean' = (clean /\ Waiting = {})
    /\ UNCHANGED << server, page, mount, loading, shown, dialog, busy, token >>

\* The timer fires; ticks that meet an unanswered poll are bounded.
Poll ==
    /\ page.name = "connector"
    /\ \/ UNCHANGED hist /\ ~\E f \in flights : f.kind = "poll"
       \/ hist.fails < MaxFails /\ hist' = [hist EXCEPT !.fails = @ + 1]
    /\ flights' = flights \cup {Call("poll", mount, None, None)}
    /\ clean' = (clean /\ Waiting = {})
    /\ UNCHANGED << server, page, mount, loading, shown, dialog, busy, token >>

DeleteConnector == Managed("connector") /\ Send(Call("deleteConnector", mount, page.id, "delete"), {"delete"})
DeleteShownAgent == Managed("agent") /\ Send(Call("deleteAgent", mount, page.id, "delete"), {"delete"})

\* The agent's install card has a button of its own.
DeleteFromCard ==
    /\ page.name = "agent" /\ InstallCard
    /\ Send(Call("deleteAgent", mount, page.id, "cardDelete"), {"cardDelete"})

RevokeConnector == Managed("connector") /\ ~Revoked /\ Send(Call("revokeConnector", mount, page.id, None), {"access"})
GrantConnector == Managed("connector") /\ Revoked /\ Send(Call("grantConnector", mount, page.id, None), {"access"})
RevokeAgent == Managed("agent") /\ ~Revoked /\ Send(Call("revokeAgent", mount, page.id, None), {"access"})
GrantAgent == Managed("agent") /\ Revoked /\ Send(Call("grantAgent", mount, page.id, None), {"access"})
AccessCalls == {"revokeConnector", "grantConnector", "revokeAgent", "grantAgent"}

\* The page is loaded before the button is released.
AccessAnswer(f) ==
    /\ f \in flights /\ f.kind \in AccessCalls /\ Here(f) /\ f.st # "sent"
    /\ IF f.st = "ok"
       THEN /\ flights' = (flights \ {f}) \cup {Call("reload", mount, None, None)}
            /\ UNCHANGED busy
       ELSE flights' = flights \ {f} /\ busy' = busy \ {"access"}
    /\ UNCHANGED << server, page, mount, loading, shown, dialog, clean, token, hist >>

\* A deletion of the detail page leads to the list, also when another page is
\* open by then; on the list itself nothing is loaded again.
DetailDeleteAnswer(f) ==
    /\ f \in flights /\ Navigates(f) /\ f.st # "sent"
    /\ LET list == IF f.kind = "deleteAgent" THEN "agents" ELSE "connectors" IN
       IF f.st = "ok" /\ page.name # list
       THEN Mount(Page(list, None)) /\ UNCHANGED hist
       ELSE /\ flights' = flights \ {f} /\ busy' = IF Here(f) THEN busy \ {f.y} ELSE busy
            /\ UNCHANGED << server, page, mount, loading, shown, dialog, clean, token, hist >>

-----------------------------------------------------------------------------
(* The lists and the page of a network.                                    *)

DeleteFromList(kind, list, x) ==
    /\ On(list) /\ \E row \in shown : row[1] = x
    /\ Send(Call(kind, mount, x, "list"), {"delete"})
DeleteListed(c) == DeleteFromList("deleteConnector", "connectors", c)
DeleteNetwork(n) == DeleteFromList("deleteNetwork", "networks", n)

\* The list of agents disables one row: the last one whose removal was asked.
DeleteListedAgent(a) ==
    /\ On("agents") /\ a \notin busy /\ \E row \in shown : row[1] = a
    /\ Acts
    /\ flights' = flights \cup {Call("deleteAgent", mount, a, "list")} /\ busy' = {a}
    /\ clean' = (clean /\ Waiting = {})
    /\ UNCHANGED << server, page, mount, loading, shown, dialog, token >>

\* A deleted agent is taken out of the list the page holds by then.
ListedAgentAnswer(f) ==
    /\ f \in flights /\ f.kind = "deleteAgent" /\ ~Navigates(f) /\ Here(f) /\ f.st # "sent"
    /\ flights' = flights \ {f} /\ busy' = {}
    /\ shown' = IF f.st = "ok" THEN { row \in shown : row[1] # f.x } ELSE shown
    /\ UNCHANGED << server, page, mount, loading, dialog, clean, token, hist >>

\* The dialog of the list of connectors asks for the networks each time it
\* is opened; that of a network's page has its network.
OpenDialog ==
    /\ dialog.kind = None /\ (On("connectors") \/ On("networks") \/ (On("network") /\ shown # {}))
    /\ IF page.name = "connectors" THEN Acts ELSE UNCHANGED hist
    /\ dialog' = [kind |-> "add", offers |-> IF page.name = "network" THEN {page.id} ELSE dialog.offers]
    /\ flights' = IF page.name = "connectors" THEN flights \cup {Call("offers", mount, None, None)} ELSE flights
    /\ UNCHANGED << server, page, mount, loading, shown, busy, clean, token >>

OffersAnswer(f) ==
    /\ f \in flights /\ f.kind = "offers" /\ f.st # "sent"
    /\ flights' = flights \ {f}
    /\ dialog' = [dialog EXCEPT !.offers = IF f.st = "ok" THEN f.got ELSE {}]
    /\ UNCHANGED << server, page, mount, loading, shown, busy, clean, token, hist >>

CloseDialog ==
    /\ dialog.kind # None /\ dialog' = [dialog EXCEPT !.kind = None]
    /\ UNCHANGED << server, page, mount, loading, shown, busy, clean, token, flights, hist >>

AddConnector(c, n) ==
    /\ dialog.kind = "add" /\ page.name \in {"connectors", "network"} /\ ~loading /\ n \in dialog.offers
    /\ conns[c].st = "unborn" /\ ~\E f \in flights : f.x = c
    /\ Send(Call("addConnector", mount, c, n), {"add"})

AddRemoteNetwork(n) ==
    /\ dialog.kind = "add" /\ On("networks") /\ nets[n] = "unborn" /\ ~\E f \in flights : f.x = n
    /\ Send(Call("addNetwork", mount, n, None), {"add"})

Button(f) == IF f.kind \in {"addConnector", "addNetwork"} THEN "add" ELSE "delete"

\* Mutant: the list is not loaded again.
ListAnswerOnly(f) ==
    /\ f \in flights /\ f.kind \in {"addConnector", "addNetwork", "deleteNetwork", "deleteConnector"}
    /\ ~Navigates(f) /\ Here(f) /\ f.st \in {"ok", "failed"}
    /\ busy' = busy \ {Button(f)} /\ flights' = flights \ {f} /\ dialog' = Closed
    /\ UNCHANGED << server, page, mount, loading, shown, clean, token, hist >>

\* After a change of the list it is loaded again; the list of networks shows
\* no spinner meanwhile.  A page that does shows nothing else, which closes
\* its dialog.
ListAnswer(f) ==
    /\ f \in flights /\ f.kind \in {"addConnector", "addNetwork", "deleteNetwork", "deleteConnector"}
    /\ ~Navigates(f) /\ Here(f) /\ f.st \in {"ok", "failed"}
    /\ busy' = busy \ {Button(f)}
    /\ IF f.st = "ok"
       THEN /\ flights' = (flights \ {f}) \cup {Call("load", mount, None, None)}
            /\ loading' = (page.name # "networks")
            /\ dialog' = IF page.name # "networks" THEN Closed
                         ELSE IF Button(f) = "add" THEN [dialog EXCEPT !.kind = None] ELSE dialog
            /\ clean' = (clean /\ Waiting = {f})
       ELSE flights' = flights \ {f} /\ UNCHANGED << loading, dialog, clean >>
    /\ UNCHANGED << server, page, mount, shown, token, hist >>

-----------------------------------------------------------------------------
\* A load is shown when it arrives.  An agent's page that finds none, or one
\* that is not installed, mounts the install card, which fetches a token.
LoadAnswer(f) ==
    /\ f \in flights /\ f.kind \in Loads /\ f.st # "sent"
    /\ LET now == IF f.st = "ok" THEN f.got ELSE shown
           card == page.name = "agent" /\ f.kind = "load" /\ (now = {} \/ \A row \in now : ~row[3]) IN
       /\ shown' = now
       /\ flights' = (flights \ {f}) \cup (IF card THEN {Call("token", mount, None, None)} ELSE {})
       /\ busy' = (IF f.kind = "reload" THEN busy \ {"access"} ELSE busy) \cup (IF card THEN {"token"} ELSE {})
    /\ loading' = (loading /\ f.kind # "load")
    /\ clean' = (clean /\ f.st = "ok")
    /\ UNCHANGED << server, page, mount, dialog, token, hist >>

Answer(f) ==
    \/ TokenAnswer(f) \/ AccessAnswer(f) \/ DetailDeleteAnswer(f) \/ ListedAgentAnswer(f)
    \/ OffersAnswer(f) \/ ListAnswer(f) \/ LoadAnswer(f)

-----------------------------------------------------------------------------
(* The server.  Nobody waits for the answer of a page that was left.       *)

Served(f, g) ==
    /\ flights' = (flights \ {f}) \cup (IF Here(f) \/ Navigates(f) THEN {g} ELSE {})
    /\ UNCHANGED << page, mount, loading, shown, dialog, busy, token >>
Done(f) == [f EXCEPT !.st = "ok"]

ServeRead(f) ==
    /\ f \in flights /\ f.kind \in Reads /\ f.st = "sent"
    /\ Served(f, [Done(f) EXCEPT !.got = IF f.kind = "offers" THEN LiveNets ELSE View(page)])
    /\ UNCHANGED << server, clean, hist >>

\* A request that changes a table changes it for the page that shows it, too.
Change(f, kind) ==
    /\ f \in flights /\ f.kind = kind /\ f.st = "sent"
    /\ clean' = (clean /\ Here(f))
    /\ UNCHANGED procs

\* Nothing checks that the network is (still) there.
ServeAddConnector(f) ==
    /\ Change(f, "addConnector") /\ Served(f, Done(f))
    /\ conns' = [conns EXCEPT ![f.x] = [Row("offline") EXCEPT !.of = f.y, !.fresh = TRUE]]
    /\ hist' = [hist EXCEPT !.raced =
          IF nets[f.y] # "live" \/ \E g \in flights : g.st = "half" /\ g.x = f.y THEN @ \cup {f.x} ELSE @]
    /\ UNCHANGED << nets, agents >>

\* The proxy's deletion is the one of /api/admin: the row goes, the agents of
\* the connector stay.
ServeDeleteConnector(f) ==
    /\ Change(f, "deleteConnector") /\ Served(f, Done(f))
    /\ conns' = [conns EXCEPT ![f.x] = Row("deleted")]
    /\ UNCHANGED << nets, agents, hist >>

\* UPDATE: a row that is gone stays so.
ServeRevokeConnector(f) ==
    /\ Change(f, "revokeConnector") /\ Served(f, Done(f))
    /\ conns' = IF There(conns[f.x])
                THEN [conns EXCEPT ![f.x] = [@ EXCEPT !.st = "offline", !.revoked = TRUE, !.installed = FALSE]] ELSE conns
    /\ UNCHANGED << nets, agents, hist >>

ServeGrantConnector(f) ==
    /\ Change(f, "grantConnector") /\ Served(f, Done(f))
    /\ conns' = IF There(conns[f.x]) THEN [conns EXCEPT ![f.x] = [@ EXCEPT !.st = "offline", !.revoked = FALSE]] ELSE conns
    /\ UNCHANGED << nets, agents, hist >>

ServeDeleteAgent(f) ==
    /\ Change(f, "deleteAgent") /\ Served(f, Done(f))
    /\ agents' = [agents EXCEPT ![f.x] = Row("deleted")]
    /\ UNCHANGED << nets, conns, hist >>

ServeAgentAccess(f, kind, revoked) ==
    /\ Change(f, kind) /\ Served(f, Done(f))
    /\ agents' = IF There(agents[f.x]) THEN [agents EXCEPT ![f.x] = [@ EXCEPT !.st = "offline", !.revoked = revoked]] ELSE agents
    /\ UNCHANGED << nets, conns, hist >>

ServeAddNetwork(f) ==
    /\ Change(f, "addNetwork") /\ Served(f, Done(f))
    /\ nets' = [nets EXCEPT ![f.x] = "live"]
    /\ UNCHANGED << conns, agents, hist >>

\* Mutant: the connectors of the network are forgotten, no statement failing.
ServeDeleteNetworkOnly(f) ==
    /\ Change(f, "deleteNetwork")
    /\ flights' = (flights \ {f}) \cup {[f EXCEPT !.st = "half"]}
    /\ UNCHANGED << nets, conns, agents, page, mount, loading, shown, dialog, busy, token, hist >>

\* The network's connectors go first, its own row last.
ServeDeleteNetwork(f) ==
    /\ Change(f, "deleteNetwork")
    /\ conns' = [c \in Connectors |-> IF conns[c].of = f.x THEN Row("deleted") ELSE conns[c]]
    /\ flights' = (flights \ {f}) \cup {[f EXCEPT !.st = "half"]}
    /\ UNCHANGED << nets, agents, page, mount, loading, shown, dialog, busy, token, hist >>

ServeDeleteNetworkRow(f) ==
    /\ f \in flights /\ f.st = "half" /\ Served(f, Done(f))
    /\ nets' = [nets EXCEPT ![f.x] = "deleted"]
    /\ clean' = (clean /\ Here(f))
    /\ UNCHANGED << conns, agents, procs, hist >>

\* The statement fails: the handler ignores the error and answers that the
\* row is gone, or revoked, or granted.  The agents that stay are noted.
SwallowChange(f) ==
    /\ f \in flights /\ f.kind \in {"deleteConnector", "deleteAgent"} \cup AccessCalls /\ f.st = "sent"
    /\ Served(f, Done(f))
    /\ hist' = [hist EXCEPT !.swallowed = IF f.kind = "deleteAgent" THEN @ \cup {f.x} ELSE @]
    /\ UNCHANGED << server, clean >>

\* The same for the connectors of a network, whose own row goes all the same.
SwallowConnectors(f) ==
    /\ Change(f, "deleteNetwork")
    /\ flights' = (flights \ {f}) \cup {[f EXCEPT !.st = "half"]}
    /\ hist' = [hist EXCEPT !.swallowed = @ \cup {f.x}]
    /\ UNCHANGED << nets, conns, agents, page, mount, loading, shown, dialog, busy, token >>

\* The request was served and its answer is lost between the controller, the
\* proxy and the tab, which sees an error and keeps what it shows.
LoseAnswer(f) ==
    /\ f \in flights /\ f.kind # "token" /\ f.st = "ok" /\ hist.fails < MaxFails
    /\ hist' = [hist EXCEPT !.fails = @ + 1]
    /\ clean' = (clean /\ f.kind \in Reads)
    /\ flights' = (flights \ {f}) \cup {[f EXCEPT !.st = "failed"]}
    /\ UNCHANGED << server, page, mount, loading, shown, dialog, busy, token >>

\* A request fails before it is served.  A deletion of a network that fails
\* at its last statement, the one whose error is not ignored, leaves the page
\* as it was, without the connectors that are gone.
ServeFails(f) ==
    /\ f \in flights /\ f.kind # "token" /\ f.st \in {"sent", "half"} /\ hist.fails < MaxFails
    /\ hist' = [hist EXCEPT !.fails = @ + 1]
    /\ clean' = (clean /\ f.st = "sent")
    /\ Served(f, [f EXCEPT !.st = "failed"])
    /\ UNCHANGED server

Serve(f) ==
    \/ ServeRead(f) \/ ServeAddConnector(f) \/ ServeDeleteConnector(f)
    \/ ServeRevokeConnector(f) \/ ServeGrantConnector(f) \/ ServeDeleteAgent(f)
    \/ ServeAgentAccess(f, "revokeAgent", TRUE) \/ ServeAgentAccess(f, "grantAgent", FALSE)
    \/ ServeAddNetwork(f) \/ ServeDeleteNetwork(f) \/ ServeDeleteNetworkRow(f)
    \/ SwallowChange(f) \/ SwallowConnectors(f)

-----------------------------------------------------------------------------
(* The fleet.                                                              *)

Fleet ==
    /\ hist.fleet < MaxFleet /\ hist' = [hist EXCEPT !.fleet = @ + 1]
    /\ clean' = FALSE
    /\ UNCHANGED << nets, page, mount, loading, shown, dialog, busy, token, flights >>

\* The upsert of a heartbeat brings a deleted row back, without its network;
\* it does not look at revoked.
Heartbeat(c) ==
    /\ c \in procs \/ There(conns[c])
    /\ Fleet /\ procs' = procs \cup {c}
    /\ conns' = [conns EXCEPT ![c] =
          [(IF There(@) THEN @ ELSE Row("online")) EXCEPT !.st = "online", !.installed = TRUE, !.fresh = TRUE]]
    /\ UNCHANGED agents

\* Half a minute without a heartbeat of c, and of the agents it reports.
Silent(c) ==
    /\ There(conns[c]) /\ conns[c].fresh /\ Fleet
    /\ conns' = [conns EXCEPT ![c].fresh = FALSE]
    /\ agents' = [a \in AgentIds |-> IF agents[a].of = c THEN [agents[a] EXCEPT !.fresh = FALSE] ELSE agents[a]]
    /\ UNCHANGED procs

\* The ticker sets what is silent offline.
Tick ==
    /\ LET Aged(row) == IF row.st = "online" /\ ~row.fresh THEN [row EXCEPT !.st = "offline"] ELSE row IN
       /\ conns' = [c \in Connectors |-> Aged(conns[c])]
       /\ agents' = [a \in AgentIds |-> Aged(agents[a])]
    /\ << conns, agents >>' # << conns, agents >>
    /\ Fleet /\ UNCHANGED procs

\* NotifyAgentAllowed, and the heartbeat of a connector that has the agent.
AgentEnrols(a) ==
    /\ Fleet
    /\ agents' = [agents EXCEPT ![a] = [(IF There(@) THEN @ ELSE Row("offline")) EXCEPT !.fresh = TRUE]]
    /\ UNCHANGED << conns, procs >>

AgentSeen(c, a) ==
    /\ c \in procs /\ agents[a].st # "unborn" /\ Fleet
    /\ agents' = [agents EXCEPT ![a] = [(IF There(@) THEN @ ELSE Row("online"))
                                          EXCEPT !.st = "online", !.installed = TRUE, !.fresh = TRUE, !.of = c]]
    /\ UNCHANGED << conns, procs >>

-----------------------------------------------------------------------------
FleetInit ==
    /\ nets = [n \in Networks |-> IF n \in NewNetworks THEN "unborn" ELSE "live"]
    /\ procs \in SUBSET (Connectors \ NewConnectors)
    /\ \E home \in Networks \ NewNetworks :
       conns = [c \in Connectors |-> IF c \in NewConnectors THEN Row("unborn") ELSE
                  [Row(IF c \in procs THEN "online" ELSE "offline") EXCEPT !.of = home, !.installed = (c \in procs), !.fresh = (c \in procs)]]
    /\ agents = [a \in AgentIds |-> Row("unborn")]
    /\ page \in { Page(name, None) : name \in Lists } /\ mount = 0 /\ loading = TRUE /\ shown = {} /\ dialog = Closed
    /\ busy = {} /\ clean = TRUE /\ token = FALSE
    /\ flights = {[kind |-> "load", m |-> 0, x |-> None, y |-> None, st |-> "sent", got |-> {}, n |-> 0]}
    /\ hist = [ops |-> 0, fleet |-> 0, fails |-> 0, raced |-> {}, swallowed |-> {}]

User ==
    \/ \E name \in Lists : OpenList(name)
    \/ \E c \in Connectors : OpenRow("connectors", "connector", c) \/ OpenRow("network", "connector", c) \/ DeleteListed(c)
    \/ \E a \in AgentIds : OpenRow("agents", "agent", a) \/ DeleteListedAgent(a)
    \/ \E n \in Networks : OpenRow("networks", "network", n) \/ DeleteNetwork(n) \/ AddRemoteNetwork(n)
    \/ \E c \in Connectors, n \in Networks : AddConnector(c, n)
    \/ GetToken \/ DeleteConnector \/ DeleteShownAgent \/ DeleteFromCard \/ RevokeConnector \/ GrantConnector
    \/ RevokeAgent \/ GrantAgent \/ OpenDialog \/ CloseDialog

Field ==
    \/ \E c \in Connectors : Heartbeat(c) \/ Silent(c)
    \/ Tick
    \/ \E a \in AgentIds : AgentEnrols(a) \/ \E c \in Connectors : AgentSeen(c, a)

FleetNext == User \/ Poll \/ Field \/ \E f \in flights : Serve(f) \/ Answer(f) \/ ServeFails(f) \/ LoseAnswer(f)

\* Requests are served and answered and the timer fires; polls, which never
\* end, cannot hold the others up.
Fairness ==
    /\ WF_fleetVars(Poll)
    /\ WF_fleetVars(\E f \in flights : f.kind # "poll" /\ (Serve(f) \/ Answer(f)))
    /\ \A n \in 0 .. MaxFails : WF_fleetVars(\E f \in flights : f.kind = "poll" /\ f.n = n /\ (Serve(f) \/ Answer(f)))

FleetSpec == FleetInit /\ [][FleetNext]_fleetVars
FairFleetSpec == FleetSpec /\ Fairness

-----------------------------------------------------------------------------
(* Properties.                                                             *)

TableRows(owners) == [st : Rows, of : owners \cup {None}, revoked : BOOLEAN, installed : BOOLEAN, fresh : BOOLEAN]

FleetTypeOK ==
    /\ nets \in [Networks -> {"unborn", "live", "deleted"}]
    /\ conns \in [Connectors -> TableRows(Networks)] /\ agents \in [AgentIds -> TableRows(Connectors)]
    /\ procs \subseteq Connectors /\ page \in Pages /\ loading \in BOOLEAN /\ clean \in BOOLEAN /\ token \in BOOLEAN
    /\ dialog \in [kind : {None, "add"}, offers : SUBSET Networks]
    /\ busy \subseteq {"delete", "cardDelete", "access", "add", "token"} \cup AgentIds

\* What a page does itself it shows: with nothing outstanding, nobody else at
\* work, no answer lost and no two requests crossing, the page is what the
\* server would answer now.  Errors the handlers ignore change nothing in
\* that, because every page loads itself again after a change, except one:
\* the list of agents takes the row out without reading (AgentsPage.tsx 56)
\* and lacks an agent whose DELETE failed (ui_agents.go 81).
PageInStep ==
    (clean /\ ~loading /\ Waiting = {}) =>
        /\ shown \subseteq View(page)
        /\ \A row \in View(page) \ shown : page.name = "agents" /\ row[1] \in hist.swallowed

\* A connector's network exists, unless the connector was added to one that
\* was gone or going (ui_connectors.go 54 checks nothing) or the DELETE of
\* the network's connectors failed, which does not keep its row from going
\* (ui_remote_networks.go 184-196).
NoOrphanConnectors == \A c \in LiveConns \ hist.raced : conns[c].of \in LiveNets \cup {None} \cup hist.swallowed

\* The tables and the page keep their shape, and connectors their network.
TablesOK == FleetTypeOK /\ NoOrphanConnectors

\* Once the fleet is quiet the page of a connector ends up with the
\* connector's real status, whatever answers came late or out of order
\* (ConnectorDetailPage.tsx 115-123).
CatchesUp == <>[](page.name = "connector" => shown = View(page))
=============================================================================
