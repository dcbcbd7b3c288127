----------------------------- MODULE ResourcePages -----------------------------
(***************************************************************************)
(* The console's pages on resources: the list with its dialogs and the     *)
(* firewall switch, and the page of one resource with its access rules and *)
(* the counts of the identities each rule lets in.  As on the pages of     *)
(* groups, one tab shows one page, a change is a request whose             *)
(* continuation closes over what the page showed, and leaving a page does  *)
(* not stop its requests.  The list asks for its data again after every    *)
(* change; the page of a resource never does: it edits the list of rules   *)
(* it holds.  The counts are asked for again whenever that list changes.   *)
(* The groups of a rule are created with it and are left out here.         *)
(***************************************************************************)
EXTENDS Integers

CONSTANTS
    Resources, NewResources,  \* identifiers, those of rows to be added
    Rules, NewRules,          \* the same of access rules
    Addresses,                \* what the dialogs can change of a resource
    MaxOps,                   \* bound on the requests and visits of both
    MaxOther                  \* bound on those of the other administrator

ASSUME ResourcePagesAssumption ==
    /\ NewResources \subseteq Resources /\ NewRules \subseteq Rules /\ Resources \ NewResources # {}
    /\ MaxOps \in Nat /\ MaxOther \in Nat
    /\ Addresses # {} /\ "unborn" \notin Resources /\ "deleted" \notin Resources

VARIABLES
    resources,  \* table resources
    rules,      \* table access_rules: the resource of each rule that exists
    page,       \* the page mounted and, on a resource's page, the resource
    loading,    \* the page shows its spinner
    shown,      \* the rows of the list, or the rules of the resource
    counts,     \* the rules with an identity count
    modal,      \* the dialog that is open
    busy,       \* the row whose button is disabled: togglingId, deleting
    flights,    \* requests outstanding
    hist        \* bounds, and what the properties ask about the past

server == << resources, rules >>
tab == << page, loading, shown, counts, modal, busy >>
vars == << resources, rules, page, loading, shown, counts, modal, busy, flights, hist >>

None == "none"
FirewallStatus == {"protected", "unprotected"}
Present == { r \in Resources : resources[r].st = "live" }
RulesOf(r) == { x \in Rules : rules[x] = r }

-----------------------------------------------------------------------------
(* What the pages read.                                                    *)

Nothing == [found |-> FALSE, items |-> {}]

\* GET /api/resources: a row without a firewall status is unprotected.
ResourcesView ==
    [found |-> TRUE, items |-> { [id |-> r, address |-> resources[r].address, fw |-> resources[r].fw] : r \in Present }]

\* GET /api/resources/:id.
ResourceView(r) == IF r \in Present THEN [found |-> TRUE, items |-> RulesOf(r)] ELSE Nothing

View(p) == IF p.name = "list" THEN ResourcesView ELSE ResourceView(p.res)

-----------------------------------------------------------------------------
(* Requests, pages and dialogs.                                            *)

\* A dialog has the name of the call it makes.
Closed == [kind |-> None, item |-> None, address |-> None]

ResourceCalls == {"addResource", "updateResource", "setResourceFirewallStatus", "deleteResource"}
RuleCalls == {"createAccessRule", "deleteAccessRule"}
Reads == {"load", "counts"}

\* A request: item is the row it is about and data what it sends, then the
\* rules the continuation will show, got what a read returned.
Call(kind, item, data, n) ==
    [kind |-> kind, item |-> item, data |-> data, n |-> n, kept |-> FALSE, then |-> {}, got |-> Nothing,
     st |-> "sent", at |-> "here"]

Request(kind, item, data) ==
    LET used == { f.n : f \in { x \in flights : x.kind = kind } } IN
    Call(kind, item, data, CHOOSE n \in 0 .. MaxOps + 2 : n \notin used /\ \A k \in 0 .. n - 1 : k \in used)

Saving(kind) == \E f \in flights : f.kind = kind /\ f.at = "here"

\* Something the user does; overlap records that an answer was outstanding.
Acts == /\ hist.ops < MaxOps
        /\ hist' = [hist EXCEPT !.ops = @ + 1, !.overlap = @ \/ flights # {}]

\* A link leads to another page.
Visit(p) ==
    /\ page # p /\ Acts
    /\ page' = p /\ loading' = TRUE /\ shown' = Nothing /\ counts' = {} /\ modal' = Closed /\ busy' = None
    /\ flights' = { [f EXCEPT !.at = "gone"] : f \in { x \in flights : x.kind \notin Reads /\ x.st \in {"sent", "half"} } }
                      \cup {Call("load", None, None, 0)}
    /\ UNCHANGED server

OpenResourcesPage == Visit([name |-> "list", res |-> None])

On(name) == page.name = name /\ ~loading /\ shown.found
Idle == modal.kind = None
Rows(r) == { x \in shown.items : x.id = r }

OpenResourcePage(r) == On("list") /\ Idle /\ Rows(r) # {} /\ Visit([name |-> "detail", res |-> r])

\* The user sends a request, with dialog m open and row b disabled.
Send(f, m, b) ==
    /\ Acts
    /\ flights' = flights \cup {f}
    /\ modal' = m /\ busy' = b
    /\ UNCHANGED << page, loading, shown, counts >> /\ UNCHANGED server

CloseDialog ==
    /\ ~Idle /\ ~loading
    /\ modal' = Closed
    /\ UNCHANGED << page, loading, shown, counts, busy, flights, hist >> /\ UNCHANGED server

-----------------------------------------------------------------------------
(* The list.                                                               *)

\* handleSubmit of the dialog: the protocol and the ports, which no other
\* request looks at, are left out.
AddResource(r, a) ==
    /\ On("list") /\ Idle /\ resources[r].st = "unborn" /\ ~Saving("addResource")
    /\ Send(Request("addResource", r, a), [Closed EXCEPT !.kind = "addResource"], busy)

OpenEditResource(r) ==
    /\ On("list") /\ Idle /\ Acts
    /\ \E x \in Rows(r) : modal' = [kind |-> "updateResource", item |-> r, address |-> x.address]
    /\ UNCHANGED << page, loading, shown, counts, busy, flights >> /\ UNCHANGED server

\* Save sends every field, those the user did not touch as the list had
\* them.
UpdateResource(a) ==
    /\ On("list") /\ modal.kind = "updateResource" /\ ~Saving("updateResource")
    /\ Send([Request("updateResource", modal.item, a) EXCEPT !.kept = (a = modal.address)], modal, busy)

DeleteResource(r) == /\ On("list") /\ Idle /\ Rows(r) # {}
                     /\ Send(Request("deleteResource", r, None), modal, busy)

\* handleFirewallToggle: the new status is the opposite of the one shown.
FirewallToggle(r) ==
    /\ On("list") /\ Idle /\ busy # r
    /\ \E x \in Rows(r) :
          Send(Request("setResourceFirewallStatus", r, IF x.fw = "protected" THEN "unprotected" ELSE "protected"),
               modal, r)

-----------------------------------------------------------------------------
(* The page of a resource.                                                 *)

AddAccessRule(x) ==
    /\ On("detail") /\ Idle /\ rules[x] = "unborn" /\ ~Saving("createAccessRule")
    /\ ~\E f \in flights : f.item = x
    /\ Send([Request("createAccessRule", x, page.res) EXCEPT !.then = shown.items \cup {x}],
            [Closed EXCEPT !.kind = "createAccessRule"], busy)

\* Mutant: the table keeps the rule until the page is opened again.
DeleteRuleKeeps(x) ==
    /\ On("detail") /\ Idle /\ x \in shown.items /\ busy # x
    /\ Send([Request("deleteAccessRule", x, None) EXCEPT !.then = shown.items], modal, x)

\* The confirmation closes when it is clicked; the row's button is disabled.
DeleteRule(x) ==
    /\ On("detail") /\ Idle /\ x \in shown.items /\ busy # x
    /\ Send([Request("deleteAccessRule", x, None) EXCEPT !.then = shown.items \ {x}], modal, x)

-----------------------------------------------------------------------------
(* The controller behind the proxy.                                        *)

Served(f, g) == flights' = (flights \ {f}) \cup (IF f.at = "gone" THEN {} ELSE {g})
Ok(f) == Served(f, [f EXCEPT !.st = "ok"])
Sent(f, kinds) == f \in flights /\ f.st = "sent" /\ f.kind \in kinds

ServeRead(f) ==
    /\ Sent(f, Reads)
    /\ Served(f, [f EXCEPT !.st = "ok", !.got = IF f.kind = "load" THEN View(page) ELSE f.got])
    /\ UNCHANGED hist /\ UNCHANGED server

\* A PUT leaves the firewall status alone; one on a row that is gone, like
\* a PATCH, changes nothing and is no error.
ServeResource(f) ==
    /\ Sent(f, {"addResource", "updateResource", "setResourceFirewallStatus"}) /\ Ok(f)
    /\ LET old == resources[f.item] IN
       CASE f.kind = "addResource" ->
                /\ old.st = "unborn"
                /\ resources' = [resources EXCEPT ![f.item] = [st |-> "live", address |-> f.data, fw |-> "unprotected"]]
                /\ UNCHANGED hist
         [] f.kind = "updateResource" ->
                /\ resources' = IF old.st = "live" THEN [resources EXCEPT ![f.item].address = f.data] ELSE resources
                /\ hist' = [hist EXCEPT !.undone = @ \/ (old.st = "live" /\ f.kept /\ f.data # old.address)]
         [] OTHER ->
                /\ resources' = IF old.st = "live" THEN [resources EXCEPT ![f.item].fw = f.data] ELSE resources
                /\ hist' = [hist EXCEPT !.idle = @ \/ (old.st = "live" /\ f.data = old.fw)]
    /\ UNCHANGED rules

\* Mutant: the row goes and its rules stay.
ServeDeleteResourceOnly(f) ==
    /\ Sent(f, {"deleteResource"}) /\ Ok(f)
    /\ resources' = [resources EXCEPT ![f.item].st = "deleted"]
    /\ UNCHANGED << rules, hist >>

\* The rules of the resource are deleted first, then its row; no
\* transaction holds the statements together, and an error of one ends the
\* handler.  The statement before them, on the groups of the rules, changes
\* nothing that is kept here.
ServeDeleteResource(f) ==
    /\ f \in flights /\ f.kind = "deleteResource" /\ f.st \in {"sent", "half"}
    /\ \/ /\ f.st = "sent"
          /\ flights' = (flights \ {f}) \cup {[f EXCEPT !.st = "half"]}
          /\ rules' = [x \in Rules |-> IF rules[x] = f.item THEN "deleted" ELSE rules[x]]
          /\ UNCHANGED resources
       \/ /\ f.st = "half" /\ Ok(f)
          /\ resources' = [resources EXCEPT ![f.item].st = "deleted"]
          /\ UNCHANGED rules
    /\ UNCHANGED hist

\* A rule may name a resource that is gone.
ServeRule(f) ==
    /\ Sent(f, RuleCalls) /\ Ok(f)
    /\ rules' = [rules EXCEPT ![f.item] = IF f.kind = "createAccessRule" THEN f.data ELSE "deleted"]
    /\ UNCHANGED << resources, hist >>

\* The DELETE of a rule, or the COMMIT of a new one, fails: the handler
\* ignores the error and answers that all is well.  A new rule's identifier
\* is not used again.
SwallowRule(f) ==
    /\ Sent(f, RuleCalls) /\ Ok(f)
    /\ rules' = IF f.kind = "createAccessRule" THEN [rules EXCEPT ![f.item] = "deleted"] ELSE rules
    /\ hist' = [hist EXCEPT !.swallowed = @ \cup {f.item}]
    /\ UNCHANGED resources

\* The controller carried the request out and the answer is lost between it,
\* the proxy and the tab, which sees an error.
LoseAnswer(f) ==
    /\ f \in flights /\ f.st = "ok"
    /\ flights' = (flights \ {f}) \cup {[f EXCEPT !.st = "failed"]}
    /\ hist' = [hist EXCEPT !.failed = TRUE]
    /\ UNCHANGED server

\* The controller, the proxy or the network fails, before the request is
\* served or between two statements.
ServeFails(f) ==
    /\ f \in flights /\ f.st \in {"sent", "half"}
    /\ Served(f, [f EXCEPT !.st = "failed"])
    /\ hist' = [hist EXCEPT !.failed = TRUE]
    /\ UNCHANGED server

Serve(f) == /\ ServeRead(f) \/ ServeResource(f) \/ ServeDeleteResource(f) \/ ServeRule(f) \/ SwallowRule(f)
                  \/ ServeFails(f) \/ LoseAnswer(f)
            /\ UNCHANGED tab

-----------------------------------------------------------------------------
(* The continuations.                                                      *)

Answered(f, kinds) == f \in flights /\ f.st \in {"ok", "failed"} /\ f.kind \in kinds

\* The page of a resource gets a list of rules: the effect of the table
\* asks for the counts of that list.
ShowRules(f, items) ==
    /\ shown' = [found |-> TRUE, items |-> items]
    /\ flights' = (flights \ {f}) \cup {[Request("counts", None, None) EXCEPT !.got = [found |-> TRUE, items |-> items]]}

LoadAnswer(f) ==
    /\ Answered(f, {"load"})
    /\ loading' = FALSE
    /\ IF f.st = "ok" /\ page.name = "detail" /\ f.got.found THEN ShowRules(f, f.got.items)
       ELSE flights' = flights \ {f} /\ shown' = IF f.st = "ok" THEN f.got ELSE shown
    /\ UNCHANGED << page, counts, modal, busy >>

CountsAnswer(f) ==
    /\ Answered(f, {"counts"})
    /\ flights' = flights \ {f}
    /\ counts' = IF f.st = "ok" THEN f.got.items ELSE counts
    /\ UNCHANGED << page, loading, shown, modal, busy >>

\* Mutant: the switch stays disabled after an error.
ListAnswerBusy(f) ==
    /\ Answered(f, ResourceCalls)
    /\ IF f.st = "ok"
       THEN /\ loading' = TRUE /\ busy' = None
            /\ flights' = { [x EXCEPT !.at = IF @ = "here" THEN "page" ELSE @] : x \in flights \ {f} }
                              \cup {Request("load", None, None)}
            /\ modal' = IF modal.kind = f.kind THEN Closed ELSE modal
       ELSE flights' = flights \ {f} /\ UNCHANGED << loading, modal, busy >>
    /\ UNCHANGED << page, shown, counts >>

\* Mutant: the list is not asked for again.
ListAnswerStays(f) ==
    /\ Answered(f, ResourceCalls)
    /\ flights' = flights \ {f} /\ modal' = Closed /\ busy' = None
    /\ UNCHANGED << page, loading, shown, counts >>

\* The list asks for its data again and the dialog closes; the spinner
\* replaces the rows and the dialogs, which start anew.
ListAnswer(f) ==
    /\ Answered(f, ResourceCalls)
    /\ IF f.st = "ok"
       THEN /\ loading' = TRUE /\ busy' = None
            /\ flights' = { [x EXCEPT !.at = IF @ = "here" THEN "page" ELSE @] : x \in flights \ {f} }
                              \cup {Request("load", None, None)}
            /\ modal' = IF modal.kind = f.kind THEN Closed ELSE modal
       ELSE /\ flights' = flights \ {f}
            /\ busy' = IF f.kind = "setResourceFirewallStatus" /\ f.at = "here" THEN None ELSE busy
            /\ UNCHANGED << loading, modal >>
    /\ UNCHANGED << page, shown, counts >>

\* The rules shown become those the continuation closed over.
RuleAnswer(f) ==
    /\ Answered(f, RuleCalls)
    /\ IF f.st = "ok" THEN ShowRules(f, f.then) ELSE flights' = flights \ {f} /\ UNCHANGED shown
    /\ modal' = IF f.st = "ok" /\ modal.kind = f.kind THEN Closed ELSE modal
    /\ busy' = IF f.kind = "deleteAccessRule" THEN None ELSE busy
    /\ UNCHANGED << page, loading, counts >>

Answer(f) == /\ LoadAnswer(f) \/ CountsAnswer(f) \/ ListAnswer(f) \/ RuleAnswer(f)
             /\ UNCHANGED hist /\ UNCHANGED server

-----------------------------------------------------------------------------
\* Another administrator's requests, one at a time.
Other ==
    /\ hist.other < MaxOther /\ hist.ops < MaxOps
    /\ hist' = [hist EXCEPT !.other = @ + 1, !.ops = @ + 1]
    /\ \/ \E r \in Present :
             /\ \/ \E s \in FirewallStatus : resources' = [resources EXCEPT ![r].fw = s]
                \/ \E a \in Addresses : resources' = [resources EXCEPT ![r].address = a]
             /\ UNCHANGED rules
       \/ \E x \in Rules : /\ rules[x] \in Resources
                           /\ rules' = [rules EXCEPT ![x] = "deleted"] /\ UNCHANGED resources
    /\ UNCHANGED << page, loading, shown, counts, modal, busy, flights >>

Init ==
    /\ resources = [r \in Resources |-> [st |-> IF r \in NewResources THEN "unborn" ELSE "live",
                                         address |-> CHOOSE a \in Addresses : TRUE, fw |-> "unprotected"]]
    /\ rules = [x \in Rules |-> IF x \in NewRules THEN "unborn" ELSE CHOOSE r \in Resources \ NewResources : TRUE]
    /\ page = [name |-> "list", res |-> None] /\ loading = TRUE /\ shown = Nothing /\ counts = {}
    /\ modal = Closed /\ busy = None
    /\ flights = {Call("load", None, None, 0)}
    /\ hist = [ops |-> 0, other |-> 0, overlap |-> FALSE, failed |-> FALSE, undone |-> FALSE, idle |-> FALSE,
               swallowed |-> {}]

Click ==
    \/ OpenResourcesPage \/ CloseDialog
    \/ \E r \in Resources : OpenResourcePage(r) \/ OpenEditResource(r) \/ DeleteResource(r) \/ FirewallToggle(r)
    \/ \E r \in Resources, a \in Addresses : AddResource(r, a)
    \/ \E a \in Addresses : UpdateResource(a)
    \/ \E x \in Rules : AddAccessRule(x) \/ DeleteRule(x)

Next == Click \/ Other \/ \E f \in flights : Serve(f) \/ Answer(f)

Spec == Init /\ [][Next]_vars

-----------------------------------------------------------------------------
(* Properties.                                                             *)

\* One administrator, who waits for each answer; and no request failed.
Alone == ~hist.overlap /\ hist.other = 0
Calm == Alone /\ ~hist.failed

TypeOK ==
    /\ resources \in [Resources -> [st : {"unborn", "live", "deleted"}, address : Addresses, fw : FirewallStatus]]
    /\ rules \in [Rules -> Resources \cup {"unborn", "deleted"}]
    /\ page.name \in {"list", "detail"} /\ page.res \in Resources \cup {None}
    /\ loading \in BOOLEAN /\ counts \subseteq Rules
    /\ busy \in Resources \cup Rules \cup {None}

\* To an administrator who waits for answers that all arrive, a page at
\* rest shows the tables, although the page of a resource never reads its
\* rules again but shows the list a change closed over
\* (access-rules-table.tsx 96-111, ResourceDetailPage.tsx 93-96).  Only of a
\* rule whose DELETE or COMMIT failed, which the handler answers with ok,
\* may it be wrong (ui_access_rules.go 104 and 140).
PageInStep ==
    (Calm /\ flights = {} /\ shown.found) =>
        IF page.name = "list" THEN shown = ResourcesView
        ELSE page.res \in Present /\ shown.items \ hist.swallowed = RulesOf(page.res) \ hist.swallowed

\* The counts next to the rules are those of the rules shown once all
\* answers are in, unless two loads of counts crossed: the later list's
\* answer may come first and the earlier one's replace it
\* (access-rules-table.tsx 63-84).
CountsInStep ==
    (~hist.overlap /\ ~hist.failed /\ flights = {} /\ page.name = "detail" /\ shown.found) => counts = shown.items

\* What the page shows at rest, rules and counts alike, is what the tables
\* hold, as far as the controller tells.
PageIsTrue == PageInStep /\ CountsInStep

\* No rule names a resource that is gone, although the deletion of a
\* resource is three statements without a transaction and may stop between
\* them (ui_resources.go 229-241).
NoOrphanRules == Alone => \A x \in Rules : rules[x] \in Resources => rules[x] \in Present

\* The tables keep their shape and their references.
TablesOK == TypeOK /\ NoOrphanRules

\* A field of the dialog the user did not touch does not undo a change of
\* that field (edit-resource-modal.tsx 64-93).
UntouchedFieldKept == Calm => ~hist.undone

\* The firewall switch changes the status of its resource: the status it is
\* computed from was not stale (resources-list.tsx 40-46).
ToggleFlips == Calm => ~hist.idle

\* A row or a dialog that is older than the tables changes nothing the
\* administrator did not ask for.
NothingUnasked == UntouchedFieldKept /\ ToggleFlips

\* A button disabled for a request is disabled only while that request is
\* under way: one slot holds the row, other rows' requests overwrite and
\* clear it, errors and a reload of the list too (resources-list.tsx 33-51,
\* access-rules-table.tsx 42, 96-109).
BusyMeansOutstanding == busy # None => \E f \in flights : f.item = busy /\ f.at = "here"

=============================================================================
