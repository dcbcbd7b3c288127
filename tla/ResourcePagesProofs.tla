-------------------------- MODULE ResourcePagesProofs --------------------------
(***************************************************************************)
(* Proofs about ResourcePages for any resources, rules, addresses and      *)
(* bounds.                                                                 *)
(***************************************************************************)
EXTENDS ResourcePages, TLAPS

-----------------------------------------------------------------------------
(* The shape of the state.                                                 *)

Rests == [id : Resources, address : Addresses, fw : FirewallStatus]

\* What the page named name may show.
ViewOK(v, name) ==
    /\ v.found \in BOOLEAN
    /\ name = "list" => v.items \subseteq Rests
    /\ name = "detail" => v.items \subseteq Rules

\* A request is a record with these fields,
Fields(f) ==
    f \in [kind : {f.kind}, item : {f.item}, data : {f.data}, n : {f.n}, kept : BOOLEAN, then : {f.then}, got : {f.got},
           st : {f.st}, at : {f.at}]

\* and what it is about and sends fits its kind.
RequestOK(f) ==
    /\ Fields(f) /\ f.kind \in ResourceCalls \cup RuleCalls \cup Reads
    /\ f.st \in {"sent", "half", "ok", "failed"} /\ f.at \in {"here", "page", "gone"}
    /\ f.st = "half" => f.kind = "deleteResource"
    /\ f.at = "gone" => f.st \in {"sent", "half"}
    /\ f.kind \in ResourceCalls => f.item \in Resources
    /\ f.kind \in {"addResource", "updateResource"} => f.data \in Addresses
    /\ f.kind = "setResourceFirewallStatus" => f.data \in FirewallStatus
    /\ f.kind \in RuleCalls => f.item \in Rules /\ f.then \subseteq Rules
    /\ f.kind = "createAccessRule" => f.data \in Resources

\* Requests whose continuation will run are of the page that is shown.
OfPage(f) ==
    /\ f.at # "gone" => /\ f.kind \in ResourceCalls => page.name = "list"
                        /\ f.kind \in RuleCalls => page.name = "detail"
    /\ f.kind = "counts" => page.name = "detail" /\ f.got.items \subseteq Rules
    /\ f.kind = "load" => ViewOK(f.got, page.name)

PageOK ==
    /\ page.name = "detail" => page.res \in Resources
    /\ ViewOK(shown, page.name)
    /\ modal.kind = "updateResource" => modal.item \in Resources /\ modal.address \in Addresses

Histories == [ops : Nat, other : Nat, overlap : BOOLEAN, failed : BOOLEAN, undone : BOOLEAN, idle : BOOLEAN,
              swallowed : SUBSET Rules]

Shapes ==
    /\ TypeOK /\ PageOK
    /\ \A f \in flights : RequestOK(f) /\ OfPage(f)
    /\ hist \in Histories

-----------------------------------------------------------------------------
\* The row that is disabled is that of a switch or a deletion under way here.
Holds(f) == f.item = busy /\ f.at = "here" /\ f.kind \in {"setResourceFirewallStatus", "deleteAccessRule"}
BusyInv == busy # None => \E f \in flights : Holds(f)

-----------------------------------------------------------------------------
(* An administrator who waits for answers.                                 *)

\* has one request outstanding at most, of the page that is shown,
OneRequest == ~hist.overlap => /\ \A f, g \in flights : f = g
                               /\ \A f \in flights : f.at = "here" /\ (f.st = "failed" => hist.failed)

\* works on a resource that exists, and deletes one that has no rules left,
AloneReq(f) ==
    /\ (f.kind = "load" /\ f.got.found /\ page.name = "detail") => page.res \in Present
    /\ f.kind \in RuleCalls => page.res \in Present /\ (f.kind = "createAccessRule" => f.data = page.res)
    /\ f.st = "half" => \A x \in Rules : rules[x] # f.item
AloneInv ==
    Alone => /\ (page.name = "detail" /\ shown.found) => page.res \in Present
             /\ \A f \in flights : AloneReq(f)

\* and sees the counts of the rules shown.
CountsTrue ==
    (~hist.overlap /\ ~hist.failed /\ page.name = "detail") =>
        /\ (flights = {} /\ shown.found) => counts = shown.items
        /\ \A f \in flights : f.kind = "counts" => shown.found /\ f.got.items = shown.items

\* If nothing fails, what the page shows is what the tables hold, or will be
\* when the answer that is under way is in: a load has read them, and a change
\* of rules will show their next state, up to errors that were swallowed.
Future(f) == IF f.kind = "createAccessRule" THEN RulesOf(page.res) \cup {f.item} ELSE RulesOf(page.res) \ {f.item}
\* Two sets of rules agree on those of which no error was swallowed.
Agree(S, T) == S \ hist.swallowed = T \ hist.swallowed
Reads1(f) ==
    /\ f.st # "failed"
    /\ f.kind = "load" /\ f.st = "ok" => f.got = View(page)
    /\ f.kind = "counts" => page.res \in Present /\ Agree(shown.items, RulesOf(page.res))
    /\ f.kind \in RuleCalls => Agree(f.then, IF f.st = "sent" THEN Future(f) ELSE RulesOf(page.res))
TrueInv == Calm => PageInStep /\ \A f \in flights : Reads1(f)

\* The dialog and the switch start from what the tables hold.
Matches(r, a) == resources[r].st = "live" => a = resources[r].address
Change(f) ==
    f.st = "sent" =>
        /\ f.kind = "updateResource" /\ f.kept => Matches(f.item, f.data)
        /\ f.kind = "setResourceFirewallStatus" =>
              (resources[f.item].st = "live" => f.data # resources[f.item].fw)
ChangeInv ==
    Calm => /\ ~hist.undone /\ ~hist.idle
            /\ \A f \in flights : Change(f)
            /\ modal.kind = "updateResource" => /\ \A f \in flights : f.kind = "updateResource"
                                                /\ flights = {} => Matches(modal.item, modal.address)

IInv == Shapes /\ BusyInv /\ OneRequest /\ NoOrphanRules /\ AloneInv /\ CountsTrue /\ TrueInv /\ ChangeInv

-----------------------------------------------------------------------------
(* Requests.                                                               *)

\* g is request f but for the fields about its progress.
Same(f, g) ==
    g.kind = f.kind /\ g.item = f.item /\ g.data = f.data /\ g.n = f.n /\ g.kept = f.kept /\ g.then = f.then

LEMMA ServedFields ==
    ASSUME NEW f, Fields(f), NEW st, NEW got
    PROVE  /\ Fields([f EXCEPT !.st = st, !.got = got]) /\ Same(f, [f EXCEPT !.st = st, !.got = got])
           /\ [f EXCEPT !.st = st, !.got = got].st = st /\ [f EXCEPT !.st = st, !.got = got].got = got
           /\ [f EXCEPT !.st = st, !.got = got].at = f.at
           /\ [f EXCEPT !.st = st] = [f EXCEPT !.st = st, !.got = f.got]
  BY DEF Fields, Same

LEMMA MovedFields ==
    ASSUME NEW f, Fields(f), NEW at
    PROVE  /\ Fields([f EXCEPT !.at = at]) /\ Same(f, [f EXCEPT !.at = at])
           /\ [f EXCEPT !.at = at].at = at /\ [f EXCEPT !.at = at].st = f.st /\ [f EXCEPT !.at = at].got = f.got
  BY DEF Fields, Same

LEMMA ServedRequest ==
    ASSUME NEW f, RequestOK(f), NEW st \in {"sent", "half", "ok", "failed"}, NEW got,
           st = "half" => f.kind = "deleteResource", f.at = "gone" => st \in {"sent", "half"}
    PROVE  RequestOK([f EXCEPT !.st = st, !.got = got])
<1>1. PICK g : g = [f EXCEPT !.st = st, !.got = got]
  OBVIOUS
<1>2. Fields(g) /\ Same(f, g) /\ g.st = st /\ g.at = f.at
  <2>1. Fields(f)
    BY DEF RequestOK
  <2>2. QED
    BY <1>1, <2>1 DEF Fields, Same
<1>3. RequestOK(g)
  BY <1>2 DEF RequestOK, Same
<1>4. QED
  BY <1>1, <1>3

LEMMA MovedRequest ==
    ASSUME NEW f, RequestOK(f), NEW at \in {"here", "page", "gone"}, at = "gone" => f.st \in {"sent", "half"}
    PROVE  RequestOK([f EXCEPT !.at = at])
<1>1. PICK g : g = [f EXCEPT !.at = at]
  OBVIOUS
<1>2. Fields(g) /\ Same(f, g) /\ g.st = f.st /\ g.at = at
  BY <1>1, MovedFields DEF RequestOK
<1>3. RequestOK(g)
  BY <1>2 DEF RequestOK, Same
<1>4. QED
  BY <1>1, <1>3

\* A step of the history.
LEMMA HistoryFacts ==
    ASSUME hist \in Histories
    PROVE  /\ Acts => hist' \in Histories /\ hist'.other = hist.other /\ hist'.failed = hist.failed
                      /\ hist'.undone = hist.undone /\ hist'.idle = hist.idle /\ hist'.swallowed = hist.swallowed
                      /\ (~hist'.overlap => ~hist.overlap /\ flights = {})
           /\ Other => hist' \in Histories /\ hist'.other # 0
                      /\ hist'.overlap = hist.overlap /\ hist'.failed = hist.failed
           /\ \A f : ServeFails(f) \/ LoseAnswer(f) =>
                      hist' \in Histories /\ hist'.failed = TRUE /\ hist'.overlap = hist.overlap /\ hist'.other = hist.other
           /\ \A f : SwallowRule(f) /\ f.item \in Rules =>
                      /\ hist' \in Histories /\ hist'.swallowed = hist.swallowed \cup {f.item}
                      /\ hist'.failed = hist.failed /\ hist'.overlap = hist.overlap /\ hist'.other = hist.other
                      /\ hist'.undone = hist.undone /\ hist'.idle = hist.idle
<1>1. hist.ops + 1 \in Nat /\ hist.other + 1 \in Nat /\ hist.other + 1 # 0
  BY DEF Histories
<1>2. Acts => hist' \in Histories /\ hist'.other = hist.other /\ hist'.failed = hist.failed
              /\ hist'.undone = hist.undone /\ hist'.idle = hist.idle /\ hist'.swallowed = hist.swallowed
  BY <1>1 DEF Acts, Histories
<1>3. Acts => (~hist'.overlap => ~hist.overlap /\ flights = {})
  BY DEF Acts, Histories
<1>4. Other => hist' \in Histories /\ hist'.other # 0
               /\ hist'.overlap = hist.overlap /\ hist'.failed = hist.failed
  BY <1>1 DEF Other, Histories
<1>5. ASSUME NEW f, ServeFails(f) \/ LoseAnswer(f)
      PROVE  hist' \in Histories /\ hist'.failed = TRUE /\ hist'.overlap = hist.overlap /\ hist'.other = hist.other
  BY <1>5 DEF ServeFails, LoseAnswer, Histories
<1>6. ASSUME NEW f, SwallowRule(f), f.item \in Rules
      PROVE  /\ hist' \in Histories /\ hist'.swallowed = hist.swallowed \cup {f.item}
             /\ hist'.failed = hist.failed /\ hist'.overlap = hist.overlap /\ hist'.other = hist.other
             /\ hist'.undone = hist.undone /\ hist'.idle = hist.idle
  BY <1>6 DEF SwallowRule, Histories
<1>7. QED
  BY <1>2, <1>3, <1>4, <1>5, <1>6

\* What Serve does to the request it serves: the handler and its outcome.
Handled(f, st) ==
    \/ st = "ok" /\ f.st = "sent" /\ (ServeRead(f) \/ ServeResource(f) \/ ServeRule(f) \/ SwallowRule(f))
    \/ st = "half" /\ f.st = "sent" /\ ServeDeleteResource(f)
    \/ st = "ok" /\ f.st = "half" /\ ServeDeleteResource(f)
    \/ st = "failed" /\ (ServeFails(f) \/ LoseAnswer(f))

Progress(f, st, got) ==
    /\ Handled(f, st)
    /\ st = "half" => f.kind = "deleteResource" /\ f.st = "sent"
    /\ got = IF f.kind = "load" /\ st = "ok" THEN View(page) ELSE f.got
    /\ st = "failed" => hist'.failed = TRUE
    /\ IF f.at = "gone" /\ st # "half" THEN flights' = flights \ {f}
       ELSE flights' = (flights \ {f}) \cup {[f EXCEPT !.st = st, !.got = got]}

LEMMA ServeForms ==
    ASSUME Shapes, NEW f \in flights, Serve(f)
    PROVE  /\ UNCHANGED tab
           /\ \E st \in {"half", "ok", "failed"}, got \in {f.got, View(page)} : Progress(f, st, got)
<1>0. RequestOK(f)
  BY DEF Shapes
<1>1. UNCHANGED tab
  BY DEF Serve
<1>2. [f EXCEPT !.st = "ok"] = [f EXCEPT !.st = "ok", !.got = f.got]
      /\ [f EXCEPT !.st = "half"] = [f EXCEPT !.st = "half", !.got = f.got]
      /\ [f EXCEPT !.st = "failed"] = [f EXCEPT !.st = "failed", !.got = f.got]
  BY <1>0, ServedFields DEF RequestOK
<1>3. ASSUME Ok(f), f.kind # "load", Handled(f, "ok") PROVE Progress(f, "ok", f.got)
  BY <1>2, <1>3 DEF Ok, Served, Progress
<1>4. CASE ServeRead(f)
  <2>1. CASE f.kind = "load"
    BY <1>1, <1>4, <2>1 DEF ServeRead, Sent, Served, Progress, Handled
  <2>2. CASE f.kind # "load"
    BY <1>1, <1>2, <1>4, <2>2 DEF ServeRead, Sent, Served, Progress, Handled
  <2>3. QED
    BY <2>1, <2>2
<1>5. CASE ServeResource(f)
  BY <1>1, <1>3, <1>5 DEF ServeResource, Sent, Handled
<1>6. CASE ServeDeleteResource(f)
  <2>1. CASE f.st = "sent"
    <3>1. Progress(f, "half", f.got)
      BY <1>2, <1>6, <2>1 DEF ServeDeleteResource, Progress, Handled
    <3>2. QED
      BY <1>1, <2>1, <3>1
  <2>2. CASE f.st = "half"
    BY <1>1, <1>3, <1>6, <2>2 DEF ServeDeleteResource, Handled
  <2>3. QED
    BY <1>6, <2>1, <2>2 DEF ServeDeleteResource, Handled
<1>7. CASE ServeRule(f) \/ SwallowRule(f)
  BY <1>1, <1>3, <1>7 DEF ServeRule, SwallowRule, Sent, RuleCalls, Handled
<1>8. CASE ServeFails(f)
  <2>0. hist'.failed = TRUE
    BY <1>8, HistoryFacts DEF Shapes
  <2>1. Progress(f, "failed", f.got)
    BY <1>2, <1>8, <2>0 DEF ServeFails, Served, Progress, Handled
  <2>2. QED
    BY <1>1, <2>1
<1>9. CASE LoseAnswer(f)
  <2>0. hist'.failed = TRUE /\ f.at # "gone"
    BY <1>0, <1>9, HistoryFacts DEF Shapes, LoseAnswer, RequestOK
  <2>1. Progress(f, "failed", f.got)
    BY <1>2, <1>9, <2>0 DEF LoseAnswer, Progress, Handled
  <2>2. QED
    BY <1>1, <2>1
<1>10. QED
  BY <1>4, <1>5, <1>6, <1>7, <1>8, <1>9 DEF Serve

-----------------------------------------------------------------------------
(* The shape of the state is kept.                                         *)

LEMMA ViewFacts ==
    ASSUME TypeOK, page.name = "detail" => page.res \in Resources
    PROVE  ViewOK(View(page), page.name) /\ (page.name = "detail" => View(page) = ResourceView(page.res))
<1>1. ViewOK(ResourcesView, "list")
  BY DEF ViewOK, ResourcesView, Present, Rests, TypeOK
<1>2. ASSUME NEW r PROVE ViewOK(ResourceView(r), "detail")
  BY DEF ViewOK, ResourceView, RulesOf, Nothing
<1>3. QED
  BY <1>1, <1>2 DEF View, TypeOK

LEMMA NothingOK == \A name : ViewOK(Nothing, name)
  BY DEF ViewOK, Nothing

LEMMA ShapesSend ==
    ASSUME Shapes, NEW f, NEW m, NEW b, Send(f, m, b), RequestOK(f), OfPage(f), b \in Resources \cup Rules \cup {None},
           m.kind = "updateResource" => m.item \in Resources /\ m.address \in Addresses
    PROVE  Shapes'
<1>1. hist' \in Histories
  BY HistoryFacts DEF Send, Shapes
<1>2. \A g \in flights' : RequestOK(g) /\ OfPage(g)
  BY DEF Send, Shapes
<1>3. UNCHANGED << page, loading, shown, counts, resources, rules >> /\ modal' = m /\ busy' = b
  BY DEF Send, server
<1>4. \A g \in flights' : RequestOK(g) /\ OfPage(g)'
  BY <1>2, <1>3 DEF OfPage
<1>5. QED
  BY <1>1, <1>3, <1>4 DEF Shapes, TypeOK, PageOK

LEMMA ShapesVisit ==
    ASSUME Shapes, NEW p, Visit(p), p.name \in {"list", "detail"}, p.res \in Resources \cup {None},
           p.name = "detail" => p.res \in Resources
    PROVE  Shapes'
<1>1. hist' \in Histories
  BY HistoryFacts DEF Visit, Shapes
<1>2. page' = p /\ loading' = TRUE /\ shown' = Nothing /\ counts' = {} /\ modal' = Closed /\ busy' = None
      /\ UNCHANGED << resources, rules >>
  BY DEF Visit, server
<1>3. ASSUME NEW g \in flights' PROVE RequestOK(g) /\ OfPage(g)'
  <2>1. CASE g = Call("load", None, None, 0)
    <3>1. /\ Fields(g) /\ g.kind = "load" /\ g.got = Nothing /\ g.st = "sent" /\ g.at = "here"
      BY <2>1 DEF Fields, Call
    <3>2. QED
      BY <3>1, <1>2, NothingOK DEF RequestOK, OfPage, Reads, ResourceCalls, RuleCalls
  <2>2. ASSUME NEW f \in flights, f.kind \notin Reads, f.st \in {"sent", "half"}, g = [f EXCEPT !.at = "gone"]
        PROVE  RequestOK(g) /\ OfPage(g)'
    <3>1. RequestOK(f) /\ Fields(f)
      BY <2>2 DEF Shapes, RequestOK
    <3>2. RequestOK(g)
      BY <2>2, <3>1, MovedRequest
    <3>3. g.kind = f.kind /\ g.at = "gone"
      BY <2>2, <3>1, MovedFields DEF Same
    <3>4. QED
      BY <2>2, <3>2, <3>3 DEF OfPage, Reads
  <2>3. QED
    BY <1>3, <2>1, <2>2 DEF Visit
<1>4. QED
  BY <1>1, <1>2, <1>3, NothingOK DEF Shapes, TypeOK, PageOK, Closed, None

LEMMA TablesServe ==
    ASSUME Shapes, NEW f \in flights, Serve(f)
    PROVE  /\ resources' \in [Resources -> [st : {"unborn", "live", "deleted"}, address : Addresses, fw : FirewallStatus]]
           /\ rules' \in [Rules -> Resources \cup {"unborn", "deleted"}]
           /\ hist' \in Histories
<1>1. RequestOK(f) /\ TypeOK /\ hist \in Histories
  BY DEF Shapes
<1>2. CASE ServeRead(f)
  BY <1>1, <1>2 DEF ServeRead, server, TypeOK
<1>3. CASE ServeResource(f)
  <2>1. f.item \in Resources /\ f.kind \in {"addResource", "updateResource", "setResourceFirewallStatus"} /\ rules' = rules
    BY <1>1, <1>3 DEF ServeResource, Sent, RequestOK, ResourceCalls
  <2>2. CASE f.kind = "addResource"
    BY <1>1, <1>3, <2>1, <2>2 DEF ServeResource, TypeOK, RequestOK, FirewallStatus
  <2>3. CASE f.kind = "updateResource"
    <3>1. hist' \in Histories
      BY <1>1, <1>3, <2>3 DEF ServeResource, Histories
    <3>2. QED
      BY <1>1, <1>3, <2>1, <2>3, <3>1 DEF ServeResource, TypeOK, RequestOK
  <2>4. CASE f.kind = "setResourceFirewallStatus"
    <3>1. hist' \in Histories
      BY <1>1, <1>3, <2>4 DEF ServeResource, Histories
    <3>2. QED
      BY <1>1, <1>3, <2>1, <2>4, <3>1 DEF ServeResource, TypeOK, RequestOK
  <2>5. QED
    BY <2>1, <2>2, <2>3, <2>4
<1>4. CASE ServeDeleteResource(f)
  <2>1. f.item \in Resources
    BY <1>1, <1>4 DEF ServeDeleteResource, RequestOK, ResourceCalls
  <2>2. QED
    BY <1>1, <1>4, <2>1 DEF ServeDeleteResource, TypeOK
<1>5. CASE ServeRule(f)
  <2>1. f.item \in Rules /\ (f.kind = "createAccessRule" => f.data \in Resources)
    BY <1>1, <1>5 DEF ServeRule, Sent, RequestOK
  <2>2. QED
    BY <1>1, <1>5, <2>1 DEF ServeRule, TypeOK
<1>6. CASE SwallowRule(f)
  <2>1. f.item \in Rules
    BY <1>1, <1>6 DEF SwallowRule, Sent, RequestOK
  <2>2. QED
    BY <1>1, <1>6, <2>1, HistoryFacts DEF SwallowRule, TypeOK
<1>7. CASE ServeFails(f) \/ LoseAnswer(f)
  BY <1>1, <1>7, HistoryFacts DEF ServeFails, LoseAnswer, server, TypeOK
<1>8. QED
  BY <1>2, <1>3, <1>4, <1>5, <1>6, <1>7 DEF Serve

LEMMA ShapesServe == ASSUME Shapes, NEW f \in flights, Serve(f) PROVE Shapes'
<1>1. UNCHANGED << page, loading, shown, counts, modal, busy >>
  BY ServeForms DEF tab
<1>2. PICK st \in {"half", "ok", "failed"}, got \in {f.got, View(page)} : Progress(f, st, got)
  BY ServeForms
<1>3. RequestOK(f) /\ OfPage(f) /\ Fields(f)
  BY DEF Shapes, RequestOK
<1>4. PICK g : g = [f EXCEPT !.st = st, !.got = got]
  OBVIOUS
<1>5. Same(f, g) /\ g.st = st /\ g.got = got /\ g.at = f.at
  BY <1>3, <1>4 DEF Fields, Same
<1>6. CASE f.at = "gone" /\ st # "half"
  <2>1. flights' \subseteq flights
    BY <1>2, <1>6 DEF Progress
  <2>2. \A x \in flights' : RequestOK(x) /\ OfPage(x)'
    BY <1>1, <2>1 DEF Shapes, OfPage
  <2>3. QED
    BY <1>1, <2>2, TablesServe DEF Shapes, TypeOK, PageOK
<1>7. CASE ~(f.at = "gone" /\ st # "half")
  <2>1. flights' = (flights \ {f}) \cup {g}
    BY <1>2, <1>4, <1>7 DEF Progress
  <2>2. st = "half" => f.kind = "deleteResource"
    BY <1>2 DEF Progress
  <2>3. RequestOK(g)
    BY <1>3, <1>4, <1>7, <2>2, ServedRequest
  <2>4. OfPage(g)
    <3>1. ViewOK(View(page), page.name)
      BY ViewFacts DEF Shapes, PageOK
    <3>2. got = f.got \/ (f.kind = "load" /\ got = View(page))
      BY <1>2 DEF Progress
    <3>3. QED
      BY <1>3, <1>5, <3>1, <3>2 DEF OfPage, Same
  <2>5. \A x \in flights' : RequestOK(x) /\ OfPage(x)'
    BY <1>1, <2>1, <2>3, <2>4 DEF Shapes, OfPage
  <2>6. QED
    BY <1>1, <2>5, TablesServe DEF Shapes, TypeOK, PageOK
<1>8. QED
  BY <1>6, <1>7

\* The request of the identity counts of a list of rules.
CountsCall(v) == [Request("counts", None, None) EXCEPT !.got = v]

LEMMA CountsRequested ==
    ASSUME NEW v, NEW f, f = CountsCall(v)
    PROVE  Fields(f) /\ f.kind = "counts" /\ f.got = v /\ f.st = "sent" /\ f.at = "here"
<1>1. PICK g : g = Request("counts", None, None)
  OBVIOUS
<1>2. Fields(g) /\ g.kind = "counts" /\ g.st = "sent" /\ g.at = "here"
  <2>1. PICK n : g = Call("counts", None, None, n)
    BY <1>1 DEF Request
  <2>2. QED
    BY <2>1 DEF Fields, Call
<1>3. f = [g EXCEPT !.got = v]
  BY <1>1 DEF CountsCall
<1>4. QED
  BY <1>2, <1>3 DEF Fields

\* The continuations that show rules ask for their counts.
LEMMA ShownRules ==
    ASSUME Shapes, page.name = "detail", page' = page, NEW f, NEW items \in SUBSET Rules, ShowRules(f, items)
    PROVE  /\ shown'.found = TRUE /\ shown'.items = items /\ ViewOK(shown', "detail")
           /\ \A x \in flights' : RequestOK(x) /\ OfPage(x)'
           /\ \E g : /\ flights' = (flights \ {f}) \cup {g} /\ g.kind = "counts" /\ g.got = shown'
                    /\ g.st = "sent" /\ g.at = "here"
<1>0. PICK g : g = [Request("counts", None, None) EXCEPT !.got = [found |-> TRUE, items |-> items]]
  OBVIOUS
<1>a. PICK v : v = [found |-> TRUE, items |-> items]
  OBVIOUS
<1>b. g = CountsCall(v)
  BY <1>0, <1>a DEF CountsCall
<1>c. Fields(g) /\ g.kind = "counts" /\ g.got = v /\ g.st = "sent" /\ g.at = "here"
  BY ONLY <1>b, CountsRequested, Zenon
<1>1. Fields(g) /\ g.kind = "counts" /\ g.got = [found |-> TRUE, items |-> items] /\ g.st = "sent" /\ g.at = "here"
  BY <1>a, <1>c
<1>2. flights' = (flights \ {f}) \cup {g} /\ shown' = g.got
  BY <1>0, <1>1 DEF ShowRules
<1>3. shown'.found = TRUE /\ shown'.items = items /\ ViewOK(shown', "detail")
  BY <1>1, <1>2 DEF ViewOK
<1>4. RequestOK(g)
  BY <1>1 DEF RequestOK, Reads, ResourceCalls, RuleCalls
<1>5. OfPage(g)
  BY <1>1, <1>2, <1>3 DEF OfPage, ResourceCalls, RuleCalls
<1>6. \A x \in flights' : RequestOK(x) /\ OfPage(x)'
  BY <1>2, <1>4, <1>5 DEF Shapes, OfPage
<1>7. QED
  BY <1>1, <1>2, <1>3, <1>6

LEMMA ShapesLoad == ASSUME Shapes, NEW f \in flights, LoadAnswer(f), UNCHANGED hist, UNCHANGED server PROVE Shapes'
<1>1. f.kind = "load" /\ loading' = FALSE /\ UNCHANGED << page, counts, modal, busy, hist, resources, rules >>
      /\ ViewOK(f.got, page.name)
  BY DEF LoadAnswer, Answered, server, Shapes, OfPage
<1>2. CASE page.name = "detail" /\ f.st = "ok" /\ f.got.found
  <2>1. f.got.items \in SUBSET Rules /\ ShowRules(f, f.got.items)
    BY <1>1, <1>2 DEF LoadAnswer, ViewOK
  <2>2. ViewOK(shown', "detail") /\ \A x \in flights' : RequestOK(x) /\ OfPage(x)'
    BY <1>1, <1>2, <2>1, ShownRules
  <2>3. QED
    BY <1>1, <1>2, <2>2 DEF Shapes, TypeOK, PageOK
<1>3. CASE ~(page.name = "detail" /\ f.st = "ok" /\ f.got.found)
  <2>1. flights' = flights \ {f} /\ shown' \in {shown, f.got}
    BY <1>3 DEF LoadAnswer
  <2>2. ViewOK(shown', page.name)
    BY <1>1, <2>1 DEF Shapes, PageOK
  <2>3. \A x \in flights' : RequestOK(x) /\ OfPage(x)'
    BY <1>1, <2>1 DEF Shapes, OfPage
  <2>4. QED
    BY <1>1, <2>2, <2>3 DEF Shapes, TypeOK, PageOK
<1>4. QED
  BY <1>2, <1>3

LEMMA ShapesCounts == ASSUME Shapes, NEW f \in flights, CountsAnswer(f), UNCHANGED hist, UNCHANGED server PROVE Shapes'
<1>1. flights' = flights \ {f} /\ UNCHANGED << page, loading, shown, modal, busy, hist, resources, rules >>
      /\ f.kind = "counts" /\ counts' \in {counts, f.got.items}
  BY DEF CountsAnswer, Answered, server
<1>2. counts' \subseteq Rules
  BY <1>1 DEF Shapes, OfPage, TypeOK
<1>3. \A x \in flights' : RequestOK(x) /\ OfPage(x)'
  BY <1>1 DEF Shapes, OfPage
<1>4. QED
  BY <1>1, <1>2, <1>3 DEF Shapes, TypeOK, PageOK

\* What an answer to a change of the list leaves.
LEMMA ListForms ==
    ASSUME Shapes, NEW f \in flights, ListAnswer(f)
    PROVE  /\ page.name = "list" /\ UNCHANGED << page, shown, counts >> /\ f.kind \in ResourceCalls
           /\ \/ /\ f.st = "ok" /\ loading' = TRUE /\ busy' = None /\ modal' = IF modal.kind = f.kind THEN Closed ELSE modal
                 /\ \E g : /\ Fields(g) /\ g.kind = "load" /\ g.got = Nothing /\ g.st = "sent" /\ g.at = "here"
                          /\ flights' = { [x EXCEPT !.at = IF @ = "here" THEN "page" ELSE @] : x \in flights \ {f} } \cup {g}
              \/ /\ f.st = "failed" /\ flights' = flights \ {f} /\ UNCHANGED << loading, modal >>
                 /\ busy' = IF f.kind = "setResourceFirewallStatus" /\ f.at = "here" THEN None ELSE busy
<1>1. f.kind \in ResourceCalls /\ UNCHANGED << page, shown, counts >> /\ f.st \in {"ok", "failed"}
  BY DEF ListAnswer, Answered
<1>2. page.name = "list"
  BY <1>1 DEF Shapes, RequestOK, OfPage
<1>0. PICK g : g = Request("load", None, None)
  OBVIOUS
<1>3. Fields(g) /\ g.kind = "load" /\ g.got = Nothing /\ g.st = "sent" /\ g.at = "here"
  <2>1. PICK n : g = Call("load", None, None, n)
    BY <1>0 DEF Request
  <2>2. QED
    BY <2>1 DEF Fields, Call
<1>4. CASE f.st = "ok"
  <2>1. /\ loading' = TRUE /\ busy' = None /\ modal' = IF modal.kind = f.kind THEN Closed ELSE modal
        /\ flights' = { [x EXCEPT !.at = IF @ = "here" THEN "page" ELSE @] : x \in flights \ {f} } \cup {g}
    BY <1>0, <1>4 DEF ListAnswer
  <2>2. QED
    BY <1>1, <1>2, <1>3, <1>4, <2>1
<1>5. CASE f.st = "failed"
  BY <1>1, <1>2, <1>5 DEF ListAnswer
<1>6. QED
  BY <1>1, <1>4, <1>5

LEMMA ShapesList == ASSUME Shapes, NEW f \in flights, ListAnswer(f), UNCHANGED hist, UNCHANGED server PROVE Shapes'
<1>1. page.name = "list" /\ UNCHANGED << page, shown, counts, hist, resources, rules >>
  BY ListForms DEF server
<1>2. CASE f.st = "ok"
  <2>1. loading' = TRUE /\ busy' = None /\ modal' \in {Closed, modal}
    BY <1>2, ListForms
  <2>2. PICK g : /\ Fields(g) /\ g.kind = "load" /\ g.got = Nothing /\ g.st = "sent" /\ g.at = "here"
                 /\ flights' = { [x EXCEPT !.at = IF @ = "here" THEN "page" ELSE @] : x \in flights \ {f} } \cup {g}
    BY <1>2, ListForms
  <2>3. RequestOK(g) /\ OfPage(g)
    BY <1>1, <2>2, NothingOK DEF RequestOK, OfPage, Reads, ResourceCalls, RuleCalls
  <2>4. ASSUME NEW x \in flights PROVE RequestOK([x EXCEPT !.at = IF @ = "here" THEN "page" ELSE @])
                                       /\ OfPage([x EXCEPT !.at = IF @ = "here" THEN "page" ELSE @])
    <3>1. PICK at : at = IF x.at = "here" THEN "page" ELSE x.at
      OBVIOUS
    <3>2. RequestOK(x) /\ OfPage(x) /\ Fields(x) /\ at \in {"here", "page", "gone"} /\ (at = "gone" <=> x.at = "gone")
      BY <2>4, <3>1 DEF Shapes, RequestOK
    <3>3. [x EXCEPT !.at = IF @ = "here" THEN "page" ELSE @] = [x EXCEPT !.at = at]
      BY <3>1
    <3>4. at = "gone" => x.st \in {"sent", "half"}
      BY <3>2 DEF RequestOK
    <3>5. RequestOK([x EXCEPT !.at = at])
      BY <3>2, <3>4, MovedRequest
    <3>6. PICK y : y = [x EXCEPT !.at = at]
      OBVIOUS
    <3>7. y.kind = x.kind /\ y.at = at /\ y.got = x.got
      BY <3>2, <3>6 DEF Fields
    <3>8. OfPage(y)
      BY <3>2, <3>7 DEF OfPage
    <3>9. QED
      BY <3>3, <3>5, <3>6, <3>8
  <2>5. \A x \in flights' : RequestOK(x) /\ OfPage(x)
    BY <2>2, <2>3, <2>4
  <2>6. \A x \in flights' : RequestOK(x) /\ OfPage(x)'
    BY <1>1, <2>5 DEF OfPage
  <2>7. QED
    BY <1>1, <2>1, <2>6 DEF Shapes, TypeOK, PageOK, Closed, None
<1>3. CASE f.st = "failed"
  <2>1. flights' = flights \ {f} /\ UNCHANGED << loading, modal >> /\ busy' \in {None, busy}
    BY <1>3, ListForms
  <2>2. \A x \in flights' : RequestOK(x) /\ OfPage(x)'
    BY <1>1, <2>1 DEF Shapes, OfPage
  <2>3. QED
    BY <1>1, <2>1, <2>2 DEF Shapes, TypeOK, PageOK
<1>4. QED
  BY <1>2, <1>3, ListForms

LEMMA ShapesRule == ASSUME Shapes, NEW f \in flights, RuleAnswer(f), UNCHANGED hist, UNCHANGED server PROVE Shapes'
<1>1. f.kind \in RuleCalls /\ UNCHANGED << page, loading, counts, hist, resources, rules >>
      /\ busy' \in {None, busy} /\ modal' \in {Closed, modal} /\ f.st \in {"ok", "failed"}
  BY DEF RuleAnswer, Answered, server
<1>2. page.name = "detail" /\ f.then \in SUBSET Rules
  BY <1>1 DEF Shapes, OfPage, RequestOK
<1>3. ViewOK(shown', "detail") /\ \A x \in flights' : RequestOK(x) /\ OfPage(x)'
  <2>1. CASE f.st = "ok"
    BY <1>1, <1>2, <2>1, ShownRules DEF RuleAnswer
  <2>2. CASE f.st # "ok"
    <3>1. flights' = flights \ {f} /\ shown' = shown
      BY <2>2 DEF RuleAnswer
    <3>2. QED
      BY <1>1, <1>2, <3>1 DEF Shapes, OfPage, PageOK
  <2>3. QED
    BY <2>1, <2>2
<1>4. QED
  BY <1>1, <1>2, <1>3 DEF Shapes, TypeOK, PageOK, Closed, None

-----------------------------------------------------------------------------
(* What the user does.                                                     *)

\* What the pages send, with dialog m open and row b disabled.
Sendable(f, m, b) ==
    /\ f.st = "sent" /\ f.at = "here" /\ f.kind \notin Reads /\ shown.found
    /\ b = busy \/ (b = f.item /\ f.kind \in {"setResourceFirewallStatus", "deleteAccessRule"})
    /\ m.kind = "updateResource" => m = modal /\ f.kind = "updateResource"
    /\ f.kind = "updateResource" => modal.kind = "updateResource" /\ f.item = modal.item /\ (f.kept => f.data = modal.address)
    /\ f.kind = "setResourceFirewallStatus" => \E x \in shown.items : x.id = f.item /\ f.data # x.fw
    /\ f.kind = "createAccessRule" => f.data = page.res /\ f.then = shown.items \cup {f.item}
    /\ f.kind = "deleteAccessRule" => f.then = shown.items \ {f.item}

Sends == \E f, m, b : Send(f, m, b) /\ RequestOK(f) /\ OfPage(f) /\ Sendable(f, m, b)

Visits == \E p : /\ Visit(p) /\ p.name \in {"list", "detail"} /\ p.res \in Resources \cup {None}
                 /\ p.name = "detail" => p.res \in Resources

LEMMA SendAdd == ASSUME Shapes, NEW r \in Resources, NEW a \in Addresses, AddResource(r, a) PROVE Sends
<1>1. PICK f : f = Request("addResource", r, a)
  OBVIOUS
<1>2. PICK n : f = Call("addResource", r, a, n)
  BY <1>1 DEF Request
<1>3. /\ Fields(f) /\ f.kind = "addResource" /\ f.item = r /\ f.data = a /\ f.st = "sent" /\ f.at = "here"
  BY <1>2 DEF Fields, Call
<1>4. PICK m : m = [Closed EXCEPT !.kind = "addResource"]
  OBVIOUS
<1>5. Send(f, m, busy) /\ page.name = "list" /\ shown.found
  BY <1>1, <1>4 DEF AddResource, On
<1>6. m.kind = "addResource"
  BY <1>4 DEF Closed
<1>7. RequestOK(f) /\ OfPage(f)
  BY <1>3, <1>5 DEF RequestOK, OfPage, ResourceCalls, RuleCalls, Reads
<1>8. Sendable(f, m, busy)
  BY <1>3, <1>5, <1>6 DEF Sendable, Reads
<1>9. QED
  BY <1>5, <1>7, <1>8 DEF Sends

LEMMA SendUpdate == ASSUME Shapes, NEW a \in Addresses, UpdateResource(a) PROVE Sends
<1>0. page.name = "list" /\ shown.found /\ modal.kind = "updateResource" /\ modal.item \in Resources
  BY DEF UpdateResource, On, Shapes, PageOK
<1>1. PICK h : h = Request("updateResource", modal.item, a)
  OBVIOUS
<1>2. PICK n : h = Call("updateResource", modal.item, a, n)
  BY <1>1 DEF Request
<1>3. PICK kept \in BOOLEAN : kept = (a = modal.address)
  OBVIOUS
<1>4. PICK f : f = [h EXCEPT !.kept = kept]
  OBVIOUS
<1>5. Send(f, modal, busy)
  BY <1>1, <1>3, <1>4 DEF UpdateResource
<1>6. /\ Fields(f) /\ f.kind = "updateResource" /\ f.item = modal.item /\ f.data = a /\ f.st = "sent" /\ f.at = "here"
      /\ f.kept = kept
  BY <1>2, <1>4 DEF Fields, Call
<1>7. RequestOK(f) /\ OfPage(f)
  BY <1>0, <1>6 DEF RequestOK, OfPage, ResourceCalls, RuleCalls, Reads
<1>8. Sendable(f, modal, busy)
  BY <1>0, <1>3, <1>6 DEF Sendable, Reads
<1>9. QED
  BY <1>5, <1>7, <1>8 DEF Sends

LEMMA SendDelete == ASSUME Shapes, NEW r \in Resources, DeleteResource(r) PROVE Sends
<1>0. page.name = "list" /\ shown.found /\ modal.kind = None
  BY DEF DeleteResource, On, Idle
<1>1. PICK f : f = Request("deleteResource", r, None)
  OBVIOUS
<1>2. PICK n : f = Call("deleteResource", r, None, n)
  BY <1>1 DEF Request
<1>3. /\ Fields(f) /\ f.kind = "deleteResource" /\ f.item = r /\ f.st = "sent" /\ f.at = "here"
  BY <1>2 DEF Fields, Call
<1>5. Send(f, modal, busy)
  BY <1>1 DEF DeleteResource
<1>7. RequestOK(f) /\ OfPage(f)
  BY <1>0, <1>3 DEF RequestOK, OfPage, ResourceCalls, RuleCalls, Reads
<1>8. Sendable(f, modal, busy)
  BY <1>0, <1>3 DEF Sendable, Reads, None
<1>9. QED
  BY <1>5, <1>7, <1>8 DEF Sends

LEMMA SendToggle == ASSUME Shapes, NEW r \in Resources, FirewallToggle(r) PROVE Sends
<1>0. page.name = "list" /\ shown.found /\ modal.kind = None
  BY DEF FirewallToggle, On, Idle
<1>a. PICK x \in Rows(r) : Send(Request("setResourceFirewallStatus", r, IF x.fw = "protected" THEN "unprotected" ELSE "protected"), modal, r)
  BY DEF FirewallToggle
<1>b. PICK s : s = IF x.fw = "protected" THEN "unprotected" ELSE "protected"
  OBVIOUS
<1>c. s \in FirewallStatus /\ s # x.fw /\ x \in shown.items /\ x.id = r
  BY <1>b DEF FirewallStatus, Rows
<1>1. PICK f : f = Request("setResourceFirewallStatus", r, s)
  OBVIOUS
<1>2. PICK n : f = Call("setResourceFirewallStatus", r, s, n)
  BY <1>1 DEF Request
<1>3. /\ Fields(f) /\ f.kind = "setResourceFirewallStatus" /\ f.item = r /\ f.data = s /\ f.st = "sent" /\ f.at = "here"
  BY <1>2 DEF Fields, Call
<1>5. Send(f, modal, r)
  BY <1>a, <1>b, <1>1
<1>7. RequestOK(f) /\ OfPage(f)
  BY <1>0, <1>3, <1>c DEF RequestOK, OfPage, ResourceCalls, RuleCalls, Reads
<1>8. Sendable(f, modal, r)
  BY <1>0, <1>3, <1>c DEF Sendable, Reads, None
<1>9. QED
  BY <1>5, <1>7, <1>8 DEF Sends

LEMMA SendRule == ASSUME Shapes, NEW x \in Rules, AddAccessRule(x) \/ DeleteRule(x) PROVE Sends
<1>0. page.name = "detail" /\ shown.found /\ modal.kind = None /\ page.res \in Resources /\ shown.items \subseteq Rules
  BY DEF AddAccessRule, DeleteRule, On, Idle, Shapes, PageOK, ViewOK
<1>1. CASE AddAccessRule(x)
  <2>1. PICK h : h = Request("createAccessRule", x, page.res)
    OBVIOUS
  <2>2. PICK n : h = Call("createAccessRule", x, page.res, n)
    BY <2>1 DEF Request
  <2>3. PICK then : then = shown.items \cup {x}
    OBVIOUS
  <2>4. PICK f : f = [h EXCEPT !.then = then]
    OBVIOUS
  <2>5. /\ Fields(f) /\ f.kind = "createAccessRule" /\ f.item = x /\ f.data = page.res /\ f.st = "sent" /\ f.at = "here"
        /\ f.then = then
    BY <2>2, <2>4 DEF Fields, Call
  <2>6. PICK m : m = [Closed EXCEPT !.kind = "createAccessRule"]
    OBVIOUS
  <2>7. Send(f, m, busy)
    BY <1>1, <2>1, <2>3, <2>4, <2>6 DEF AddAccessRule
  <2>8. m.kind = "createAccessRule"
    BY <2>6 DEF Closed
  <2>9. RequestOK(f) /\ OfPage(f)
    BY <1>0, <2>3, <2>5 DEF RequestOK, OfPage, ResourceCalls, RuleCalls, Reads
  <2>10. Sendable(f, m, busy)
    BY <1>0, <2>3, <2>5, <2>8 DEF Sendable, Reads
  <2>11. QED
    BY <2>7, <2>9, <2>10 DEF Sends
<1>2. CASE DeleteRule(x)
  <2>1. PICK h : h = Request("deleteAccessRule", x, None)
    OBVIOUS
  <2>2. PICK n : h = Call("deleteAccessRule", x, None, n)
    BY <2>1 DEF Request
  <2>3. PICK then : then = shown.items \ {x}
    OBVIOUS
  <2>4. PICK f : f = [h EXCEPT !.then = then]
    OBVIOUS
  <2>5. /\ Fields(f) /\ f.kind = "deleteAccessRule" /\ f.item = x /\ f.st = "sent" /\ f.at = "here"
        /\ f.then = then
    BY <2>2, <2>4 DEF Fields, Call
  <2>6. Send(f, modal, x)
    BY <1>2, <2>1, <2>3, <2>4 DEF DeleteRule
  <2>7. RequestOK(f) /\ OfPage(f)
    BY <1>0, <2>3, <2>5 DEF RequestOK, OfPage, ResourceCalls, RuleCalls, Reads
  <2>8. Sendable(f, modal, x)
    BY <1>0, <2>3, <2>5 DEF Sendable, Reads, None
  <2>9. QED
    BY <2>6, <2>7, <2>8 DEF Sends
<1>3. QED
  BY <1>1, <1>2

\* A step is a visit, a dialog that opens or closes, a request, a step of the
\* controller or of the other administrator, or an answer.
LEMMA ClickForms ==
    ASSUME Shapes, Click
    PROVE  Visits \/ CloseDialog \/ (\E r \in Resources : OpenEditResource(r)) \/ Sends
<1>1. ASSUME OpenResourcesPage PROVE Visits
  <2>1. PICK p : p = [name |-> "list", res |-> None]
    OBVIOUS
  <2>2. Visit(p) /\ p.name = "list" /\ p.res = None
    BY <1>1, <2>1 DEF OpenResourcesPage
  <2>3. QED
    BY <2>2 DEF Visits
<1>2. ASSUME NEW r \in Resources, OpenResourcePage(r) PROVE Visits
  <2>1. PICK p : p = [name |-> "detail", res |-> r]
    OBVIOUS
  <2>2. Visit(p) /\ p.name = "detail" /\ p.res = r
    BY <1>2, <2>1 DEF OpenResourcePage
  <2>3. QED
    BY <2>2, <1>2 DEF Visits
<1>3. QED
  BY <1>1, <1>2, SendAdd, SendUpdate, SendDelete, SendToggle, SendRule DEF Click

LEMMA ShapesOther == ASSUME Shapes, Other PROVE Shapes'
<1>1. hist' \in Histories
  BY HistoryFacts DEF Shapes
<1>2. UNCHANGED << page, loading, shown, counts, modal, busy, flights >>
  BY DEF Other
<1>3. /\ resources' \in [Resources -> [st : {"unborn", "live", "deleted"}, address : Addresses, fw : FirewallStatus]]
      /\ rules' \in [Rules -> Resources \cup {"unborn", "deleted"}]
  BY DEF Other, Shapes, TypeOK, Present
<1>4. QED
  BY <1>1, <1>2, <1>3 DEF Shapes, TypeOK, PageOK, OfPage

LEMMA ShapesEdit == ASSUME Shapes, NEW r \in Resources, OpenEditResource(r) PROVE Shapes'
<1>1. hist' \in Histories
  BY HistoryFacts DEF OpenEditResource, Shapes
<1>2. UNCHANGED << page, loading, shown, counts, busy, flights, resources, rules >> /\ page.name = "list"
  BY DEF OpenEditResource, server, On
<1>3. PICK x \in Rows(r) : modal' = [kind |-> "updateResource", item |-> r, address |-> x.address]
  BY DEF OpenEditResource
<1>4. x \in Rests
  BY <1>2, <1>3 DEF Rows, Shapes, PageOK, ViewOK
<1>5. modal'.item = r /\ modal'.address \in Addresses
  BY <1>3, <1>4 DEF Rests
<1>6. QED
  BY <1>1, <1>2, <1>5 DEF Shapes, TypeOK, PageOK, OfPage

LEMMA ShapesStep == ASSUME Shapes, [Next]_vars PROVE Shapes'
<1>1. CASE Visits
  BY <1>1, ShapesVisit DEF Visits
<1>2. CASE CloseDialog
  <2>1. modal'.kind = None /\ UNCHANGED << page, loading, shown, counts, busy, flights, hist, resources, rules >>
    BY <1>2 DEF CloseDialog, Closed, server
  <2>2. QED
    BY <2>1 DEF Shapes, TypeOK, PageOK, OfPage, None
<1>3. CASE \E r \in Resources : OpenEditResource(r)
  BY <1>3, ShapesEdit
<1>4. CASE Sends
  <2>1. PICK f, m, b : Send(f, m, b) /\ RequestOK(f) /\ OfPage(f) /\ Sendable(f, m, b)
    BY <1>4 DEF Sends
  <2>2. b \in Resources \cup Rules \cup {None}
    BY <2>1 DEF Sendable, RequestOK, ResourceCalls, RuleCalls, Shapes, TypeOK
  <2>3. m.kind = "updateResource" => m.item \in Resources /\ m.address \in Addresses
    BY <2>1 DEF Sendable, Shapes, PageOK
  <2>4. QED
    BY <2>1, <2>2, <2>3, ShapesSend
<1>5. CASE Other
  BY <1>5, ShapesOther
<1>6. ASSUME NEW f \in flights, Serve(f) PROVE Shapes'
  BY <1>6, ShapesServe
<1>7. ASSUME NEW f \in flights, Answer(f) PROVE Shapes'
  BY <1>7, ShapesLoad, ShapesCounts, ShapesList, ShapesRule DEF Answer
<1>8. CASE UNCHANGED vars
  BY <1>8 DEF vars, Shapes, TypeOK, PageOK, OfPage
<1>9. QED
  BY <1>1, <1>2, <1>3, <1>4, <1>5, <1>6, <1>7, <1>8, ClickForms DEF Next

-----------------------------------------------------------------------------
(* The row that is disabled.                                               *)

LEMMA BusyStep == ASSUME Shapes, BusyInv, [Next]_vars PROVE BusyInv'
<1>0. SUFFICES ASSUME busy' # None PROVE \E x \in flights' : Holds(x)'
  BY DEF BusyInv
<1>1. CASE Visits
  BY <1>0, <1>1 DEF Visits, Visit
<1>2. ASSUME busy' = busy, flights \subseteq flights' PROVE \E x \in flights' : Holds(x)'
  BY <1>0, <1>2 DEF BusyInv, Holds
<1>3. CASE CloseDialog \/ Other \/ (\E r \in Resources : OpenEditResource(r)) \/ UNCHANGED vars
  BY <1>2, <1>3 DEF CloseDialog, Other, OpenEditResource, vars
<1>4. CASE Sends
  <2>1. PICK f, m, b : Send(f, m, b) /\ Sendable(f, m, b)
    BY <1>4 DEF Sends
  <2>2. flights' = flights \cup {f} /\ busy' = b
    BY <2>1 DEF Send
  <2>3. QED
    BY <1>2, <2>1, <2>2 DEF Sendable, Holds
<1>5. ASSUME NEW f \in flights, Serve(f) PROVE \E x \in flights' : Holds(x)'
  <2>1. busy' = busy
    BY <1>5, ServeForms DEF tab
  <2>2. PICK st \in {"half", "ok", "failed"}, got \in {f.got, View(page)} : Progress(f, st, got)
    BY <1>5, ServeForms
  <2>3. PICK h \in flights : Holds(h)
    BY <1>0, <2>1 DEF BusyInv
  <2>4. CASE h # f
    BY <2>1, <2>2, <2>3, <2>4 DEF Progress, Holds
  <2>5. CASE h = f
    <3>1. PICK g : g = [f EXCEPT !.st = st, !.got = got]
      OBVIOUS
    <3>2. g \in flights'
      BY <2>2, <2>3, <2>5, <3>1 DEF Progress, Holds
    <3>3. Fields(f)
      BY <1>5 DEF Shapes, RequestOK
    <3>4. g.item = f.item /\ g.at = f.at /\ g.kind = f.kind
      BY <3>1, <3>3 DEF Fields
    <3>5. QED
      BY <2>1, <2>3, <2>5, <3>2, <3>4 DEF Holds
  <2>6. QED
    BY <2>4, <2>5
<1>6. ASSUME NEW f \in flights, busy' = busy, flights \ {f} \subseteq flights',
             f.kind \notin {"setResourceFirewallStatus", "deleteAccessRule"} \/ f.at # "here"
      PROVE  \E x \in flights' : Holds(x)'
  <2>1. PICK h \in flights : Holds(h)
    BY <1>0, <1>6 DEF BusyInv
  <2>2. QED
    BY <1>6, <2>1 DEF Holds
<1>7. ASSUME NEW f \in flights, LoadAnswer(f) \/ CountsAnswer(f) PROVE \E x \in flights' : Holds(x)'
  <2>1. busy' = busy /\ f.kind \in Reads /\ flights \ {f} \subseteq flights'
    BY <1>7 DEF LoadAnswer, CountsAnswer, Answered, ShowRules, Reads
  <2>2. QED
    BY <1>6, <1>7, <2>1 DEF Reads
<1>8. ASSUME NEW f \in flights, ListAnswer(f) PROVE \E x \in flights' : Holds(x)'
  <2>1. flights' = flights \ {f} /\ busy' = busy /\ ~(f.kind = "setResourceFirewallStatus" /\ f.at = "here") /\ f.kind \in ResourceCalls
    BY <1>0, <1>8, ListForms
  <2>2. QED
    BY <1>6, <1>8, <2>1 DEF ResourceCalls
<1>9. ASSUME NEW f \in flights, RuleAnswer(f) PROVE \E x \in flights' : Holds(x)'
  <2>1. busy' = busy /\ f.kind = "createAccessRule" /\ flights \ {f} \subseteq flights'
    BY <1>0, <1>9 DEF RuleAnswer, Answered, ShowRules, RuleCalls
  <2>2. QED
    BY <1>6, <1>9, <2>1
<1>10. QED
  BY <1>1, <1>3, <1>4, <1>5, <1>7, <1>8, <1>9, ClickForms DEF Next, Answer

-----------------------------------------------------------------------------
(* The administrator who waits.                                            *)

\* What a step does to the requests of an administrator who waits: a visit, a
\* dialog that opens or closes, a request, a step of the controller, an answer.
LEMMA WaitingVisit ==
    ASSUME Shapes, NEW p, Visit(p), ~hist'.overlap
    PROVE  /\ ~hist.overlap /\ flights = {}
           /\ \E g : flights' = {g} /\ g.kind = "load" /\ g.got = Nothing /\ g.st = "sent" /\ g.at = "here"
<1>1. ~hist.overlap /\ flights = {}
  BY HistoryFacts DEF Visit, Shapes
<1>2. PICK g : g = Call("load", None, None, 0)
  OBVIOUS
<1>3. flights' = {g}
  BY <1>1, <1>2 DEF Visit
<1>4. g.kind = "load" /\ g.got = Nothing /\ g.st = "sent" /\ g.at = "here"
  BY <1>2 DEF Call
<1>5. QED
  BY <1>1, <1>3, <1>4

LEMMA WaitingSend ==
    ASSUME Shapes, NEW f, NEW m, NEW b, Send(f, m, b), ~hist'.overlap
    PROVE  ~hist.overlap /\ flights = {} /\ flights' = {f}
  BY HistoryFacts DEF Send, Shapes

LEMMA WaitingServe ==
    ASSUME Shapes, OneRequest, NEW f \in flights, Serve(f), ~hist'.overlap
    PROVE  /\ ~hist.overlap /\ flights = {f} /\ f.at = "here"
           /\ \E st \in {"half", "ok", "failed"} : \E g :
                 /\ flights' = {g} /\ Fields(g) /\ Same(f, g) /\ g.at = "here" /\ g.st = st
                 /\ Progress(f, st, g.got)
<1>0. hist'.overlap = hist.overlap
  <2>1. hist \in Histories
    BY DEF Shapes
  <2>2. QED
    BY <2>1 DEF Serve, ServeRead, ServeResource, ServeDeleteResource, ServeRule, SwallowRule, ServeFails, LoseAnswer, Histories
<1>1. ~hist.overlap /\ flights = {f} /\ f.at = "here" /\ Fields(f)
  BY <1>0 DEF OneRequest, Shapes, RequestOK
<1>2. PICK st \in {"half", "ok", "failed"}, got \in {f.got, View(page)} : Progress(f, st, got)
  BY ServeForms
<1>3. PICK g : g = [f EXCEPT !.st = st, !.got = got]
  OBVIOUS
<1>4. flights' = {g}
  BY <1>1, <1>2, <1>3 DEF Progress
<1>5. Fields(g) /\ Same(f, g) /\ g.at = "here" /\ g.st = st /\ g.got = got
  BY <1>1, <1>3 DEF Fields, Same
<1>6. QED
  BY <1>1, <1>2, <1>4, <1>5

\* The page shows these rules and asks for their counts.
Counting(items) ==
    /\ shown' = [found |-> TRUE, items |-> items]
    /\ \E g : flights' = {g} /\ g.kind = "counts" /\ g.got = shown' /\ g.st = "sent" /\ g.at = "here"

LEMMA WaitingAnswer ==
    ASSUME Shapes, OneRequest, NEW f \in flights, Answer(f), ~hist'.overlap
    PROVE  /\ ~hist.overlap /\ flights = {f} /\ f.at = "here" /\ UNCHANGED << page, resources, rules, hist >>
           /\ LoadAnswer(f) /\ ~(page.name = "detail" /\ f.st = "ok" /\ f.got.found) => flights' = {}
           /\ CountsAnswer(f) => flights' = {}
           /\ ListAnswer(f) => IF f.st = "ok"
                               THEN \E g : flights' = {g} /\ g.kind = "load" /\ g.got = Nothing /\ g.st = "sent" /\ g.at = "here"
                               ELSE flights' = {}
           /\ RuleAnswer(f) /\ f.st # "ok" => flights' = {}
           /\ LoadAnswer(f) /\ page.name = "detail" /\ f.st = "ok" /\ f.got.found => Counting(f.got.items)
           /\ RuleAnswer(f) /\ f.st = "ok" => Counting(f.then)
<1>1. ~hist.overlap /\ flights = {f} /\ f.at = "here"
  BY DEF Answer, OneRequest
<1>2. UNCHANGED << page, resources, rules, hist >>
  BY DEF Answer, LoadAnswer, CountsAnswer, ListAnswer, RuleAnswer, server
<1>3. /\ LoadAnswer(f) /\ ~(page.name = "detail" /\ f.st = "ok" /\ f.got.found) => flights' = {}
      /\ CountsAnswer(f) => flights' = {}
      /\ RuleAnswer(f) /\ f.st # "ok" => flights' = {}
  BY <1>1 DEF LoadAnswer, CountsAnswer, RuleAnswer
<1>4. ASSUME ListAnswer(f), f.st = "ok"
      PROVE \E g : flights' = {g} /\ g.kind = "load" /\ g.got = Nothing /\ g.st = "sent" /\ g.at = "here"
  <2>1. PICK g : /\ g.kind = "load" /\ g.got = Nothing /\ g.st = "sent" /\ g.at = "here"
                 /\ flights' = { [x EXCEPT !.at = IF @ = "here" THEN "page" ELSE @] : x \in flights \ {f} } \cup {g}
    BY <1>4, ListForms
  <2>2. flights \ {f} = {}
    BY <1>1
  <2>3. flights' = {g}
    BY <2>1, <2>2
  <2>4. QED
    BY <2>1, <2>3
<1>5. ASSUME ListAnswer(f), f.st # "ok" PROVE flights' = {}
  BY <1>1, <1>5 DEF ListAnswer
<1>6. ASSUME NEW items \in SUBSET Rules, ShowRules(f, items), page.name = "detail" PROVE Counting(items)
  <2>0. page' = page
    BY <1>2
  <2>1. shown' = [found |-> TRUE, items |-> items]
    BY <1>6 DEF ShowRules
  <2>2. PICK g : flights' = (flights \ {f}) \cup {g} /\ g.kind = "counts" /\ g.got = shown' /\ g.st = "sent" /\ g.at = "here"
    BY <1>6, <2>0, ShownRules
  <2>3. flights' = {g}
    BY <1>1, <2>2
  <2>4. QED
    BY <2>1, <2>2, <2>3 DEF Counting
<1>7. ASSUME LoadAnswer(f), page.name = "detail", f.st = "ok", f.got.found PROVE Counting(f.got.items)
  <2>1. f.got.items \in SUBSET Rules /\ ShowRules(f, f.got.items)
    BY <1>7 DEF LoadAnswer, Answered, Shapes, OfPage, ViewOK
  <2>2. QED
    BY <1>6, <1>7, <2>1
<1>8. ASSUME RuleAnswer(f), f.st = "ok" PROVE Counting(f.then)
  <2>1. f.then \in SUBSET Rules /\ ShowRules(f, f.then) /\ page.name = "detail"
    BY <1>8 DEF RuleAnswer, Answered, Shapes, RequestOK, OfPage
  <2>2. QED
    BY <1>6, <2>1
<1>9. QED
  BY <1>1, <1>2, <1>3, <1>4, <1>5, <1>7, <1>8

LEMMA OneStep == ASSUME Shapes, OneRequest, [Next]_vars PROVE OneRequest'
<1>0. SUFFICES ASSUME ~hist'.overlap
               PROVE  /\ \A f, g \in flights' : f = g
                      /\ \A f \in flights' : f.at = "here" /\ (f.st = "failed" => hist'.failed)
  BY DEF OneRequest
<1>1. CASE Visits
  BY <1>0, <1>1, WaitingVisit DEF Visits
<1>2. ASSUME flights' = flights, ~hist.overlap, hist'.failed = hist.failed
      PROVE  /\ \A f, g \in flights' : f = g
             /\ \A f \in flights' : f.at = "here" /\ (f.st = "failed" => hist'.failed)
  BY <1>2 DEF OneRequest
<1>3. CASE CloseDialog \/ Other \/ (\E r \in Resources : OpenEditResource(r)) \/ UNCHANGED vars
  <2>1. flights' = flights
    BY <1>3 DEF CloseDialog, Other, OpenEditResource, vars
  <2>2. ~hist.overlap /\ hist'.failed = hist.failed
    BY <1>0, <1>3, HistoryFacts DEF CloseDialog, OpenEditResource, vars, Shapes
  <2>3. QED
    BY <1>2, <2>1, <2>2
<1>4. CASE Sends
  <2>1. PICK f, m, b : Send(f, m, b) /\ Sendable(f, m, b)
    BY <1>4 DEF Sends
  <2>2. QED
    BY <1>0, <2>1, WaitingSend DEF Sendable
<1>5. ASSUME NEW f \in flights, Serve(f)
      PROVE  /\ \A x, y \in flights' : x = y
             /\ \A x \in flights' : x.at = "here" /\ (x.st = "failed" => hist'.failed)
  <2>1. PICK st \in {"half", "ok", "failed"}, g \in flights' :
           flights' = {g} /\ g.at = "here" /\ g.st = st /\ Progress(f, st, g.got)
    BY <1>0, <1>5, WaitingServe
  <2>2. QED
    BY <2>1 DEF Progress
<1>6. ASSUME NEW f \in flights, Answer(f)
      PROVE  /\ \A x, y \in flights' : x = y
             /\ \A x \in flights' : x.at = "here" /\ (x.st = "failed" => hist'.failed)
  <2>1. CASE LoadAnswer(f) /\ page.name = "detail" /\ f.st = "ok" /\ f.got.found
    BY <1>0, <1>6, <2>1, WaitingAnswer DEF Counting
  <2>2. CASE LoadAnswer(f) /\ ~(page.name = "detail" /\ f.st = "ok" /\ f.got.found)
    BY <1>0, <1>6, <2>2, WaitingAnswer
  <2>3. CASE CountsAnswer(f)
    BY <1>0, <1>6, <2>3, WaitingAnswer
  <2>4. CASE ListAnswer(f)
    BY <1>0, <1>6, <2>4, WaitingAnswer
  <2>5. CASE RuleAnswer(f) /\ f.st = "ok"
    BY <1>0, <1>6, <2>5, WaitingAnswer DEF Counting
  <2>6. CASE RuleAnswer(f) /\ f.st # "ok"
    BY <1>0, <1>6, <2>6, WaitingAnswer
  <2>7. QED
    BY <1>6, <2>1, <2>2, <2>3, <2>4, <2>5, <2>6 DEF Answer
<1>7. QED
  BY <1>1, <1>3, <1>4, <1>5, <1>6, ClickForms DEF Next

\* What a step does to the history of an administrator who is alone.
LEMMA ServeHistory ==
    ASSUME Shapes, NEW f \in flights, Serve(f)
    PROVE  hist'.overlap = hist.overlap /\ hist'.other = hist.other /\ (~hist'.failed => ~hist.failed)
<1>1. hist \in Histories
  BY DEF Shapes
<1>2. QED
  BY <1>1 DEF Serve, ServeRead, ServeResource, ServeDeleteResource, ServeRule, SwallowRule, ServeFails, LoseAnswer, Histories

LEMMA AloneBefore ==
    ASSUME Shapes, [Next]_vars, Alone'
    PROVE  Alone /\ ~Other /\ (Calm' => Calm)
<1>1. hist \in Histories
  BY DEF Shapes
<1>2. ~Other
  BY <1>1, HistoryFacts DEF Alone
<1>3. CASE Visits \/ Sends \/ \E r \in Resources : OpenEditResource(r)
  <2>1. Acts
    BY <1>3 DEF Visits, Visit, Sends, Send, OpenEditResource
  <2>2. QED
    BY <1>1, <1>2, <2>1, HistoryFacts DEF Alone, Calm
<1>4. CASE CloseDialog \/ (\E f \in flights : Answer(f)) \/ UNCHANGED vars
  <2>1. hist' = hist
    BY <1>4 DEF CloseDialog, Answer, vars
  <2>2. QED
    BY <1>2, <2>1 DEF Alone, Calm
<1>5. ASSUME NEW f \in flights, Serve(f) PROVE Alone /\ (Calm' => Calm)
  BY <1>5, ServeHistory DEF Alone, Calm
<1>6. QED
  BY <1>2, <1>3, <1>4, <1>5, ClickForms DEF Next

-----------------------------------------------------------------------------
(* No rule names a resource that is gone.                                  *)

\* A rule, or the page, names a resource that exists.
Sound == /\ \A x \in Rules : rules[x] \in Resources => rules[x] \in Present
         /\ (page.name = "detail" /\ shown.found) => page.res \in Present
         /\ \A f \in flights : AloneReq(f)

LEMMA SoundServe ==
    ASSUME Shapes, OneRequest, Sound, NEW f \in flights, Serve(f), Alone'
    PROVE  Sound'
<1>1. UNCHANGED << page, loading, shown, counts, modal, busy >>
  BY ServeForms DEF tab
<1>2. flights = {f} /\ f.at = "here" /\ RequestOK(f) /\ OfPage(f) /\ AloneReq(f) /\ TypeOK
  BY WaitingServe DEF Alone, Shapes, Sound
<1>3. PICK st \in {"half", "ok", "failed"}, g \in flights' :
         flights' = {g} /\ Same(f, g) /\ g.st = st /\ Progress(f, st, g.got)
  BY WaitingServe DEF Alone
<1>4. Handled(f, st) /\ g.got = (IF f.kind = "load" /\ st = "ok" THEN View(page) ELSE f.got)
  BY <1>3 DEF Progress
<1>5. CASE st = "failed" /\ (ServeFails(f) \/ LoseAnswer(f))
  <2>1. UNCHANGED << resources, rules >>
    BY <1>5 DEF ServeFails, LoseAnswer, server
  <2>2. AloneReq(g)
    BY <1>2, <1>3, <1>4, <1>5 DEF AloneReq, Same
  <2>3. QED
    BY <1>1, <1>3, <2>1, <2>2 DEF Sound, AloneReq, Present
<1>6. CASE st = "ok" /\ ServeRead(f)
  <2>1. UNCHANGED << resources, rules >>
    BY <1>6 DEF ServeRead, server
  <2>2. (page.name = "detail" /\ View(page).found) => page.res \in Present
    BY DEF View, ResourceView, Nothing
  <2>3. AloneReq(g)
    BY <1>2, <1>3, <1>4, <1>6, <2>2 DEF AloneReq, Same
  <2>4. QED
    BY <1>1, <1>3, <2>1, <2>3 DEF Sound, AloneReq, Present
<1>7. CASE st = "ok" /\ ServeResource(f)
  <2>1. page.name = "list" /\ f.kind \in ResourceCalls /\ f.item \in Resources /\ rules' = rules
        /\ f.kind \in {"addResource", "updateResource", "setResourceFirewallStatus"}
    BY <1>2, <1>7 DEF ServeResource, Sent, ResourceCalls, OfPage, RequestOK
  <2>2. \A r \in Resources : resources[r].st = "live" => resources'[r].st = "live"
    <3>1. CASE f.kind = "addResource"
      BY <1>2, <1>7, <2>1, <3>1 DEF ServeResource, TypeOK
    <3>2. CASE f.kind = "updateResource"
      BY <1>2, <1>7, <2>1, <3>2 DEF ServeResource, TypeOK
    <3>3. CASE f.kind = "setResourceFirewallStatus"
      BY <1>2, <1>7, <2>1, <3>3 DEF ServeResource, TypeOK
    <3>4. QED
      BY <2>1, <3>1, <3>2, <3>3
  <2>3. Present \subseteq Present'
    BY <2>2 DEF Present
  <2>4. g.kind \in ResourceCalls /\ g.st = "ok"
    BY <1>3, <1>7, <2>1 DEF Same
  <2>5. QED
    BY <1>1, <1>3, <2>1, <2>3, <2>4 DEF Sound, AloneReq, ResourceCalls, RuleCalls
<1>8. CASE ServeDeleteResource(f)
  <2>1. page.name = "list" /\ f.kind = "deleteResource" /\ f.item \in Resources
    BY <1>2, <1>8 DEF ServeDeleteResource, ResourceCalls, OfPage, RequestOK
  <2>2. CASE f.st = "sent"
    <3>1. resources' = resources /\ rules' = [x \in Rules |-> IF rules[x] = f.item THEN "deleted" ELSE rules[x]]
      BY <1>8, <2>2 DEF ServeDeleteResource
    <3>2. \A x \in Rules : rules'[x] # f.item /\ (rules'[x] \in Resources => rules'[x] = rules[x])
      BY <2>1, <3>1, ResourcePagesAssumption
    <3>3. Present' = Present
      BY <3>1 DEF Present
    <3>4. QED
      BY <1>1, <1>3, <2>1, <3>2, <3>3 DEF Sound, AloneReq, RuleCalls, Same
  <2>3. CASE f.st = "half" /\ st = "ok"
    <3>1. resources' = [resources EXCEPT ![f.item].st = "deleted"] /\ rules' = rules
      BY <1>8, <2>3 DEF ServeDeleteResource
    <3>2. \A x \in Rules : rules[x] # f.item
      BY <1>2, <2>3 DEF AloneReq
    <3>3. \A r \in Present : r # f.item => r \in Present'
      BY <1>2, <3>1 DEF Present, TypeOK
    <3>4. QED
      BY <1>1, <1>3, <2>1, <2>3, <3>1, <3>2, <3>3 DEF Sound, AloneReq, RuleCalls, Same
  <2>4. QED
    BY <1>4, <1>8, <2>2, <2>3, <1>5 DEF Handled, ServeDeleteResource
<1>9. CASE st = "ok" /\ ServeRule(f)
  <2>1. page.name = "detail" /\ f.kind \in RuleCalls /\ f.item \in Rules /\ page.res \in Present
        /\ resources' = resources /\ (f.kind = "createAccessRule" => f.data = page.res)
        /\ rules' = [rules EXCEPT ![f.item] = IF f.kind = "createAccessRule" THEN f.data ELSE "deleted"]
    BY <1>2, <1>9 DEF ServeRule, Sent, OfPage, RequestOK, AloneReq
  <2>2. Present' = Present
    BY <2>1 DEF Present
  <2>3. \A x \in Rules : rules'[x] \in Resources => rules'[x] \in Present
    BY <1>2, <2>1, ResourcePagesAssumption DEF Sound, TypeOK
  <2>4. AloneReq(g)'
    BY <1>1, <1>3, <1>9, <2>1, <2>2 DEF AloneReq, Same, RuleCalls
  <2>5. QED
    BY <1>1, <1>3, <2>1, <2>2, <2>3, <2>4 DEF Sound
<1>10. CASE st = "ok" /\ SwallowRule(f)
  <2>1. page.name = "detail" /\ f.kind \in RuleCalls /\ f.item \in Rules /\ page.res \in Present
        /\ resources' = resources /\ (f.kind = "createAccessRule" => f.data = page.res)
        /\ (rules' = rules \/ rules' = [rules EXCEPT ![f.item] = "deleted"])
    BY <1>2, <1>10 DEF SwallowRule, Sent, OfPage, RequestOK, AloneReq
  <2>2. Present' = Present
    BY <2>1 DEF Present
  <2>3. \A x \in Rules : rules'[x] \in Resources => rules'[x] \in Present
    BY <1>2, <2>1, ResourcePagesAssumption DEF Sound, TypeOK
  <2>4. AloneReq(g)'
    BY <1>1, <1>3, <1>10, <2>1, <2>2 DEF AloneReq, Same, RuleCalls
  <2>5. QED
    BY <1>1, <1>3, <2>1, <2>2, <2>3, <2>4 DEF Sound
<1>11. QED
  BY <1>4, <1>5, <1>6, <1>7, <1>8, <1>9, <1>10 DEF Handled

LEMMA SoundAnswer ==
    ASSUME Shapes, OneRequest, Sound, NEW f \in flights, Answer(f), Alone'
    PROVE  Sound'
<1>1. UNCHANGED << page, resources, rules >> /\ flights = {f} /\ AloneReq(f) /\ ~hist'.overlap
  BY WaitingAnswer DEF Alone, Sound
<1>2. Present' = Present
  BY <1>1 DEF Present
<1>3. SUFFICES /\ (page.name = "detail" /\ shown'.found) => page.res \in Present
               /\ \A g \in flights' : AloneReq(g)
  BY <1>1, <1>2 DEF Sound, AloneReq
<1>4. ASSUME NEW items, Counting(items), page.res \in Present
      PROVE  /\ (page.name = "detail" /\ shown'.found) => page.res \in Present
             /\ \A g \in flights' : AloneReq(g)
  BY <1>4 DEF Counting, AloneReq, RuleCalls
<1>5. CASE LoadAnswer(f) /\ page.name = "detail" /\ f.st = "ok" /\ f.got.found
  <2>1. f.kind = "load"
    BY <1>5 DEF LoadAnswer, Answered
  <2>2. QED
    BY <1>1, <1>4, <1>5, <2>1, WaitingAnswer DEF AloneReq
<1>6. CASE LoadAnswer(f) /\ ~(page.name = "detail" /\ f.st = "ok" /\ f.got.found)
  <2>1. flights' = {} /\ shown' = IF f.st = "ok" THEN f.got ELSE shown
    BY <1>1, <1>6, WaitingAnswer DEF LoadAnswer
  <2>2. QED
    BY <1>6, <2>1 DEF Sound
<1>7. CASE CountsAnswer(f)
  <2>1. flights' = {} /\ shown' = shown
    BY <1>1, <1>7, WaitingAnswer DEF CountsAnswer
  <2>2. QED
    BY <2>1 DEF Sound
<1>8. CASE ListAnswer(f)
  <2>1. shown' = shown
    BY <1>8 DEF ListAnswer
  <2>2. \A g \in flights' : g.kind = "load" /\ g.got = Nothing /\ g.st = "sent"
    BY <1>1, <1>8, WaitingAnswer
  <2>3. QED
    BY <2>1, <2>2 DEF Sound, AloneReq, Nothing, RuleCalls
<1>9. CASE RuleAnswer(f) /\ f.st = "ok"
  <2>1. f.kind \in RuleCalls
    BY <1>9 DEF RuleAnswer, Answered
  <2>2. QED
    BY <1>1, <1>4, <1>9, <2>1, WaitingAnswer DEF AloneReq
<1>10. CASE RuleAnswer(f) /\ f.st # "ok"
  <2>1. flights' = {} /\ shown' = shown
    BY <1>1, <1>10, WaitingAnswer DEF RuleAnswer
  <2>2. QED
    BY <2>1 DEF Sound
<1>11. QED
  BY <1>5, <1>6, <1>7, <1>8, <1>9, <1>10 DEF Answer

LEMMA SoundStep ==
    ASSUME Shapes, OneRequest, NoOrphanRules, AloneInv, [Next]_vars
    PROVE  (NoOrphanRules /\ AloneInv)'
<1>0. SUFFICES ASSUME Alone' PROVE Sound'
  BY DEF NoOrphanRules, AloneInv, Sound
<1>1. Sound /\ ~Other /\ ~hist'.overlap
  BY <1>0, AloneBefore DEF NoOrphanRules, AloneInv, Sound, Alone
<1>2. CASE Visits
  <2>1. PICK p : Visit(p)
    BY <1>2 DEF Visits
  <2>2. PICK g : flights' = {g} /\ g.kind = "load" /\ g.got = Nothing /\ g.st = "sent"
    BY <1>1, <2>1, WaitingVisit
  <2>3. shown' = Nothing /\ UNCHANGED << resources, rules >>
    BY <2>1 DEF Visit, server
  <2>4. QED
    BY <1>1, <2>2, <2>3 DEF Sound, AloneReq, Nothing, RuleCalls, Present
<1>3. CASE CloseDialog \/ (\E r \in Resources : OpenEditResource(r)) \/ UNCHANGED vars
  <2>1. UNCHANGED << page, shown, flights, resources, rules >>
    BY <1>3 DEF CloseDialog, OpenEditResource, vars, server
  <2>2. QED
    BY <1>1, <2>1 DEF Sound, AloneReq, Present
<1>4. CASE Sends
  <2>1. PICK f, m, b : Send(f, m, b) /\ OfPage(f) /\ Sendable(f, m, b)
    BY <1>4 DEF Sends
  <2>2. flights' = {f} /\ UNCHANGED << page, shown, resources, rules >>
    BY <1>1, <2>1, WaitingSend DEF Send, server
  <2>3. f.kind \in RuleCalls => page.name = "detail" /\ page.res \in Present
    BY <1>1, <2>1 DEF OfPage, Sendable, Sound
  <2>4. f.st = "sent" /\ f.kind # "load" /\ (f.kind = "createAccessRule" => f.data = page.res)
    BY <2>1 DEF Sendable, Reads
  <2>5. AloneReq(f)
    BY <2>3, <2>4 DEF AloneReq
  <2>6. QED
    BY <1>1, <2>2, <2>5 DEF Sound, AloneReq, Present
<1>5. ASSUME NEW f \in flights, Serve(f) PROVE Sound'
  BY <1>0, <1>1, <1>5, SoundServe
<1>6. ASSUME NEW f \in flights, Answer(f) PROVE Sound'
  BY <1>0, <1>1, <1>6, SoundAnswer
<1>7. QED
  BY <1>1, <1>2, <1>3, <1>4, <1>5, <1>6, ClickForms DEF Next

-----------------------------------------------------------------------------
(* The counts are those of the rules shown.                                *)

LEMMA CountsStep == ASSUME Shapes, OneRequest, CountsTrue, [Next]_vars PROVE CountsTrue'
<1>0. SUFFICES ASSUME ~hist'.overlap, ~hist'.failed, page'.name = "detail"
               PROVE  /\ (flights' = {} /\ shown'.found) => counts' = shown'.items
                      /\ \A f \in flights' : f.kind = "counts" => shown'.found /\ f.got.items = shown'.items
  BY DEF CountsTrue
<1>1. hist \in Histories
  BY DEF Shapes
<1>2. CASE Visits
  BY <1>0, <1>2, WaitingVisit DEF Visits
<1>3. CASE CloseDialog \/ Other \/ (\E r \in Resources : OpenEditResource(r)) \/ UNCHANGED vars
  <2>1. UNCHANGED << page, shown, counts, flights >>
    BY <1>3 DEF CloseDialog, Other, OpenEditResource, vars
  <2>2. ~hist.overlap /\ ~hist.failed
    BY <1>0, <1>1, <1>3, HistoryFacts DEF CloseDialog, OpenEditResource, vars
  <2>3. QED
    BY <1>0, <2>1, <2>2 DEF CountsTrue
<1>4. CASE Sends
  <2>1. PICK f, m, b : Send(f, m, b) /\ Sendable(f, m, b)
    BY <1>4 DEF Sends
  <2>2. QED
    BY <1>0, <2>1, WaitingSend DEF Sendable, Reads
<1>5. ASSUME NEW f \in flights, Serve(f)
      PROVE  /\ (flights' = {} /\ shown'.found) => counts' = shown'.items
             /\ \A x \in flights' : x.kind = "counts" => shown'.found /\ x.got.items = shown'.items
  <2>1. PICK st \in {"half", "ok", "failed"}, g \in flights' : flights' = {g} /\ Same(f, g) /\ Progress(f, st, g.got)
    BY <1>0, <1>5, WaitingServe
  <2>2. g.kind = f.kind /\ (f.kind = "counts" => g.got = f.got)
    BY <2>1 DEF Same, Progress
  <2>3. ~hist.overlap /\ ~hist.failed /\ UNCHANGED << page, shown, counts >>
    BY <1>0, <1>5, ServeHistory, ServeForms DEF tab
  <2>4. f.kind = "counts" => shown.found /\ f.got.items = shown.items
    BY <1>0, <1>5, <2>3 DEF CountsTrue
  <2>5. QED
    BY <2>1, <2>2, <2>3, <2>4
<1>6. ASSUME NEW f \in flights, Answer(f)
      PROVE  /\ (flights' = {} /\ shown'.found) => counts' = shown'.items
             /\ \A x \in flights' : x.kind = "counts" => shown'.found /\ x.got.items = shown'.items
  <2>1. ~hist.overlap /\ ~hist.failed /\ page' = page /\ f.st # "failed"
    BY <1>0, <1>6, WaitingAnswer DEF OneRequest
  <2>2. ASSUME NEW items, Counting(items)
        PROVE  /\ (flights' = {} /\ shown'.found) => counts' = shown'.items
               /\ \A x \in flights' : x.kind = "counts" => shown'.found /\ x.got.items = shown'.items
    BY <2>2 DEF Counting
  <2>3. CASE LoadAnswer(f) /\ page.name = "detail" /\ f.st = "ok" /\ f.got.found
    BY <1>0, <1>6, <2>2, <2>3, WaitingAnswer
  <2>4. CASE LoadAnswer(f) /\ ~(page.name = "detail" /\ f.st = "ok" /\ f.got.found)
    <3>1. flights' = {} /\ shown' = f.got /\ f.st = "ok"
      BY <1>0, <1>6, <2>1, <2>4, WaitingAnswer DEF LoadAnswer, Answered
    <3>2. ~f.got.found
      BY <1>0, <2>1, <2>4, <3>1
    <3>3. QED
      BY <3>1, <3>2
  <2>5. CASE CountsAnswer(f)
    <3>1. flights' = {} /\ shown' = shown /\ f.kind = "counts" /\ counts' = f.got.items
      BY <1>0, <1>6, <2>1, <2>5, WaitingAnswer DEF CountsAnswer, Answered
    <3>2. QED
      BY <1>0, <1>6, <2>1, <3>1 DEF CountsTrue
  <2>6. CASE ListAnswer(f)
    BY <1>0, <1>6, <2>1, <2>6, ListForms
  <2>7. CASE RuleAnswer(f)
    BY <1>0, <1>6, <2>1, <2>2, <2>7, WaitingAnswer DEF RuleAnswer, Answered
  <2>8. QED
    BY <1>6, <2>3, <2>4, <2>5, <2>6, <2>7 DEF Answer
<1>7. QED
  BY <1>2, <1>3, <1>4, <1>5, <1>6, ClickForms DEF Next

-----------------------------------------------------------------------------
(* What the page shows is what the tables hold.                            *)

\* If nothing failed, what the page shows, or will show.
True1 == PageInStep /\ \A f \in flights : Reads1(f)

LEMMA TrueServe ==
    ASSUME Shapes, OneRequest, AloneInv, TrueInv, NEW f \in flights, Serve(f), Calm', Calm
    PROVE  True1'
<1>1. UNCHANGED << page, loading, shown, counts, modal, busy >>
  BY ServeForms DEF tab
<1>2. /\ flights = {f} /\ f.at = "here" /\ RequestOK(f) /\ OfPage(f) /\ AloneReq(f) /\ TypeOK /\ Reads1(f)
      /\ page.name = "detail" => page.res \in Resources
  BY WaitingServe DEF Alone, Calm, Shapes, AloneInv, TrueInv, PageOK
<1>3. PICK st \in {"half", "ok", "failed"}, g \in flights' :
         flights' = {g} /\ Same(f, g) /\ g.st = st /\ Progress(f, st, g.got)
  BY WaitingServe DEF Alone, Calm
<1>4. Handled(f, st) /\ g.got = (IF f.kind = "load" /\ st = "ok" THEN View(page) ELSE f.got)
  BY <1>3 DEF Progress
<1>5. st # "failed"
  BY <1>3 DEF Progress, Calm
<1>6. SUFFICES Reads1(g)'
  BY <1>3 DEF True1, PageInStep
<1>7. CASE ServeRead(f)
  <2>1. UNCHANGED << resources, rules, hist >> /\ f.kind \in Reads
    BY <1>7 DEF ServeRead, server, Sent
  <2>2. View(page)' = View(page) /\ Present' = Present /\ \A r : RulesOf(r)' = RulesOf(r)
    BY <1>1, <2>1 DEF View, ResourcesView, ResourceView, Present, RulesOf
  <2>3. QED
    BY <1>1, <1>2, <1>3, <1>4, <1>5, <2>1, <2>2 DEF Reads1, Same, Reads, RuleCalls, Agree
<1>8. CASE ServeResource(f) \/ ServeDeleteResource(f)
  <2>1. f.kind \in ResourceCalls
    BY <1>8 DEF ServeResource, ServeDeleteResource, Sent, ResourceCalls
  <2>2. QED
    BY <1>3, <1>5, <2>1 DEF Reads1, Same, ResourceCalls, RuleCalls
<1>9. CASE ServeRule(f)
  <2>1. page.name = "detail" /\ f.kind \in RuleCalls /\ f.item \in Rules /\ page.res \in Resources /\ f.st = "sent"
        /\ (f.kind = "createAccessRule" => f.data = page.res)
        /\ rules' = [rules EXCEPT ![f.item] = IF f.kind = "createAccessRule" THEN f.data ELSE "deleted"] /\ hist' = hist
    BY <1>2, <1>9 DEF ServeRule, Sent, OfPage, RequestOK, AloneReq
  <2>2. Agree(f.then, Future(f))
    BY <1>2, <2>1 DEF Reads1
  <2>3. RulesOf(page.res)' = Future(f)
    <3>1. CASE f.kind = "createAccessRule"
      <4>1. \A x \in Rules : rules'[x] = page.res <=> (x = f.item \/ rules[x] = page.res)
        BY <1>2, <2>1, <3>1 DEF TypeOK
      <4>2. QED
        BY <1>1, <2>1, <3>1, <4>1 DEF RulesOf, Future
    <3>2. CASE f.kind = "deleteAccessRule"
      <4>1. \A x \in Rules : rules'[x] = page.res <=> (x # f.item /\ rules[x] = page.res)
        BY <1>2, <2>1, <3>2, ResourcePagesAssumption DEF TypeOK
      <4>2. QED
        BY <1>1, <2>1, <3>2, <4>1 DEF RulesOf, Future
    <3>3. QED
      BY <2>1, <3>1, <3>2 DEF RuleCalls
  <2>4. st = "ok"
    BY <1>3, <1>4, <1>5, <2>1 DEF Handled, Progress, RuleCalls
  <2>5. QED
    BY <1>1, <1>3, <2>1, <2>2, <2>3, <2>4 DEF Reads1, Same, RuleCalls, Agree
<1>10. CASE SwallowRule(f)
  <2>1. page.name = "detail" /\ f.kind \in RuleCalls /\ f.item \in Rules /\ f.st = "sent"
        /\ (rules' = rules \/ rules' = [rules EXCEPT ![f.item] = "deleted"])
    BY <1>2, <1>10 DEF SwallowRule, Sent, OfPage, RequestOK
  <2>2. Agree(f.then, Future(f)) /\ hist'.swallowed = hist.swallowed \cup {f.item}
    BY <1>2, <1>10, <2>1, HistoryFacts DEF Reads1, Shapes
  <2>3. \A x \in Rules : x # f.item => rules'[x] = rules[x]
    BY <1>2, <2>1 DEF TypeOK
  <2>4. RulesOf(page.res)' \ hist'.swallowed = Future(f) \ hist'.swallowed
    BY <1>1, <2>2, <2>3 DEF RulesOf, Future
  <2>5. f.then \ hist'.swallowed = Future(f) \ hist'.swallowed
    BY <2>2 DEF Agree
  <2>6. st = "ok"
    BY <1>3, <1>4, <1>5, <2>1 DEF Handled, Progress, RuleCalls
  <2>7. QED
    BY <1>1, <1>3, <2>1, <2>4, <2>5, <2>6 DEF Reads1, Same, RuleCalls, Agree
<1>11. QED
  BY <1>4, <1>5, <1>7, <1>8, <1>9, <1>10 DEF Handled

LEMMA TrueAnswer ==
    ASSUME Shapes, OneRequest, AloneInv, TrueInv, NEW f \in flights, Answer(f), Calm', Calm
    PROVE  True1'
<1>1. /\ page' = page /\ resources' = resources /\ rules' = rules /\ flights = {f} /\ AloneReq(f) /\ Reads1(f)
      /\ TypeOK /\ f.st = "ok" /\ ~hist'.overlap
      /\ page.name = "detail" => page.res \in Resources
  <2>1. UNCHANGED << page, resources, rules >> /\ flights = {f}
    BY WaitingAnswer DEF Alone, Calm
  <2>2. f.st \in {"ok", "failed"}
    BY DEF Answer, LoadAnswer, CountsAnswer, ListAnswer, RuleAnswer, Answered
  <2>3. QED
    BY <2>1, <2>2 DEF Alone, Calm, Shapes, AloneInv, TrueInv, PageOK, Reads1
<1>2. View(page)' = View(page) /\ Present' = Present /\ hist' = hist /\ \A r : RulesOf(r)' = RulesOf(r)
  BY <1>1, WaitingAnswer DEF View, ResourcesView, ResourceView, Present, RulesOf, Answer
<1>3. ASSUME page.name = "detail", page.res \in Present
      PROVE  View(page) = [found |-> TRUE, items |-> RulesOf(page.res)]
  BY <1>3 DEF View, ResourceView
<1>4. ASSUME NEW items, Counting(items), page.res \in Present, Agree(items, RulesOf(page.res))
      PROVE  True1'
  <2>1. shown'.items = items
    BY <1>4 DEF Counting
  <2>2. PICK g : flights' = {g} /\ g.kind = "counts" /\ g.st = "sent"
    BY <1>4 DEF Counting
  <2>3. Reads1(g)'
    BY <1>1, <1>2, <1>4, <2>1, <2>2 DEF Reads1, RuleCalls, Agree
  <2>4. QED
    BY <2>2, <2>3 DEF True1, PageInStep
<1>6. CASE LoadAnswer(f)
  <2>1. f.kind = "load" /\ f.got = View(page)
    BY <1>1, <1>6 DEF LoadAnswer, Answered, Reads1
  <2>2. CASE page.name = "detail" /\ f.got.found
    <3>1. page.res \in Present
      BY <1>1, <2>1, <2>2 DEF AloneReq
    <3>2. Counting(f.got.items)
      BY <1>1, <1>6, <2>2, WaitingAnswer
    <3>3. f.got.items = RulesOf(page.res)
      BY <1>3, <2>1, <2>2, <3>1
    <3>4. QED
      BY <1>4, <3>1, <3>2, <3>3 DEF Agree
  <2>3. CASE ~(page.name = "detail" /\ f.got.found)
    <3>1. flights' = {} /\ shown' = f.got
      BY <1>1, <1>6, <2>3, WaitingAnswer DEF LoadAnswer
    <3>2. page.name # "list" => ~shown'.found
      BY <1>1, <2>3, <3>1 DEF TypeOK
    <3>3. page.name = "list" => shown' = ResourcesView'
      BY <1>1, <2>1, <3>1 DEF View, ResourcesView, Present
    <3>4. QED
      BY <1>1, <3>1, <3>2, <3>3 DEF True1, PageInStep
  <2>4. QED
    BY <2>2, <2>3
<1>7. CASE CountsAnswer(f)
  <2>1. flights' = {} /\ shown' = shown /\ f.kind = "counts" /\ page.name = "detail"
    BY <1>1, <1>7, WaitingAnswer DEF CountsAnswer, Answered, Shapes, OfPage
  <2>2. page.res \in Present /\ Agree(shown.items, RulesOf(page.res))
    BY <1>1, <2>1 DEF Reads1
  <2>3. QED
    BY <1>1, <1>2, <2>1, <2>2 DEF True1, PageInStep, Agree
<1>8. CASE ListAnswer(f)
  <2>1. PICK g : flights' = {g} /\ g.kind = "load" /\ g.st = "sent"
    BY <1>1, <1>8, WaitingAnswer
  <2>2. QED
    BY <2>1 DEF True1, PageInStep, Reads1, RuleCalls
<1>9. CASE RuleAnswer(f)
  <2>1. f.kind \in RuleCalls /\ page.res \in Present /\ Agree(f.then, RulesOf(page.res))
    BY <1>1, <1>9 DEF RuleAnswer, Answered, AloneReq, Reads1
  <2>2. Counting(f.then)
    BY <1>1, <1>9, WaitingAnswer
  <2>3. QED
    BY <1>4, <2>1, <2>2
<1>10. QED
  BY <1>6, <1>7, <1>8, <1>9 DEF Answer

LEMMA TrueStep ==
    ASSUME Shapes, OneRequest, AloneInv, TrueInv, [Next]_vars
    PROVE  TrueInv'
<1>0. SUFFICES ASSUME Calm' PROVE True1'
  BY DEF TrueInv, True1
<1>1. Calm /\ True1 /\ ~Other /\ ~hist'.overlap
  BY <1>0, AloneBefore DEF TrueInv, True1, Calm, Alone
<1>2. CASE Visits
  <2>1. PICK g : flights' = {g} /\ g.kind = "load" /\ g.st = "sent"
    BY <1>1, <1>2, WaitingVisit DEF Visits
  <2>2. QED
    BY <2>1 DEF True1, PageInStep, Reads1, RuleCalls
<1>3. CASE CloseDialog \/ (\E r \in Resources : OpenEditResource(r)) \/ UNCHANGED vars
  <2>1. UNCHANGED << page, shown, flights, resources, rules >> /\ hist'.swallowed = hist.swallowed
    BY <1>3, HistoryFacts DEF CloseDialog, OpenEditResource, vars, server, Shapes
  <2>2. /\ View(page)' = View(page) /\ Present' = Present /\ ResourcesView' = ResourcesView
        /\ \A r : RulesOf(r)' = RulesOf(r)
    BY <2>1 DEF View, ResourcesView, ResourceView, Present, RulesOf
  <2>3. \A f : Reads1(f)' <=> Reads1(f)
    BY <2>1, <2>2 DEF Reads1, Future, Agree
  <2>4. QED
    BY <1>0, <1>1, <2>1, <2>2, <2>3 DEF True1, PageInStep
<1>4. CASE Sends
  <2>1. PICK f, m, b : Send(f, m, b) /\ OfPage(f) /\ Sendable(f, m, b)
    BY <1>4 DEF Sends
  <2>2. flights = {} /\ flights' = {f} /\ UNCHANGED << page, shown, resources, rules >>
        /\ hist'.swallowed = hist.swallowed
    BY <1>1, <2>1, WaitingSend, HistoryFacts DEF Send, server, Shapes
  <2>3. page.name = "detail" => Agree(shown.items, RulesOf(page.res))
    BY <1>1, <2>1, <2>2 DEF True1, PageInStep, Sendable, Agree
  <2>4. f.st = "sent" /\ f.kind \notin Reads
    BY <2>1 DEF Sendable
  <2>5. f.kind \in RuleCalls => Agree(f.then, Future(f))
    <3>1. f.kind \in RuleCalls => page.name = "detail"
      BY <2>1 DEF OfPage, Sendable
    <3>2. QED
      BY <2>1, <2>3, <3>1 DEF Sendable, Future, RuleCalls, Agree
  <2>6. Reads1(f)'
    BY <2>2, <2>4, <2>5 DEF Reads1, Reads, Future, RulesOf, Agree
  <2>7. QED
    BY <2>2, <2>6 DEF True1, PageInStep
<1>5. ASSUME NEW f \in flights, Serve(f) PROVE True1'
  BY <1>0, <1>1, <1>5, TrueServe
<1>6. ASSUME NEW f \in flights, Answer(f) PROVE True1'
  BY <1>0, <1>1, <1>6, TrueAnswer
<1>7. QED
  BY <1>1, <1>2, <1>3, <1>4, <1>5, <1>6, ClickForms DEF Next

-----------------------------------------------------------------------------
(* A change starts from what the tables hold.                              *)

\* If nothing failed: the requests and the dialog.
Change1 ==
    /\ ~hist.undone /\ ~hist.idle
    /\ \A f \in flights : Change(f)
    /\ modal.kind = "updateResource" => /\ \A f \in flights : f.kind = "updateResource"
                                        /\ flights = {} => Matches(modal.item, modal.address)

\* A row of the list at rest is that of the table.
LEMMA RowIs ==
    ASSUME TypeOK, shown = View(page), page.name = "list", NEW x \in shown.items
    PROVE  x.id \in Resources /\ x.address = resources[x.id].address /\ x.fw = resources[x.id].fw
<1>1. PICK r \in Present : x = [id |-> r, address |-> resources[r].address, fw |-> resources[r].fw]
  BY DEF View, ResourcesView
<1>2. QED
  BY <1>1 DEF Present

LEMMA ChangeServe ==
    ASSUME Shapes, OneRequest, Change1, NEW f \in flights, Serve(f), Calm', Calm
    PROVE  Change1'
<1>1. modal' = modal /\ hist \in Histories
  BY ServeForms DEF tab, Shapes
<1>2. flights = {f} /\ RequestOK(f) /\ Change(f)
  BY WaitingServe DEF Alone, Calm, Shapes, Change1
<1>3. PICK st \in {"half", "ok", "failed"}, g \in flights' :
         flights' = {g} /\ Same(f, g) /\ g.st = st /\ Progress(f, st, g.got)
  BY WaitingServe DEF Alone, Calm
<1>4. Change(g)'
  BY <1>3 DEF Change
<1>5. modal.kind = "updateResource" => g.kind = "updateResource"
  BY <1>2, <1>3 DEF Change1, Same
<1>6. ~hist'.undone /\ ~hist'.idle
  <2>1. CASE ServeResource(f)
    <3>1. f.st = "sent" /\ f.kind \in {"addResource", "updateResource", "setResourceFirewallStatus"}
      BY <2>1 DEF ServeResource, Sent
    <3>2. CASE f.kind = "addResource"
      BY <2>1, <3>2 DEF ServeResource, Change1
    <3>3. CASE f.kind = "updateResource"
      <4>1. ~(resources[f.item].st = "live" /\ f.kept /\ f.data # resources[f.item].address)
        BY <1>2, <3>1, <3>3 DEF Change, Matches
      <4>2. hist' = [hist EXCEPT !.undone = @ \/ (resources[f.item].st = "live" /\ f.kept /\ f.data # resources[f.item].address)]
        BY <2>1, <3>3 DEF ServeResource
      <4>3. QED
        BY <1>1, <4>1, <4>2 DEF Histories, Change1
    <3>4. CASE f.kind = "setResourceFirewallStatus"
      <4>1. ~(resources[f.item].st = "live" /\ f.data = resources[f.item].fw)
        BY <1>2, <3>1, <3>4 DEF Change
      <4>2. hist' = [hist EXCEPT !.idle = @ \/ (resources[f.item].st = "live" /\ f.data = resources[f.item].fw)]
        BY <2>1, <3>4 DEF ServeResource
      <4>3. QED
        BY <1>1, <4>1, <4>2 DEF Histories, Change1
    <3>5. QED
      BY <3>1, <3>2, <3>3, <3>4
  <2>2. CASE ServeRead(f) \/ ServeDeleteResource(f) \/ ServeRule(f)
    BY <2>2 DEF ServeRead, ServeDeleteResource, ServeRule, Change1
  <2>3. CASE ServeFails(f) \/ LoseAnswer(f)
    BY <1>1, <2>3, HistoryFacts DEF Calm
  <2>4. CASE SwallowRule(f)
    BY <1>1, <1>2, <2>4, HistoryFacts DEF SwallowRule, Sent, RequestOK, Change1
  <2>5. QED
    BY <2>1, <2>2, <2>3, <2>4 DEF Serve
<1>7. QED
  BY <1>1, <1>3, <1>4, <1>5, <1>6 DEF Change1

LEMMA ChangeAnswer ==
    ASSUME Shapes, OneRequest, TrueInv, Change1, NEW f \in flights, Answer(f), Calm', Calm
    PROVE  Change1'
<1>1. flights = {f} /\ hist' = hist /\ resources' = resources /\ ~hist'.overlap
  BY WaitingAnswer DEF Alone, Calm
<1>2. f.st = "ok"
  <2>1. f.st \in {"ok", "failed"}
    BY DEF Answer, LoadAnswer, CountsAnswer, ListAnswer, RuleAnswer, Answered
  <2>2. QED
    BY <2>1 DEF TrueInv, Reads1
<1>3. modal.kind = "updateResource" => f.kind = "updateResource"
  BY DEF Change1
<1>4. modal'.kind # "updateResource"
  <2>1. CASE LoadAnswer(f) \/ CountsAnswer(f)
    BY <1>3, <2>1 DEF LoadAnswer, CountsAnswer, Answered
  <2>2. CASE ListAnswer(f)
    BY <1>2, <1>3, <2>2 DEF ListAnswer, Closed, None
  <2>3. CASE RuleAnswer(f)
    BY <1>3, <2>3 DEF RuleAnswer, Answered, RuleCalls, Closed, None
  <2>4. QED
    BY <2>1, <2>2, <2>3 DEF Answer
<1>5. \A g \in flights' : g.kind \in Reads
  <2>1. CASE LoadAnswer(f) \/ CountsAnswer(f)
    BY <1>1, <1>2, <2>1, WaitingAnswer DEF Counting, Reads
  <2>2. CASE ListAnswer(f)
    BY <1>1, <1>2, <2>2, WaitingAnswer DEF Reads
  <2>3. CASE RuleAnswer(f)
    BY <1>1, <1>2, <2>3, WaitingAnswer DEF Counting, Reads
  <2>4. QED
    BY <2>1, <2>2, <2>3 DEF Answer
<1>6. QED
  BY <1>1, <1>4, <1>5 DEF Change1, Change, Reads

LEMMA ChangeStep ==
    ASSUME Shapes, OneRequest, TrueInv, ChangeInv, [Next]_vars
    PROVE  ChangeInv'
<1>0. SUFFICES ASSUME Calm' PROVE Change1'
  BY DEF ChangeInv, Change1
<1>1. Calm /\ Change1 /\ ~Other /\ ~hist'.overlap /\ hist \in Histories /\ TypeOK
  BY <1>0, AloneBefore DEF ChangeInv, Change1, Calm, Alone, Shapes
<1>2. ASSUME Acts PROVE ~hist'.undone /\ ~hist'.idle /\ flights = {}
  BY <1>1, <1>2, HistoryFacts DEF Change1
<1>3. ASSUME flights = {}, shown.found, page.name = "list" PROVE shown = View(page)
  BY <1>1, <1>3 DEF TrueInv, PageInStep, View
<1>4. CASE Visits
  <2>1. PICK p : Visit(p)
    BY <1>4 DEF Visits
  <2>2. PICK g : flights' = {g} /\ g.kind = "load"
    BY <1>1, <2>1, WaitingVisit
  <2>3. modal'.kind = None /\ Acts
    BY <2>1 DEF Visit, Closed
  <2>4. QED
    BY <1>2, <2>2, <2>3 DEF Change1, Change, None
<1>5. CASE CloseDialog \/ UNCHANGED vars
  <2>1. UNCHANGED << flights, hist, resources >> /\ (modal' = modal \/ modal'.kind = None)
    BY <1>5 DEF CloseDialog, vars, server, Closed
  <2>2. QED
    BY <1>1, <2>1 DEF Change1, Change, Matches, None
<1>6. ASSUME NEW r \in Resources, OpenEditResource(r) PROVE Change1'
  <2>1. Acts /\ UNCHANGED << flights, resources >> /\ page.name = "list" /\ shown.found
    BY <1>6 DEF OpenEditResource, On, server
  <2>2. PICK x \in Rows(r) : modal' = [kind |-> "updateResource", item |-> r, address |-> x.address]
    BY <1>6 DEF OpenEditResource
  <2>3. x \in shown.items /\ x.id = r
    BY <2>2 DEF Rows
  <2>4. x.address = resources[r].address
    BY <1>1, <1>2, <1>3, <2>1, <2>3, RowIs
  <2>5. flights' = {} /\ modal'.item = r /\ modal'.address = resources[r].address
    BY <1>2, <2>1, <2>2, <2>4
  <2>6. QED
    BY <1>2, <2>1, <2>5 DEF Change1, Matches
<1>7. CASE Sends
  <2>1. PICK f, m, b : Send(f, m, b) /\ OfPage(f) /\ Sendable(f, m, b)
    BY <1>7 DEF Sends
  <2>2. Acts /\ flights' = {f} /\ UNCHANGED << page, shown, resources, rules >> /\ modal' = m
    BY <1>1, <2>1, WaitingSend DEF Send, server
  <2>3. m.kind = "updateResource" => f.kind = "updateResource"
    BY <2>1 DEF Sendable
  <2>4. f.kind = "updateResource" /\ f.kept => Matches(f.item, f.data)
    BY <1>1, <1>2, <2>1, <2>2 DEF Sendable, Change1
  <2>5. f.kind = "setResourceFirewallStatus" => f.data # resources[f.item].fw
    <3>1. SUFFICES ASSUME f.kind = "setResourceFirewallStatus" PROVE f.data # resources[f.item].fw
      OBVIOUS
    <3>2. page.name = "list" /\ shown.found
      BY <2>1, <3>1 DEF OfPage, Sendable, ResourceCalls
    <3>3. PICK x \in shown.items : x.id = f.item /\ f.data # x.fw
      BY <2>1, <3>1 DEF Sendable
    <3>4. QED
      BY <1>1, <1>2, <1>3, <2>2, <3>2, <3>3, RowIs
  <2>6. Change(f)'
    BY <2>2, <2>4, <2>5 DEF Change, Matches
  <2>7. QED
    BY <1>2, <2>2, <2>3, <2>6 DEF Change1
<1>8. ASSUME NEW f \in flights, Serve(f) PROVE Change1'
  BY <1>0, <1>1, <1>8, ChangeServe
<1>9. ASSUME NEW f \in flights, Answer(f) PROVE Change1'
  BY <1>0, <1>1, <1>9, ChangeAnswer
<1>10. QED
  BY <1>1, <1>4, <1>5, <1>6, <1>7, <1>8, <1>9, ClickForms DEF Next

-----------------------------------------------------------------------------
(* The theorems.                                                           *)

LEMMA InitInv == ASSUME Init PROVE IInv
<1>1. PICK g : g = Call("load", None, None, 0)
  OBVIOUS
<1>2. flights = {g} /\ Fields(g) /\ g.kind = "load" /\ g.got = Nothing /\ g.st = "sent" /\ g.at = "here"
  BY <1>1 DEF Init, Call, Fields
<1>3. PICK a : a = CHOOSE d \in Addresses : TRUE
  OBVIOUS
<1>4. a \in Addresses
  BY <1>3, ResourcePagesAssumption
<1>5. PICK o : o = CHOOSE r \in Resources \ NewResources : TRUE
  OBVIOUS
<1>6. o \in Resources /\ o \notin NewResources
  BY <1>5, ResourcePagesAssumption
<1>7. resources = [r \in Resources |-> [st |-> IF r \in NewResources THEN "unborn" ELSE "live", address |-> a, fw |-> "unprotected"]]
  BY <1>3 DEF Init
<1>8. rules = [x \in Rules |-> IF x \in NewRules THEN "unborn" ELSE o]
  BY <1>5 DEF Init
<1>9. page.name = "list" /\ page.res = None /\ loading = TRUE /\ shown = Nothing /\ counts = {} /\ modal.kind = None /\ busy = None
  BY DEF Init, Closed
<1>10. /\ hist \in Histories /\ ~hist.undone /\ ~hist.idle
  BY DEF Init, Histories
<1>11. TypeOK
  BY <1>4, <1>6, <1>7, <1>8, <1>9 DEF TypeOK, FirewallStatus
<1>12. RequestOK(g) /\ OfPage(g)
  BY <1>2, NothingOK DEF RequestOK, OfPage, Reads, ResourceCalls, RuleCalls
<1>13. Shapes
  BY <1>2, <1>9, <1>10, <1>11, <1>12, NothingOK DEF Shapes, PageOK, None
<1>14. NoOrphanRules
  BY <1>6, <1>7, <1>8, ResourcePagesAssumption DEF NoOrphanRules, Present
<1>15. BusyInv /\ OneRequest /\ CountsTrue
  BY <1>2, <1>9 DEF BusyInv, OneRequest, CountsTrue
<1>16. AloneInv
  BY <1>2, <1>9 DEF AloneInv, AloneReq, RuleCalls
<1>17. TrueInv
  BY <1>2 DEF TrueInv, PageInStep, Reads1, RuleCalls
<1>18. ChangeInv
  BY <1>2, <1>9, <1>10 DEF ChangeInv, Change, None
<1>19. QED
  BY <1>13, <1>14, <1>15, <1>16, <1>17, <1>18 DEF IInv

LEMMA Inductive == Spec => []IInv
<1>1. Init => IInv
  BY InitInv
<1>2. IInv /\ [Next]_vars => IInv'
  BY ShapesStep, BusyStep, OneStep, SoundStep, CountsStep, TrueStep, ChangeStep DEF IInv
<1>3. QED
  BY <1>1, <1>2, PTL DEF Spec

\* The tables keep their shape, and to an administrator who waits for answers
\* no rule names a resource that is gone, although the deletion of a resource
\* is several statements and may stop between them (ui_resources.go 229-241).
THEOREM TablesOKTheorem == Spec => []TablesOK
<1>1. IInv => TablesOK
  BY DEF IInv, Shapes, TablesOK
<1>2. QED
  BY <1>1, Inductive, PTL

\* A page at rest shows the tables, except for the rules whose DELETE or
\* COMMIT failed without the handler saying so (ui_access_rules.go 104 and
\* 140), and the counts are those of the rules shown
\* (access-rules-table.tsx 63-111, ResourceDetailPage.tsx 93-96).
THEOREM PageIsTrueTheorem == Spec => []PageIsTrue
<1>1. IInv => PageIsTrue
  <2>1. SUFFICES ASSUME IInv PROVE PageInStep /\ CountsInStep
    BY DEF PageIsTrue
  <2>2. PageInStep
    BY <2>1 DEF IInv, TrueInv, PageInStep
  <2>3. CountsInStep
    BY <2>1 DEF IInv, CountsTrue, CountsInStep
  <2>4. QED
    BY <2>2, <2>3
<1>2. QED
  BY <1>1, Inductive, PTL

\* A row or a dialog does not undo a change of a field the user did not touch,
\* and the firewall switch changes the status (edit-resource-modal.tsx 64-93,
\* resources-list.tsx 40-46).
THEOREM NothingUnaskedTheorem == Spec => []NothingUnasked
<1>1. IInv => NothingUnasked
  BY DEF IInv, ChangeInv, NothingUnasked, UntouchedFieldKept, ToggleFlips
<1>2. QED
  BY <1>1, Inductive, PTL

\* A row is disabled only while a request about it is under way
\* (resources-list.tsx 33-51, access-rules-table.tsx 42, 96-109).
THEOREM BusyMeansOutstandingTheorem == Spec => []BusyMeansOutstanding
<1>1. IInv => BusyMeansOutstanding
  BY DEF IInv, BusyInv, Holds, BusyMeansOutstanding
<1>2. QED
  BY <1>1, Inductive, PTL
=============================================================================
