------------------------------ MODULE GroupPages ------------------------------
(***************************************************************************)
(* The console's pages on groups and users: the list of groups, a group    *)
(* with its members and resources, the list of users, and their dialogs.   *)
(* One tab shows one page at a time; a change is a request whose           *)
(* continuation closes over what the page showed when it was sent.  A page *)
(* that loads shows a spinner instead of its sections, which unmounts them *)
(* and their dialogs.  Leaving a page does not stop its requests: the      *)
(* server still serves them, nobody waits for the answer.  The proxy adds  *)
(* members one by one.  Another administrator changes the same tables.     *)
(***************************************************************************)
EXTENDS Integers

CONSTANTS
    Users, Groups, Resources,  \* identifiers, of rows that exist or will
    NewUsers, NewGroups,       \* those of rows still to be added
    MaxOps,                    \* bound on the requests and visits of both
    MaxOther                   \* bound on those of the other administrator

ASSUME GroupPagesAssumption ==
    /\ NewUsers \subseteq Users /\ NewGroups \subseteq Groups
    /\ MaxOps \in Nat /\ MaxOther \in Nat

VARIABLES
    users,    \* table users: "unborn", "active", "inactive" or "deleted"
    groups,   \* table user_groups: "unborn", "live" or "deleted"
    member,   \* table user_group_members
    grants,   \* groups with an access rule on a resource
    page,     \* the page mounted and, on a group's page, the group
    loading,  \* the page shows its spinner
    shown,    \* the data the page holds
    modal,    \* the dialog that is open
    deleting, \* the row whose removal is disabled
    flights,  \* requests outstanding
    hist      \* bounds, and what the properties ask about the past

server == << users, groups, member, grants >>
tab == << page, loading, shown, modal, deleting >>
groupVars == << users, groups, member, grants, page, loading, shown, modal, deleting, flights, hist >>

None == "none"
Statuses == {"active", "inactive"}
Present == { u \in Users : users[u] \in Statuses }
LiveGroups == { g \in Groups : groups[g] = "live" }

-----------------------------------------------------------------------------
(* What the pages read.                                                    *)

Nothing == [found |-> FALSE, items |-> {}, res |-> {}]

\* GET /api/groups.
GroupsView == [found |-> TRUE, items |-> LiveGroups, res |-> {}]

\* A row of a group's member list names the user "id"; the proxy looks for
\* "user_id" or "userId" and skips a row that has neither.
MemberRow(u) == [id |-> u]
UserIdOf(row) == CASE "user_id" \in DOMAIN row -> row.user_id
                   [] "userId" \in DOMAIN row -> row.userId
                   [] OTHER -> None

\* The groups the proxy puts with each user.
UserGroups == { p \in Users \X LiveGroups :
                    \E v \in Present : << p[2], v >> \in member /\ UserIdOf(MemberRow(v)) = p[1] }

\* GET /api/users, with each user's status and groups.
UsersView == [found |-> TRUE, items |-> { << u, users[u] >> : u \in Present }, res |-> UserGroups]

\* GET /api/groups/:id: members that are users, resources by access rule.
GroupView(g) ==
    IF g \in LiveGroups
    THEN [found |-> TRUE,
          items |-> { u \in Present : << g, u >> \in member },
          res   |-> { r \in Resources : << g, r >> \in grants }]
    ELSE Nothing

View(p) ==
    CASE p.name = "groups" -> GroupsView
      [] p.name = "users"  -> UsersView
      [] p.name = "group"  -> GroupView(p.group)

-----------------------------------------------------------------------------
(* Requests, pages and dialogs.                                            *)

\* A dialog has the name of the call it makes.
Closed == [kind |-> None, item |-> None, status |-> None, subjects |-> {}]
Dialog(kind, item) == [Closed EXCEPT !.kind = kind, !.item = item]

\* The calls of the API client that change a group, its members or a user.
GroupCalls == {"addGroup", "updateGroup", "deleteGroup", "addGroupResources"}
MemberCalls == {"updateGroupMembers", "removeGroupMember"}
UserCalls == {"addUser", "updateUser", "deactivateUser", "deleteUser"}
Reads == {"load", "getUser", "refresh"}

\* A request: n tells it from others like it, todo are the members still to
\* add, then is the list the continuation will show, got what a read
\* returned.  at: the component that waits is still there ("here"), only its
\* page is, or nobody waits ("gone").
Call(kind, g, u, n) ==
    [kind |-> kind, g |-> g, u |-> u, n |-> n, todo |-> {}, then |-> {}, status |-> None,
     kept |-> FALSE, got |-> Nothing, st |-> "sent", at |-> "here"]

Request(kind, g, u) ==
    LET used == { f.n : f \in { x \in flights : x.kind = kind } } IN
    Call(kind, g, u, CHOOSE n \in 0 .. MaxOps + 1 : n \notin used /\ \A k \in 0 .. n - 1 : k \in used)

\* The dialog's button is disabled until its request is answered.
Saving(kind) == \E f \in flights : f.kind = kind /\ f.at = "here"

\* Something the user does; overlap records that an answer was outstanding.
Acts == /\ hist.ops < MaxOps
        /\ hist' = [hist EXCEPT !.ops = @ + 1, !.overlap = @ \/ flights # {}]

\* A link of the sidebar or of a list leads to another page.
Visit(p) ==
    /\ page # p /\ Acts
    /\ page' = p /\ loading' = TRUE /\ shown' = Nothing /\ modal' = Closed /\ deleting' = None
    /\ flights' = { [f EXCEPT !.at = "gone"] : f \in { x \in flights : x.kind \notin Reads /\ x.st = "sent" } }
                      \cup {Request("load", None, None)}
    /\ UNCHANGED server

OpenGroupsPage == Visit([name |-> "groups", group |-> None])
OpenUsersPage == Visit([name |-> "users", group |-> None])
OpenGroupPage(g) == page.name = "groups" /\ ~loading /\ g \in shown.items
                    /\ Visit([name |-> "group", group |-> g])

On(name) == page.name = name /\ ~loading /\ shown.found
Idle == modal.kind = None

\* The user sends a request, with dialog m open.
SendRequest(f, m) ==
    /\ Acts
    /\ flights' = flights \cup {f}
    /\ modal' = m
    /\ deleting' = IF f.kind = "removeGroupMember" THEN f.u ELSE deleting
    /\ UNCHANGED << page, loading, shown >> /\ UNCHANGED server

\* The same from a dialog, whose button must not be disabled.
Submit(f, m) == ~Saving(f.kind) /\ SendRequest(f, m)

Open(m) == /\ Acts /\ modal' = m
           /\ UNCHANGED << page, loading, shown, deleting, flights >> /\ UNCHANGED server

\* Esc closes a dialog, also while its request is outstanding.
CloseDialog ==
    /\ ~Idle /\ ~loading
    /\ modal' = Closed
    /\ UNCHANGED << page, loading, shown, deleting, flights, hist >> /\ UNCHANGED server

-----------------------------------------------------------------------------
(* The groups page.                                                        *)

AddGroup(g) == /\ On("groups") /\ Idle /\ groups[g] = "unborn"
               /\ Submit(Request("addGroup", g, None), Dialog("addGroup", g))

\* Edit of the row's menu opens the dialog on the group the page holds.
OpenEditGroup(g) == On("groups") /\ Idle /\ g \in shown.items /\ Open(Dialog("updateGroup", g))

UpdateGroup == /\ On("groups") /\ modal.kind = "updateGroup"
               /\ Submit(Request("updateGroup", modal.item, None), modal)

DeleteGroup(g) == /\ On("groups") /\ Idle /\ g \in shown.items
                  /\ SendRequest(Request("deleteGroup", g, None), modal)

-----------------------------------------------------------------------------
(* The page of a group.                                                    *)

\* The picker's subjects, loaded when the dialog opens; the service offers
\* every user there is then.
Subjects == Present

OpenAddMembers == On("group") /\ Idle /\ Open([Dialog("updateGroupMembers", None) EXCEPT !.subjects = Subjects])

\* The picker leaves out the members the page shows.
Pickable == modal.subjects \ shown.items

\* handleSave: the request names the members shown as well as those picked.
AddMembers(picks) ==
    /\ On("group") /\ modal.kind = "updateGroupMembers"
    /\ picks # {} /\ picks \subseteq Pickable
    /\ Submit([Request("updateGroupMembers", page.group, None) EXCEPT
                   !.todo = shown.items \cup picks, !.then = shown.items \cup picks,
                   !.got = [Nothing EXCEPT !.items = picks]],
              modal)

\* Mutant: the list without the member is shown only after the next load.
RemoveMemberKeeps(u) ==
    /\ On("group") /\ Idle /\ u \in shown.items
    /\ SendRequest([Request("removeGroupMember", page.group, u) EXCEPT !.then = shown.items], modal)

RemoveMember(u) ==
    /\ On("group") /\ Idle /\ u \in shown.items /\ deleting # u
    /\ SendRequest([Request("removeGroupMember", page.group, u) EXCEPT !.then = shown.items \ {u}], modal)

\* The section reads the user before it opens the dialog.
EditMember(u) == /\ On("group") /\ Idle /\ u \in shown.items
                 /\ SendRequest(Request("getUser", None, u), modal)

DeactivateMember(u) == /\ On("group") /\ Idle /\ u \in shown.items
                       /\ SendRequest(Request("deactivateUser", None, u), modal)

DeleteMember(u) ==
    /\ On("group") /\ Idle /\ u \in shown.items
    /\ SendRequest([Request("deleteUser", None, u) EXCEPT !.then = shown.items \ {u}], modal)

AddResources(r) ==
    /\ On("group") /\ Idle
    /\ Submit([Request("addGroupResources", page.group, r) EXCEPT !.then = shown.items],
              Dialog("addGroupResources", r))

-----------------------------------------------------------------------------
(* The users page, and the dialog on a user of both pages.                 *)

AddUser(u, s) ==
    /\ On("users") /\ Idle /\ users[u] = "unborn"
    /\ Submit([Request("addUser", None, u) EXCEPT !.status = s], Dialog("addUser", u))

OpenEditUser(u, s) ==
    On("users") /\ Idle /\ << u, s >> \in shown.items /\ Open([Dialog("updateUser", u) EXCEPT !.status = s])

\* Save sends every field of the form, those the user did not touch as the
\* page knew them when the dialog opened.
UpdateUser(s) ==
    /\ ~loading /\ modal.kind = "updateUser"
    /\ Submit([Request("updateUser", None, modal.item) EXCEPT !.status = s, !.kept = (s = modal.status),
                                                                !.then = shown.items],
              modal)

DeactivateUser(u) == /\ On("users") /\ Idle /\ << u, "active" >> \in shown.items
                     /\ SendRequest(Request("deactivateUser", None, u), modal)

DeleteUser(u) == /\ On("users") /\ Idle /\ \E s \in Statuses : << u, s >> \in shown.items
                 /\ SendRequest(Request("deleteUser", None, u), modal)

-----------------------------------------------------------------------------
(* The controller behind the proxy.                                        *)

\* A request is served; one nobody waits for is gone then.
Served(f, g) == flights' = (flights \ {f}) \cup (IF f.at = "gone" THEN {} ELSE {g})
Ok(f) == Served(f, [f EXCEPT !.st = "ok"])

\* The requests that take a user out of a group.
Removal(f) == f.kind \in {"removeGroupMember", "deleteUser"}

Sent(f, kinds) == f \in flights /\ f.st = "sent" /\ f.kind \in kinds

ServeRead(f) ==
    /\ Sent(f, Reads)
    /\ Served(f, [f EXCEPT !.st = "ok",
                           !.got = IF f.kind = "load" THEN View(page) ELSE Nothing,
                           !.status = IF f.u \in Present THEN users[f.u] ELSE None])
    /\ (f.kind # "load" => f.u \in Present)
    /\ UNCHANGED hist /\ UNCHANGED server

ServeGroup(f) ==
    /\ Sent(f, GroupCalls) /\ Ok(f)
    /\ CASE f.kind = "addGroup"    -> /\ groups[f.g] = "unborn"
                                      /\ groups' = [groups EXCEPT ![f.g] = "live"] /\ UNCHANGED << member, grants >>
         [] f.kind = "updateGroup" -> f.g \in LiveGroups /\ UNCHANGED << groups, member, grants >>
         [] f.kind = "deleteGroup" -> /\ groups' = [groups EXCEPT ![f.g] = "deleted"]
                                      /\ member' = { m \in member : m[1] # f.g }
                                      /\ grants' = { m \in grants : m[1] # f.g }
         [] OTHER                  -> grants' = grants \cup {<< f.g, f.u >>} /\ UNCHANGED << groups, member >>
    /\ UNCHANGED << users, hist >>

\* Mutant: an error of one addition is skipped.
ServeAddMembersSkips(f) ==
    /\ Sent(f, {"updateGroupMembers"})
    /\ \E u \in f.todo, done \in BOOLEAN :
          LET g == [f EXCEPT !.todo = @ \ {u}, !.st = IF f.todo = {u} THEN "ok" ELSE "sent"] IN
          /\ member' = IF done THEN member \cup {<< f.g, u >>} ELSE member
          /\ IF g.st = "ok" THEN Served(f, g) ELSE flights' = (flights \ {f}) \cup {g}
    /\ UNCHANGED << users, groups, grants, hist >>

\* One addition of the proxy's loop: the shown members come first.  Neither
\* the group nor the user has to exist.
ServeAddMembers(f) ==
    /\ Sent(f, {"updateGroupMembers"})
    /\ \E u \in f.todo :
          LET g == [f EXCEPT !.todo = @ \ {u}, !.st = IF f.todo = {u} THEN "ok" ELSE "sent"] IN
          /\ (u \in f.got.items => f.todo \subseteq f.got.items)
          /\ member' = member \cup {<< f.g, u >>}
          /\ hist' = [hist EXCEPT !.surprise = @ \cup ({u} \ { v \in Users : v \in f.got.items \/ << f.g, v >> \in member })]
          /\ IF g.st = "ok" THEN Served(f, g) ELSE flights' = (flights \ {f}) \cup {g}
    /\ UNCHANGED << users, groups, grants >>

ServeRemoveMember(f) ==
    /\ Sent(f, {"removeGroupMember"}) /\ Ok(f)
    /\ member' = member \ {<< f.g, f.u >>}
    /\ UNCHANGED << users, groups, grants, hist >>

\* Mutant: the user's memberships stay.
ServeUserKeeps(f) ==
    /\ Sent(f, UserCalls) /\ Ok(f)
    /\ (f.kind = "addUser" => users[f.u] = "unborn")
    /\ (f.kind \in {"updateUser", "deactivateUser"} => f.u \in Present)
    /\ users' = [users EXCEPT ![f.u] = CASE f.kind = "deleteUser" -> "deleted"
                                         [] f.kind = "deactivateUser" -> "inactive"
                                         [] OTHER -> f.status]
    /\ UNCHANGED << groups, member, grants, hist >>

\* A change of an unknown user is an error; a deletion takes the
\* memberships along.
ServeUser(f) ==
    /\ Sent(f, UserCalls) /\ Ok(f)
    /\ (f.kind = "addUser" => users[f.u] = "unborn")
    /\ (f.kind \in {"updateUser", "deactivateUser"} => f.u \in Present)
    /\ users' = [users EXCEPT ![f.u] = CASE f.kind = "deleteUser" -> "deleted"
                                         [] f.kind = "deactivateUser" -> "inactive"
                                         [] OTHER -> f.status]
    /\ member' = IF f.kind = "deleteUser" THEN { m \in member : m[2] # f.u } ELSE member
    /\ hist' = [hist EXCEPT !.flipped = @ \/ (f.kind = "updateUser" /\ f.kept /\ users[f.u] # f.status)]
    /\ UNCHANGED << groups, grants >>

\* The controller, the proxy or the network fails before the request is
\* served, or between two additions of the loop: the answer is an error.
ServeFails(f) ==
    /\ f \in flights /\ f.st = "sent"
    /\ Served(f, [f EXCEPT !.st = "failed"])
    /\ hist' = [hist EXCEPT !.failed = TRUE]
    /\ UNCHANGED server

\* The controller carried the request out and the answer is lost between it,
\* the proxy and the tab, which sees an error.
LoseAnswer(f) ==
    /\ f \in flights /\ f.st = "ok"
    /\ flights' = (flights \ {f}) \cup {[f EXCEPT !.st = "failed"]}
    /\ hist' = [hist EXCEPT !.failed = TRUE, !.lost = @ \cup (IF Removal(f) THEN {f.u} ELSE {})]
    /\ UNCHANGED server

Serve(f) == /\ ServeRead(f) \/ ServeGroup(f) \/ ServeAddMembers(f) \/ ServeRemoveMember(f) \/ ServeUser(f)
                  \/ ServeFails(f) \/ LoseAnswer(f)
            /\ UNCHANGED tab

-----------------------------------------------------------------------------
(* The continuations.                                                      *)

Answered(f, kinds) == f \in flights /\ f.st # "sent" /\ f.kind \in kinds
CloseIf(kind) == modal' = IF modal.kind = kind THEN Closed ELSE modal

\* The page asks for its data again: the spinner replaces its sections.
\* What a section kept, its dialog on a user too, is lost, what the page
\* keeps stays.
Remount(f) ==
    /\ loading' = TRUE /\ deleting' = None
    /\ flights' = { [x EXCEPT !.at = IF @ = "here" THEN "page" ELSE @] :
                        x \in { y \in flights \ {f} : y.kind # "getUser" } }
                      \cup {Request("load", None, None)}
    /\ modal' = IF modal.kind = f.kind \/ (page.name = "group" /\ modal.kind = "updateUser")
                THEN Closed ELSE modal

\* The data replaces what the page held; an error leaves it as it was.
LoadAnswer(f) ==
    /\ Answered(f, {"load"})
    /\ flights' = flights \ {f}
    /\ loading' = FALSE
    /\ shown' = IF f.st = "ok" THEN f.got ELSE shown
    /\ UNCHANGED << page, modal, deleting >>

\* The lists, and a group's resources: the page asks for its data again and
\* the dialog closes; an error leaves the dialog open.
ListAnswer(f) ==
    /\ Answered(f, (GroupCalls \cup UserCalls))
    /\ page.name # "group" \/ f.kind = "addGroupResources"
    /\ IF f.st = "ok" THEN Remount(f) ELSE flights' = flights \ {f} /\ UNCHANGED << loading, modal, deleting >>
    /\ UNCHANGED << page, shown >>

AddMembersAnswer(f) ==
    /\ Answered(f, {"updateGroupMembers"})
    /\ flights' = flights \ {f}
    /\ IF f.st = "ok"
       THEN shown' = [shown EXCEPT !.items = f.then] /\ CloseIf(f.kind)
       ELSE UNCHANGED << shown, modal >>
    /\ UNCHANGED << page, loading, deleting >>

\* The section's removals show the list they closed over, without the user.
RemoveAnswer(f) ==
    /\ Answered(f, {"removeGroupMember", "deleteUser"}) /\ page.name = "group"
    /\ flights' = flights \ {f}
    /\ shown' = IF f.st = "ok" THEN [shown EXCEPT !.items = f.then] ELSE shown
    /\ deleting' = IF f.kind = "removeGroupMember" /\ f.at = "here" THEN None ELSE deleting
    /\ UNCHANGED << page, loading, modal >>

\* A deactivation on the group's page changes nothing it shows.
DeactivateAnswer(f) ==
    /\ Answered(f, {"deactivateUser"}) /\ page.name = "group"
    /\ flights' = flights \ {f}
    /\ UNCHANGED tab

EditAnswer(f) ==
    /\ Answered(f, {"getUser"})
    /\ flights' = flights \ {f}
    /\ modal' = IF f.st = "ok" THEN [Dialog("updateUser", f.u) EXCEPT !.status = f.status] ELSE modal
    /\ UNCHANGED << page, loading, shown, deleting >>

\* The section reads the user again and shows the list it closed over.
UpdateAnswer(f) ==
    /\ Answered(f, {"updateUser"}) /\ page.name = "group"
    /\ IF f.st = "ok"
       THEN /\ flights' = (flights \ {f}) \cup {[Request("refresh", None, f.u) EXCEPT !.then = f.then]}
            /\ IF f.at = "here" THEN CloseIf(f.kind) ELSE UNCHANGED modal
       ELSE flights' = flights \ {f} /\ UNCHANGED modal
    /\ UNCHANGED << page, loading, shown, deleting >>

RefreshAnswer(f) ==
    /\ Answered(f, {"refresh"})
    /\ flights' = flights \ {f}
    /\ shown' = IF f.st = "ok" THEN [shown EXCEPT !.items = f.then] ELSE shown
    /\ UNCHANGED << page, loading, modal, deleting >>

Answer(f) == /\ LoadAnswer(f) \/ ListAnswer(f) \/ AddMembersAnswer(f) \/ RemoveAnswer(f)
                   \/ DeactivateAnswer(f) \/ EditAnswer(f) \/ UpdateAnswer(f) \/ RefreshAnswer(f)
             /\ UNCHANGED hist /\ UNCHANGED server

-----------------------------------------------------------------------------
\* Another administrator's requests, one at a time.
Other ==
    /\ hist.other < MaxOther /\ hist.ops < MaxOps
    /\ hist' = [hist EXCEPT !.other = @ + 1, !.ops = @ + 1]
    /\ \/ \E g \in LiveGroups, u \in Present :
             member' \in {member \cup {<< g, u >>}, member \ {<< g, u >>}} /\ UNCHANGED << users, groups, grants >>
       \/ \E u \in Present : users' = [users EXCEPT ![u] = "inactive"] /\ UNCHANGED << groups, member, grants >>
    /\ UNCHANGED << page, loading, shown, modal, deleting, flights >>

GroupInit ==
    /\ users = [u \in Users |-> IF u \in NewUsers THEN "unborn" ELSE "active"]
    /\ groups = [g \in Groups |-> IF g \in NewGroups THEN "unborn" ELSE "live"]
    /\ member \in SUBSET (LiveGroups \X Present) /\ grants = {}
    /\ page = [name |-> "groups", group |-> None] /\ loading = TRUE /\ shown = Nothing /\ modal = Closed
    /\ deleting = None
    /\ hist = [ops |-> 0, other |-> 0, overlap |-> FALSE, failed |-> FALSE, surprise |-> {}, lost |-> {},
               flipped |-> FALSE]
    /\ flights = {Call("load", None, None, 0)}

Click ==
    \/ OpenGroupsPage \/ OpenUsersPage \/ CloseDialog \/ UpdateGroup \/ OpenAddMembers
    \/ \E g \in Groups : OpenGroupPage(g) \/ AddGroup(g) \/ OpenEditGroup(g) \/ DeleteGroup(g)
    \/ \E picks \in SUBSET Users : AddMembers(picks)
    \/ \E r \in Resources : AddResources(r)
    \/ \E u \in Users : \/ RemoveMember(u) \/ EditMember(u) \/ DeactivateMember(u) \/ DeleteMember(u)
                        \/ DeactivateUser(u) \/ DeleteUser(u)
    \/ \E u \in Users, s \in Statuses : AddUser(u, s) \/ OpenEditUser(u, s)
    \/ \E s \in Statuses : UpdateUser(s)

GroupNext == Click \/ Other \/ \E f \in flights : Serve(f) \/ Answer(f)

GroupSpec == GroupInit /\ [][GroupNext]_groupVars

-----------------------------------------------------------------------------
(* Properties.                                                             *)

\* One administrator, who waits for each answer; and no request failed.
Alone == ~hist.overlap /\ hist.other = 0
Calm == Alone /\ ~hist.failed

GroupTypeOK ==
    /\ users \in [Users -> Statuses \cup {"unborn", "deleted"}]
    /\ groups \in [Groups -> {"unborn", "live", "deleted"}]
    /\ member \subseteq Groups \X Users /\ grants \subseteq Groups \X Resources
    /\ page.name \in {"groups", "group", "users"} /\ page.group \in Groups \cup {None}
    /\ loading \in BOOLEAN

\* To an administrator who waits for answers that all arrive, a page at
\* rest shows what a fresh read of the tables would, although the group's page never reads its members again after a
\* change but shows the list the change closed over
\* (group-members-section.tsx 47-116, add-members-modal.tsx 60-69).
PageInStep == (Calm /\ flights = {} /\ shown.found) => shown = View(page)

\* Although a request to add members names all members shown, one who waits
\* for answers puts nobody into a group who was not picked, even when
\* requests fail before they are served or halfway.  The one exception is
\* somebody whose removal was served and its answer lost: the page still
\* shows them (add-members-modal.tsx 52-57, groups.ts 121-129).
OnlyPickedAdded == Alone => hist.surprise \subseteq hist.lost

\* A dialog's untouched status does not overwrite the status of the user,
\* under the same conditions (edit-user-modal.tsx 31-47).
UntouchedStatusKept == Calm => ~hist.flipped

\* A dialog or a list that is older than the tables changes nothing the
\* administrator did not ask for.
NothingUnasked == OnlyPickedAdded /\ UntouchedStatusKept

\* Memberships are of groups and users that exist, although no key of the
\* tables enforces it, the loop of additions may stop anywhere and answers
\* may be lost; except those of a user whose deletion was served and its
\* answer lost (handlers_users.go 260-275, user.go 94-112 and 225).
NoOrphanMembers == Alone => \A m \in member : m[1] \in LiveGroups /\ m[2] \in Present \cup hist.lost

\* The tables keep their shape and their references.
TablesOK == GroupTypeOK /\ NoOrphanMembers

\* The users page puts with each user the groups the user belongs to
\* (lib/types.ts:20, users-list.tsx 70-74).
GroupsColumn == (Calm /\ flights = {} /\ page.name = "users" /\ shown.found) =>
                    shown.res = { p \in Present \X LiveGroups : << p[2], p[1] >> \in member }

=============================================================================
