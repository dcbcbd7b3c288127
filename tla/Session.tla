------------------------------- MODULE Session -------------------------------
(***************************************************************************)
(* Signing in to the console: one browser tab with its address, its        *)
(* session storage and the token in local storage; the pages of login,     *)
(* signup, workspace choice and workspace creation; the guards in front of *)
(* /app and /dashboard; and the answers of the workspace requests, which   *)
(* arrive whenever they do, also after the user has gone to another page.  *)
(* A page's effect runs once after the page is shown.  A client-side       *)
(* navigation keeps the continuations of outstanding requests alive; a     *)
(* full page load drops them, while the server may still serve them.       *)
(***************************************************************************)
EXTENDS Naturals, FiniteSets

CONSTANTS
    Slugs,        \* network URLs a user may ask for
    NewSlugs,     \* workspaces that do not exist yet
    Grades,       \* roles a member may have: the column takes any text
    MaxAttempts,  \* bound on submissions of the signup form
    MaxFlights,   \* bound on outstanding requests
    MaxLoads,     \* bound on reloads and typed addresses
    MaxGrants     \* bound on invitations redeemed and roles changed by others

None == "none"  \* no slug, no workspace

ASSUME SessionAssumption ==
    /\ Slugs # {} /\ None \notin Slugs /\ MaxAttempts \in Nat /\ MaxFlights \in Nat /\ MaxLoads \in Nat
    /\ MaxGrants \in Nat /\ NewSlugs \subseteq Slugs /\ {"owner", "member"} \subseteq Grades
    /\ None \notin Grades /\ {"free", "foreign"} \cap Grades = {}

VARIABLES
    token,      \* localStorage authToken
    route,      \* the page shown
    params,     \* ?token=, ws_slug and signup_id of the address
    fresh,      \* the page's effect has not run yet
    signup,     \* sessionStorage ztna_signup_state
    processed,  \* sessionStorage ztna_signup_processed:<attempt>
    capture,    \* TokenCapture's state: "idle", "processing" or "error"
    flights,    \* requests sent and not finished
    roles,      \* server: the user's standing in a workspace, and every role it ever gave or signed
    hist        \* counters (posts: requests of an attempt not answered by an error), signing out

vars == << token, route, params, fresh, signup, processed, capture, flights, roles, hist >>

Attempts == 1 .. MaxAttempts
Public == {"login", "capture", "signup", "customize", "finalize", "auth", "workspaces", "create"}
Routes == Public \cup {"oauth", "app", "dashboard"}

\* A standing is a role, or why there is none: the workspace does not exist,
\* or the user is not in it.
Standings == Grades \cup {"free", "foreign"}

\* A token: none, one without workspace claims, or one for a workspace.
NoToken == [ws |-> None, role |-> None, is |-> FALSE]
Bare == [ws |-> None, role |-> None, is |-> TRUE]
For(ws, role) == [ws |-> ws, role |-> role, is |-> TRUE]
\* Requests whose answer may store a token.
Signing == {"capture", "create", "select", "switch"}

NoParams == [token |-> NoToken, slug |-> None, attempt |-> 0]
Blank == [email |-> FALSE, slug |-> None, attempt |-> 0]

\* getWorkspaceClaims succeeds.
HasClaims(tok) == tok.ws # None
AdminToken(tok) == tok.role \in {"owner", "admin"}

\* The page a token leads to after sign-in, on / and on /login.
Landing(tok) ==
    CASE ~HasClaims(tok)      -> "workspaces"
      [] tok.role = "member"  -> "app"
      [] OTHER                -> "dashboard"

\* navigate(): the page changes, requests live on.
Navigate(r) ==
    /\ route' = r /\ fresh' = TRUE /\ params' = NoParams
    /\ capture' = IF route = "capture" /\ r # "capture" THEN "idle" ELSE capture

\* The requests left after a full load: nobody waits for them, and only
\* one that the server has yet to serve and that creates a workspace still
\* has an effect.
Orphaned(fs) == { [f EXCEPT !.alive = FALSE] :
                      f \in { g \in fs : g.st = "sent" /\ g.kind \in {"capture", "create"} } }

\* A full load of a page: no continuation of an outstanding request runs.
Load(r, p) ==
    /\ route' = r /\ fresh' = TRUE /\ params' = p /\ capture' = "idle"
    /\ flights' = Orphaned(flights)

Stay == UNCHANGED << route, params, capture >>

Flight(kind, ws, attempt) ==
    [kind |-> kind, ws |-> ws, attempt |-> attempt, st |-> "sent", got |-> NoToken, alive |-> TRUE]

\* The user starts a request.
Send(f) == /\ Cardinality(flights) < MaxFlights /\ f \notin flights
           /\ flights' = flights \cup {f}

Alive(kinds) == { f \in flights : f.alive /\ f.kind \in kinds }

-----------------------------------------------------------------------------
(* The effects of the pages.                                               *)

\* Mutant: a pending attempt sends its request again.
CaptureEffectAgain ==
    LET slug == IF params.slug # None THEN params.slug ELSE signup.slug
        att  == IF params.attempt # 0 THEN params.attempt ELSE signup.attempt IN
    /\ route = "capture" /\ fresh
    /\ \/ /\ ~params.token.is
          /\ Navigate("workspaces")
          /\ UNCHANGED << token, signup, processed, flights, hist >>
       \/ /\ params.token.is /\ slug = None
          /\ token' = params.token /\ signup' = Blank
          /\ Navigate(Landing(params.token))
          /\ UNCHANGED << processed, flights, hist >>
       \/ /\ params.token.is /\ slug # None /\ processed[att] = "done"
          /\ token' = params.token /\ signup' = Blank
          /\ Navigate("dashboard")
          /\ UNCHANGED << processed, flights, hist >>
       \/ /\ params.token.is /\ slug # None /\ processed[att] # "done"
          /\ token' = params.token
          /\ processed' = [processed EXCEPT ![att] = "pending"]
          /\ fresh' = FALSE /\ capture' = "processing"
          /\ flights' = flights \cup {Flight("capture", slug, att)}
          /\ hist' = [hist EXCEPT !.posts[att] = @ + 1]
          /\ UNCHANGED << route, params, signup >>
    /\ UNCHANGED roles

\* TokenCapture on /: store the token, then land, or create the workspace
\* the signup asked for, once per attempt.  The comparison of signup_id with
\* the stored attempt compares signup_id with itself and never fails.
CaptureEffect ==
    LET slug == IF params.slug # None THEN params.slug ELSE signup.slug
        att  == IF params.attempt # 0 THEN params.attempt ELSE signup.attempt IN
    /\ route = "capture" /\ fresh
    /\ \/ /\ ~params.token.is
          /\ Navigate("workspaces")
          /\ UNCHANGED << token, signup, processed, flights, hist >>
       \/ /\ params.token.is /\ slug = None
          /\ token' = params.token /\ signup' = Blank
          /\ Navigate(Landing(params.token))
          /\ UNCHANGED << processed, flights, hist >>
       \/ /\ params.token.is /\ slug # None /\ processed[att] = "pending"
          /\ token' = params.token
          /\ fresh' = FALSE /\ capture' = "processing"
          /\ UNCHANGED << route, params, signup, processed, flights, hist >>
       \/ /\ params.token.is /\ slug # None /\ processed[att] = "done"
          /\ token' = params.token /\ signup' = Blank
          /\ Navigate("dashboard")
          /\ UNCHANGED << processed, flights, hist >>
       \/ /\ params.token.is /\ slug # None /\ processed[att] = "new"
          /\ token' = params.token
          /\ processed' = [processed EXCEPT ![att] = "pending"]
          /\ fresh' = FALSE /\ capture' = "processing"
          /\ flights' = flights \cup {Flight("capture", slug, att)}
          /\ hist' = [hist EXCEPT !.posts[att] = @ + 1]
          /\ UNCHANGED << route, params, signup >>
    /\ UNCHANGED roles

\* Mutant: a visit without a token goes back to the workspaces.
LoginEffectBounce ==
    /\ route = "login" /\ fresh
    /\ Navigate(IF params.token.is THEN Landing(params.token) ELSE "workspaces")
    /\ token' = IF params.token.is THEN params.token ELSE token
    /\ UNCHANGED << signup, processed, flights, roles, hist >>

\* LoginPage: a token in the address is stored and routed by role.
LoginEffect ==
    /\ route = "login" /\ fresh
    /\ IF params.token.is
       THEN token' = params.token /\ Navigate(Landing(params.token))
       ELSE fresh' = FALSE /\ Stay /\ UNCHANGED token
    /\ UNCHANGED << signup, processed, flights, roles, hist >>

\* Mutant: a member's token is let through.
AuthGuardAnyRole ==
    /\ route = "dashboard" /\ fresh
    /\ IF ~token.is THEN Navigate("login")
       ELSE IF ~HasClaims(token) THEN Navigate("workspaces")
       ELSE fresh' = FALSE /\ Stay
    /\ UNCHANGED << token, signup, processed, flights, roles, hist >>

\* AuthGuard in front of every /dashboard page.
AuthGuard ==
    /\ route = "dashboard" /\ fresh
    /\ IF ~token.is THEN Navigate("login")
       ELSE IF ~HasClaims(token) THEN Navigate("workspaces")
       ELSE IF token.role = "member" THEN Navigate("app")
       ELSE fresh' = FALSE /\ Stay
    /\ UNCHANGED << token, signup, processed, flights, roles, hist >>

\* WelcomePage stores the token an invitation came back with.
Welcomed == IF params.token.is THEN params.token ELSE token

\* UserAuthGuard in front of /app; the effect of the welcome page, its child,
\* runs before.
UserAuthGuard ==
    LET tok == Welcomed IN
    /\ route = "app" /\ fresh
    /\ token' = tok
    /\ IF ~tok.is THEN Navigate("login")
       ELSE IF ~HasClaims(tok) THEN Navigate("workspaces")
       ELSE fresh' = FALSE /\ params' = NoParams /\ UNCHANGED << route, capture >>
    /\ UNCHANGED << signup, processed, flights, roles, hist >>

\* WorkspaceSelectorPage: no token, no list.
SelectorEffect ==
    /\ route = "workspaces" /\ fresh
    /\ IF ~token.is THEN Navigate("login") ELSE fresh' = FALSE /\ Stay
    /\ UNCHANGED << token, signup, processed, flights, roles, hist >>

\* The steps of the signup send a user who skipped one back to its start.
SignupGuard ==
    /\ route \in {"signup", "customize", "finalize", "auth"} /\ fresh
    /\ IF \/ route = "customize" /\ ~signup.email
          \/ route \in {"finalize", "auth"} /\ (~signup.email \/ signup.slug = None)
       THEN Navigate("signup") ELSE fresh' = FALSE /\ Stay
    /\ UNCHANGED << token, signup, processed, flights, roles, hist >>

CreateEffect ==
    /\ route = "create" /\ fresh
    /\ fresh' = FALSE /\ Stay
    /\ UNCHANGED << token, signup, processed, flights, roles, hist >>

Effect == CaptureEffect \/ LoginEffect \/ AuthGuard \/ UserAuthGuard \/ SelectorEffect
              \/ SignupGuard \/ CreateEffect

-----------------------------------------------------------------------------
(* What the user does on a page whose effect has run.                      *)

At(r) == route = r /\ ~fresh

\* The lookup by slug or e-mail finds a network and leaves for the provider.
LoginSubmit ==
    /\ At("login")
    /\ Load("oauth", NoParams)
    /\ UNCHANGED << token, signup, processed, roles, hist >>

SignupLink ==
    /\ At("login")
    /\ Load("signup", NoParams)
    /\ UNCHANGED << token, signup, processed, roles, hist >>

SignupSubmit ==
    /\ At("signup")
    /\ signup' = [signup EXCEPT !.email = TRUE]
    /\ Navigate("customize")
    /\ UNCHANGED << token, processed, flights, roles, hist >>

\* Every submission of the form is a new attempt.
CustomizeSubmit(slug) ==
    /\ At("customize") /\ hist.attempts < MaxAttempts
    /\ signup' = [signup EXCEPT !.slug = slug, !.attempt = hist.attempts + 1]
    /\ hist' = [hist EXCEPT !.attempts = @ + 1]
    /\ Navigate("finalize")
    /\ UNCHANGED << token, processed, flights, roles >>

FinalizeNext ==
    /\ At("finalize")
    /\ Navigate("auth")
    /\ UNCHANGED << token, signup, processed, flights, roles, hist >>

\* The Back buttons: navigate(-1), to the step before.
SignupBack ==
    /\ At("customize") \/ At("finalize")
    /\ Navigate(IF route = "customize" THEN "signup" ELSE "customize")
    /\ UNCHANGED << token, signup, processed, flights, roles, hist >>

\* handleOAuth: the signup's slug and attempt travel with the redirect.
AuthProvider ==
    /\ At("auth")
    /\ Load("oauth", [token |-> NoToken, slug |-> signup.slug, attempt |-> signup.attempt])
    /\ UNCHANGED << token, signup, processed, roles, hist >>

\* The provider's callback: an ordinary login returns to /, a redeemed
\* invitation to /app/welcome with a workspace token.
OAuthReturn ==
    /\ route = "oauth"
    /\ Load("capture", [params EXCEPT !.token = Bare])
    /\ hist' = [hist EXCEPT !.signedOut = FALSE]
    /\ UNCHANGED << token, signup, processed, roles >>

\* An invitation is signed into the token with the role it was written with,
\* whatever that is.  It becomes the user's role only if the user is not in
\* the workspace yet (ON CONFLICT DO NOTHING); an error of that statement is
\* logged and the token is signed all the same.
InviteReturn(ws, role) ==
    /\ route = "oauth" /\ hist.grants < MaxGrants /\ roles[ws].now # "free"
    /\ \E now \in {roles[ws].now} \cup (IF roles[ws].now = "foreign" THEN {role} ELSE {}) :
           roles' = [roles EXCEPT ![ws] = [now |-> now, ever |-> @.ever \cup {role}]]
    /\ Load("app", [NoParams EXCEPT !.token = For(ws, role)])
    /\ hist' = [hist EXCEPT !.signedOut = FALSE, !.grants = @ + 1]
    /\ UNCHANGED << token, signup, processed >>

\* Somebody else adds the user to a workspace, changes the role or removes
\* the user; these handlers check the role they are given.
Regrade(ws, to) ==
    /\ to \in (Grades \cap {"owner", "admin", "member"}) \cup {"foreign"}
    /\ hist.grants < MaxGrants /\ roles[ws].now \notin {"free", to}
    /\ roles' = [roles EXCEPT ![ws] = [now |-> to, ever |-> @.ever \cup ({to} \cap Grades)]]
    /\ hist' = [hist EXCEPT !.grants = @ + 1]
    /\ UNCHANGED << token, route, params, fresh, signup, processed, capture, flights >>

\* selectWorkspace of the selector page, from the list it once read.
Select(ws) ==
    /\ At("workspaces") /\ roles[ws].ever # {}
    /\ Send(Flight("select", ws, 0))
    /\ UNCHANGED << token, route, params, fresh, signup, processed, capture, roles, hist >>

\* WorkspaceSwitcher in the dashboard.
Switch(ws) ==
    /\ At("dashboard") /\ roles[ws].ever # {} /\ ws # token.ws
    /\ Send(Flight("switch", ws, 0))
    /\ UNCHANGED << token, route, params, fresh, signup, processed, capture, roles, hist >>

GoCreate ==
    /\ route \in {"workspaces", "dashboard"} /\ ~fresh
    /\ Navigate("create")
    /\ UNCHANGED << token, signup, processed, flights, roles, hist >>

\* The form is disabled while its own request is outstanding; leaving the
\* page and coming back mounts a new form.
CreateSubmit(slug) ==
    /\ At("create")
    /\ IF token.is
       THEN Send(Flight("create", slug, 0)) /\ Stay /\ UNCHANGED fresh
       ELSE Navigate("login") /\ UNCHANGED flights
    /\ UNCHANGED << token, signup, processed, roles, hist >>

BackToWorkspaces ==
    /\ \/ At("create")
       \/ route = "capture" /\ capture = "error"
    /\ Navigate("workspaces")
    /\ UNCHANGED << token, signup, processed, flights, roles, hist >>

\* The sign-out buttons of the dashboard's header and of /app: the request is
\* awaited before anything else happens.
Logout ==
    /\ At("dashboard")
    /\ Send(Flight("logout", None, 0))
    /\ UNCHANGED << token, route, params, fresh, signup, processed, capture, roles, hist >>

UserLogout ==
    /\ At("app")
    /\ Send(Flight("userLogout", None, 0))
    /\ UNCHANGED << token, route, params, fresh, signup, processed, capture, roles, hist >>

\* /app offers an administrator the dashboard.
AppToDashboard ==
    /\ At("app") /\ AdminToken(token)
    /\ Navigate("dashboard")
    /\ UNCHANGED << token, signup, processed, flights, roles, hist >>

\* The user reloads the page or types an address.
Reload(r) ==
    /\ hist.loads < MaxLoads /\ route # "oauth"
    /\ Load(r, IF r = route THEN params ELSE NoParams)
    /\ hist' = [hist EXCEPT !.loads = @ + 1]
    /\ UNCHANGED << token, signup, processed, roles >>

User ==
    \/ LoginSubmit \/ SignupLink \/ SignupSubmit \/ FinalizeNext \/ SignupBack \/ AuthProvider
    \/ OAuthReturn \/ GoCreate \/ BackToWorkspaces \/ Logout \/ UserLogout \/ AppToDashboard
    \/ \E s \in Slugs : CustomizeSubmit(s) \/ Select(s) \/ Switch(s) \/ CreateSubmit(s)
    \/ \E s \in Slugs, role \in Grades : InviteReturn(s, role)
    \/ \E r \in {route, "dashboard", "app"} : Reload(r)

-----------------------------------------------------------------------------
(* The server behind the proxy, and the continuations of its answers.      *)

\* A request is done: its answer goes to the page that waits for it, if any.
Finish(f, g) == flights' = (flights \ {f}) \cup (IF f.alive THEN {g} ELSE {})

\* The workspace is created, then its owner is added, then the token is
\* signed: a failure at each stage leaves what came before, and the answer may
\* be lost on the way through the proxy.
ServeCreate(f) ==
    /\ f.kind \in {"capture", "create"} /\ roles[f.ws].now = "free"
    /\ \/ /\ roles' = [roles EXCEPT ![f.ws] = [now |-> "owner", ever |-> @.ever \cup {"owner"}]]
          /\ \/ Finish(f, [f EXCEPT !.st = "ok", !.got = For(f.ws, "owner")])
             \/ Finish(f, [f EXCEPT !.st = "failed"])
       \/ /\ roles' = [roles EXCEPT ![f.ws] = [@ EXCEPT !.now = "foreign"]]
          /\ Finish(f, [f EXCEPT !.st = "failed"])

ServeSelect(f) ==
    /\ f.kind \in {"select", "switch"} /\ roles[f.ws].now \in Grades
    /\ Finish(f, [f EXCEPT !.st = "ok", !.got = For(f.ws, roles[f.ws].now)])
    /\ UNCHANGED roles

\* The proxy answers 500 for every error of the controller, 409 included.
ServeFails(f) == Finish(f, [f EXCEPT !.st = "failed"]) /\ UNCHANGED roles

Serve(f) ==
    /\ f \in flights /\ f.st = "sent" /\ f.kind \in Signing
    /\ ServeCreate(f) \/ ServeSelect(f) \/ ServeFails(f)
    /\ UNCHANGED << token, route, params, fresh, signup, processed, capture, hist >>

CaptureAnswer(f) ==
    /\ f \in Alive({"capture"}) /\ f.st # "sent"
    /\ IF f.st = "ok"
       THEN /\ token' = f.got /\ signup' = Blank
            /\ processed' = [processed EXCEPT ![f.attempt] = "done"]
            /\ Navigate("dashboard")
            /\ UNCHANGED hist
       ELSE /\ processed' = [processed EXCEPT ![f.attempt] = "new"]
            /\ capture' = "error"
            /\ hist' = [hist EXCEPT !.posts[f.attempt] = @ - 1]
            /\ UNCHANGED << token, route, params, fresh, signup >>
    /\ flights' = flights \ {f}
    /\ UNCHANGED roles

CreateAnswer(f) ==
    /\ f \in Alive({"create"}) /\ f.st # "sent"
    /\ flights' = flights \ {f}
    /\ IF f.st = "ok"
       THEN token' = f.got /\ Navigate("dashboard")
       ELSE UNCHANGED << token, route, params, fresh, capture >>
    /\ UNCHANGED << signup, processed, roles, hist >>

SelectAnswer(f) ==
    /\ f \in Alive({"select"}) /\ f.st # "sent"
    /\ flights' = flights \ {f}
    /\ IF f.st = "ok"
       THEN token' = f.got /\ Navigate(IF f.got.role = "member" THEN "app" ELSE "dashboard")
       ELSE UNCHANGED << token, route, params, fresh, capture >>
    /\ UNCHANGED << signup, processed, roles, hist >>

\* window.location.reload() after the token was replaced.
SwitchAnswer(f) ==
    /\ f \in Alive({"switch"}) /\ f.st # "sent"
    /\ IF f.st = "ok"
       THEN /\ token' = f.got
            /\ route' = route /\ fresh' = TRUE /\ params' = params /\ capture' = "idle"
            /\ flights' = Orphaned(flights \ {f})
       ELSE /\ flights' = flights \ {f}
            /\ UNCHANGED << token, route, params, fresh, capture >>
    /\ UNCHANGED << signup, processed, roles, hist >>

\* Header: whether the request is answered or fails, the token goes and a full load follows.
LogoutAnswer(f) ==
    /\ f \in Alive({"logout"})
    /\ token' = NoToken
    /\ route' = "login" /\ fresh' = TRUE /\ params' = NoParams /\ capture' = "idle"
    /\ flights' = Orphaned(flights \ {f})
    /\ hist' = [hist EXCEPT !.signedOut = TRUE, !.late = FALSE]
    /\ UNCHANGED << signup, processed, roles >>

\* Mutant: the token is left in local storage.
UserLogoutAnswerKeeps(f) ==
    /\ f \in Alive({"userLogout"})
    /\ flights' = flights \ {f}
    /\ Navigate("login")
    /\ hist' = [hist EXCEPT !.signedOut = TRUE,
                            !.late = \E g \in flights : g.alive /\ g.kind \in Signing]
    /\ UNCHANGED << token, signup, processed, roles >>

\* UserLayout: a client-side navigation, which leaves other requests alive.
UserLogoutAnswer(f) ==
    /\ f \in Alive({"userLogout"})
    /\ token' = NoToken
    /\ flights' = flights \ {f}
    /\ Navigate("login")
    /\ hist' = [hist EXCEPT !.signedOut = TRUE,
                            !.late = \E g \in flights : g.alive /\ g.kind \in Signing]
    /\ UNCHANGED << signup, processed, roles >>

Answer(f) == CaptureAnswer(f) \/ CreateAnswer(f) \/ SelectAnswer(f) \/ SwitchAnswer(f)
                 \/ LogoutAnswer(f) \/ UserLogoutAnswer(f)

-----------------------------------------------------------------------------
\* A first visit: the user has no token and is in some of the workspaces.
Init ==
    /\ token = NoToken /\ route = "capture" /\ params = NoParams /\ fresh = TRUE
    /\ signup = Blank /\ capture = "idle" /\ flights = {}
    /\ processed = [a \in Attempts |-> "new"]
    /\ \E now \in [Slugs -> {"free", "member", "foreign"}] :
        /\ \A s \in Slugs : now[s] = "free" <=> s \in NewSlugs
        /\ roles = [s \in Slugs |-> [now |-> now[s], ever |-> {now[s]} \cap Grades]]
    /\ hist = [attempts |-> 0, loads |-> 0, grants |-> 0, signedOut |-> FALSE, late |-> FALSE,
               posts |-> [a \in Attempts |-> 0]]

Next ==
    \/ Effect
    \/ User
    \/ \E ws \in Slugs, to \in Standings : Regrade(ws, to)
    \/ \E f \in flights : Serve(f) \/ Answer(f)

\* React runs a page's effect; the proxy answers every request it gets.
Fairness ==
    /\ WF_vars(Effect)
    /\ WF_vars(\E f \in flights : Serve(f))
    /\ WF_vars(\E f \in flights : Answer(f))

Spec == Init /\ [][Next]_vars
FairSpec == Spec /\ Fairness

-----------------------------------------------------------------------------
(* Properties.                                                             *)

Tokens == {NoToken, Bare} \cup { For(ws, r) : ws \in Slugs, r \in Grades }

TypeOK ==
    /\ token \in Tokens /\ route \in Routes /\ fresh \in BOOLEAN
    /\ params.token \in Tokens
    /\ processed \in [Attempts -> {"new", "pending", "done"}]
    /\ capture \in {"idle", "processing", "error"}
    /\ roles \in [Slugs -> [now : Standings, ever : SUBSET Grades]]

\* A token's role is one that the server gave the user in that workspace, or
\* signed for an invitation to it.
Granted(tok) == HasClaims(tok) => tok.role \in roles[tok.ws].ever

\* A dashboard page whose guard has run is shown to a token of some workspace
\* with a role other than member, and that role was given to the user there,
\* whichever answers of earlier requests arrived in the meantime
\* (src/App.tsx 204-230).  It need not be owner or admin, and need not be the
\* user's role any more.
DashboardIsGuarded == At("dashboard") => HasClaims(token) /\ token.role # "member" /\ Granted(token)

\* The tab's address, storage and token keep their shape, and no page behind
\* the guard is shown without its claims.
Guarded == TypeOK /\ DashboardIsGuarded

\* However often the callback page is loaded, an attempt sends a second
\* request only after the first was answered with an error
\* (src/App.tsx 121-135).
OneCreatePerAttempt == \A a \in Attempts : hist.posts[a] <= 1

\* A user who signed out has no token again before a new sign-in, unless a
\* request for a token was outstanding when the token was removed: its answer
\* stores one whoever waits for it (UserLayout.tsx 13-24).
SignOutHolds == (hist.signedOut /\ ~hist.late) => ~token.is

\* Redirects end: no guard sends the user in circles.
Settles == []<>(~fresh \/ route = "oauth")
=============================================================================
