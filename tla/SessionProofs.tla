----------------------------- MODULE SessionProofs -----------------------------
(***************************************************************************)
(* Proofs about Session for any workspaces and bounds.                     *)
(***************************************************************************)
EXTENDS Session, TLAPS

Params == [token : Tokens, slug : Slugs \cup {None}, attempt : 0 .. MaxAttempts]
Signups == [email : BOOLEAN, slug : Slugs \cup {None}, attempt : 0 .. MaxAttempts]
Flights == [kind : Signing \cup {"logout", "userLogout"}, ws : Slugs \cup {None}, attempt : 0 .. MaxAttempts,
            st : {"sent", "ok", "failed"}, got : Tokens, alive : BOOLEAN]
Histories == [attempts : 0 .. MaxAttempts, loads : Nat, grants : Nat, signedOut : BOOLEAN, late : BOOLEAN,
              posts : [Attempts -> Nat]]
Memberships == [now : Standings, ever : SUBSET Grades]

\* A slug and the attempt that asked for it go together: in the address, in the
\* session storage and in a request of the callback page.
Paired(p) == p.slug = None <=> p.attempt = 0

PageOK == route \in Routes /\ fresh \in BOOLEAN /\ params \in Params /\ Paired(params)
SignupOK == signup \in Signups /\ Paired(signup)
Formed(f) == (f.kind = "capture" => f.attempt # 0) /\ (f.kind \in Signing => f.ws \in Slugs)
FlightsOK == flights \subseteq Flights /\ \A f \in flights : Formed(f)
RestOK == /\ token \in Tokens /\ capture \in {"idle", "processing", "error"}
          /\ processed \in [Attempts -> {"new", "pending", "done"}]
          /\ roles \in [Slugs -> Memberships]

\* The shape of the whole state.
Shapes == PageOK /\ SignupOK /\ FlightsOK /\ RestOK /\ hist \in Histories

\* An attempt has sent a request that was not answered by an error exactly when
\* it is marked.
PostsMarked == \A a \in Attempts : hist.posts[a] = IF processed[a] = "new" THEN 0 ELSE 1

\* An attempt whose request is waited for is pending, and waits for one only.
Waits(f) == f \in flights /\ f.alive /\ f.kind = "capture"
OneWaiting ==
    \A f \in flights : Waits(f) =>
        /\ processed[f.attempt] = "pending"
        /\ \A g \in flights : Waits(g) /\ g.attempt = f.attempt => g = f

\* Every token there is carries a role that was given: the one in storage, the
\* one in the address and those on their way.
GrantsOK ==
    /\ Granted(token) /\ Granted(params.token) /\ \A f \in flights : Granted(f.got)
    /\ \A ws \in Slugs : roles[ws].now \in Grades => roles[ws].now \in roles[ws].ever

\* Whoever signed out with no request for a token outstanding has none and no
\* token in the address, and is on no page that asks for one.
SignedOut ==
    (hist.signedOut /\ ~hist.late) =>
        /\ ~token.is /\ ~params.token.is
        /\ \A f \in flights : ~(f.alive /\ f.kind \in Signing)
        /\ fresh \/ route \notin {"workspaces", "dashboard", "app"}

IInv == Shapes /\ PostsMarked /\ OneWaiting /\ GrantsOK /\ DashboardIsGuarded /\ SignedOut

-----------------------------------------------------------------------------
(* Tokens, navigation and loads.                                           *)

\* The tokens there are.
LEMMA TokenFacts ==
  /\ NoToken \in Tokens /\ ~NoToken.is /\ Bare \in Tokens
  /\ ~HasClaims(NoToken) /\ ~HasClaims(Bare)
  /\ \A ws \in Slugs : \A r \in Grades : For(ws, r) \in Tokens
  /\ \A tok \in Tokens : tok.is \in BOOLEAN /\ (HasClaims(tok) => tok.ws \in Slugs)
<1>1. /\ NoToken \in Tokens /\ Bare \in Tokens
      /\ \A ws \in Slugs : \A r \in Grades : For(ws, r) \in Tokens
  BY DEF Tokens
<1>2. ~HasClaims(NoToken) /\ ~HasClaims(Bare) /\ ~NoToken.is /\ NoToken.is \in BOOLEAN /\ Bare.is \in BOOLEAN
  BY DEF NoToken, Bare, HasClaims
<1>3. ASSUME NEW tok \in Tokens
      PROVE  tok.is \in BOOLEAN /\ (HasClaims(tok) => tok.ws \in Slugs)
  <2>1. CASE tok = NoToken \/ tok = Bare
    BY <1>2, <2>1
  <2>2. CASE \E ws \in Slugs, r \in Grades : tok = For(ws, r)
    BY <2>2 DEF For
  <2>. QED
    BY <2>1, <2>2 DEF Tokens
<1>. QED
  BY <1>1, <1>2, <1>3

\* An address without parameters.
LEMMA NoParamsFacts == NoParams \in Params /\ Paired(NoParams) /\ NoParams.token = NoToken
  BY TokenFacts, SessionAssumption DEF NoParams, Params, Paired

\* Sign-in leads to a page.
LEMMA LandingRoute == \A tok : Landing(tok) \in Routes
  BY DEF Landing, Routes, Public

\* A navigation keeps the page in shape.
LEMMA NavigateFacts ==
  ASSUME NEW r \in Routes, Navigate(r), RestOK
  PROVE  /\ PageOK' /\ fresh' = TRUE /\ params' = NoParams
         /\ capture' \in {"idle", "processing", "error"}
  BY NoParamsFacts DEF Navigate, PageOK, RestOK

\* After a load nobody waits for an answer.
LEMMA OrphanedFacts ==
  ASSUME NEW fs, fs \subseteq Flights, \A f \in fs : Formed(f)
  PROVE  /\ Orphaned(fs) \subseteq Flights
         /\ \A f \in Orphaned(fs) : ~f.alive /\ Formed(f) /\ \E g \in fs : f.got = g.got
<1>1. ASSUME NEW f \in Orphaned(fs)
      PROVE  f \in Flights /\ ~f.alive /\ Formed(f) /\ \E g \in fs : f.got = g.got
  <2>1. PICK g \in fs : f = [g EXCEPT !.alive = FALSE]
    BY DEF Orphaned
  <2>2. /\ f.kind = g.kind /\ f.attempt = g.attempt /\ f.ws = g.ws /\ f.got = g.got
        /\ f.alive = FALSE /\ f \in Flights
    BY <2>1 DEF Flights
  <2>. QED
    BY <2>2 DEF Formed
<1>. QED
  BY <1>1

\* A load of a page.
LEMMA LoadFacts ==
  ASSUME FlightsOK, NEW r \in Routes, NEW p \in Params, Paired(p), Load(r, p)
  PROVE  /\ PageOK' /\ fresh' = TRUE /\ route' = r /\ params' = p /\ capture' = "idle"
         /\ FlightsOK' /\ \A f \in flights' : ~f.alive
<1>1. flights' \subseteq Flights /\ \A f \in flights' : ~f.alive /\ Formed(f)
  BY OrphanedFacts DEF Load, FlightsOK
<1>. QED
  BY <1>1 DEF Load, PageOK, FlightsOK

-----------------------------------------------------------------------------
(* Shapes.                                                                 *)

\* The attempt of a callback page that has a slug to create.
Slug == IF params.slug # None THEN params.slug ELSE signup.slug
Att == IF params.attempt # 0 THEN params.attempt ELSE signup.attempt

\* It is one that was made.
LEMMA AttemptFacts ==
  ASSUME PageOK, SignupOK, Slug # None
  PROVE  /\ Slug \in Slugs /\ Att \in Attempts /\ Att # 0 /\ Flight("capture", Slug, Att) \in Flights
         /\ Formed(Flight("capture", Slug, Att))
<1>. USE SessionAssumption
<1>1. Slug \in Slugs
  BY DEF Slug, PageOK, SignupOK, Params, Signups
<1>2. Att # 0
  BY DEF Slug, Att, PageOK, SignupOK, Paired
<1>3. Att \in 0 .. MaxAttempts
  BY DEF Att, PageOK, SignupOK, Params, Signups
<1>4. Att \in Attempts
  BY <1>2, <1>3 DEF Attempts
<1>5. Flight("capture", Slug, Att) \in Flights /\ Formed(Flight("capture", Slug, Att))
  BY <1>1, <1>2, <1>3, TokenFacts DEF Flight, Flights, Formed, Signing
<1>. QED
  BY <1>1, <1>2, <1>4, <1>5

\* What the callback page's effect does, by case.
LEMMA CaptureCases ==
  ASSUME CaptureEffect
  PROVE  /\ route = "capture" /\ fresh /\ UNCHANGED roles
         /\ \/ /\ \E r \in Routes : Navigate(r)
               /\ \/ UNCHANGED << token, signup >>
                  \/ params.token.is /\ token' = params.token /\ signup' = Blank
               /\ UNCHANGED << processed, flights, hist >>
            \/ /\ params.token.is /\ token' = params.token /\ fresh' = FALSE /\ capture' = "processing"
               /\ UNCHANGED << route, params, signup, processed, flights, hist >>
            \/ /\ params.token.is /\ Slug # None /\ processed[Att] = "new"
               /\ token' = params.token /\ fresh' = FALSE /\ capture' = "processing"
               /\ processed' = [processed EXCEPT ![Att] = "pending"]
               /\ flights' = flights \cup {Flight("capture", Slug, Att)}
               /\ hist' = [hist EXCEPT !.posts[Att] = @ + 1]
               /\ UNCHANGED << route, params, signup >>
<1>1. Landing(params.token) \in Routes /\ "workspaces" \in Routes /\ "dashboard" \in Routes
  BY LandingRoute DEF Routes, Public
<1>. QED
  BY <1>1 DEF CaptureEffect, Slug, Att

\* Every effect keeps the shapes.
LEMMA EffectShapes == Shapes /\ Effect => Shapes'
<1>. SUFFICES ASSUME Shapes, Effect PROVE Shapes'
  OBVIOUS
<1>. USE SessionAssumption
<1>1. PageOK /\ SignupOK /\ FlightsOK /\ RestOK /\ hist \in Histories
  BY DEF Shapes
<1>2. {"login", "workspaces", "app", "signup", "dashboard"} \subseteq Routes /\ Landing(params.token) \in Routes
  BY LandingRoute DEF Routes, Public
<1>3. params.token \in Tokens
  BY <1>1 DEF PageOK, Params
<1>4. Blank \in Signups /\ Paired(Blank)
  BY DEF Blank, Signups, Paired
<1>5. ASSUME UNCHANGED << signup, flights, roles, hist, processed >>, token' \in {token, params.token},
             (\E r \in Routes : Navigate(r)) \/ (fresh' = FALSE /\ Stay)
      PROVE  Shapes'
  <2>1. token' \in Tokens
    BY <1>1, <1>3, <1>5 DEF RestOK
  <2>2. PageOK' /\ capture' \in {"idle", "processing", "error"}
    <3>1. CASE \E r \in Routes : Navigate(r)
      BY <1>1, <3>1, NavigateFacts
    <3>2. CASE fresh' = FALSE /\ Stay
      BY <1>1, <3>2 DEF Stay, PageOK, RestOK
    <3>. QED
      BY <1>5, <3>1, <3>2
  <2>. QED
    BY <1>1, <1>5, <2>1, <2>2 DEF Shapes, SignupOK, FlightsOK, RestOK
<1>6. CASE CaptureEffect
  <2>1. CASE /\ \E r \in Routes : Navigate(r)
             /\ \/ UNCHANGED << token, signup >>
                \/ params.token.is /\ token' = params.token /\ signup' = Blank
             /\ UNCHANGED << processed, flights, hist, roles >>
    <3>1. PageOK' /\ capture' \in {"idle", "processing", "error"}
      BY <1>1, <2>1, NavigateFacts
    <3>2. SignupOK'
      BY <1>1, <1>4, <2>1 DEF SignupOK
    <3>. QED
      BY <1>1, <1>3, <2>1, <3>1, <3>2 DEF Shapes, FlightsOK, RestOK
  <2>2. CASE /\ token' = params.token /\ fresh' = FALSE /\ capture' = "processing"
             /\ UNCHANGED << route, params, signup, processed, flights, hist, roles >>
    BY <1>1, <1>3, <2>2 DEF Shapes, PageOK, SignupOK, FlightsOK, RestOK
  <2>3. CASE /\ Slug # None
             /\ token' = params.token /\ fresh' = FALSE /\ capture' = "processing"
             /\ processed' = [processed EXCEPT ![Att] = "pending"]
             /\ flights' = flights \cup {Flight("capture", Slug, Att)}
             /\ hist' = [hist EXCEPT !.posts[Att] = @ + 1]
             /\ UNCHANGED << route, params, signup, roles >>
    <3>1. /\ Att \in Attempts /\ Att # 0 /\ Flight("capture", Slug, Att) \in Flights
          /\ Formed(Flight("capture", Slug, Att))
      BY <1>1, <2>3, AttemptFacts
    <3>3. FlightsOK'
      BY <1>1, <2>3, <3>1 DEF FlightsOK
    <3>4. hist' \in Histories
      BY <1>1, <2>3, <3>1 DEF Histories
    <3>5. RestOK'
      BY <1>1, <1>3, <2>3 DEF RestOK
    <3>. QED
      BY <1>1, <2>3, <3>3, <3>4, <3>5 DEF Shapes, PageOK, SignupOK
  <2>. QED
    BY <1>6, <2>1, <2>2, <2>3, CaptureCases
<1>7. CASE LoginEffect
  BY <1>2, <1>5, <1>7 DEF LoginEffect
<1>8. CASE AuthGuard
  BY <1>2, <1>5, <1>8 DEF AuthGuard
<1>9. CASE UserAuthGuard
  <2>1. CASE \E r \in Routes : Navigate(r)
    BY <1>5, <1>9, <2>1 DEF UserAuthGuard, Welcomed
  <2>2. CASE fresh' = FALSE /\ params' = NoParams /\ UNCHANGED << route, capture >>
    BY <1>1, <1>3, <1>9, <2>2, NoParamsFacts
       DEF UserAuthGuard, Welcomed, Shapes, PageOK, SignupOK, FlightsOK, RestOK
  <2>. QED
    BY <1>2, <1>9, <2>1, <2>2 DEF UserAuthGuard
<1>10. CASE SelectorEffect
  BY <1>2, <1>5, <1>10 DEF SelectorEffect
<1>11. CASE SignupGuard
  BY <1>2, <1>5, <1>11 DEF SignupGuard
<1>12. CASE CreateEffect
  BY <1>5, <1>12 DEF CreateEffect
<1>. QED
  BY <1>6, <1>7, <1>8, <1>9, <1>10, <1>11, <1>12 DEF Effect

\* So does what the user does.
LEMMA UserShapes == Shapes /\ User => Shapes'
<1>. SUFFICES ASSUME Shapes, User PROVE Shapes'
  OBVIOUS
<1>. USE SessionAssumption
<1>1. PageOK /\ SignupOK /\ FlightsOK /\ RestOK /\ hist \in Histories
  BY DEF Shapes
<1>2. /\ {"login", "workspaces", "app", "signup", "dashboard", "oauth", "capture", "create",
          "customize", "finalize", "auth"} \subseteq Routes
  BY DEF Routes, Public
<1>3. ASSUME NEW r \in Routes, NEW p \in Params, Paired(p), Load(r, p), token' \in Tokens,
             UNCHANGED << signup, processed >>, hist' \in Histories,
             roles' \in [Slugs -> Memberships]
      PROVE  Shapes'
  <2>1. PageOK' /\ capture' = "idle" /\ FlightsOK'
    BY <1>1, <1>3, LoadFacts
  <2>. QED
    BY <1>1, <1>3, <2>1 DEF Shapes, SignupOK, RestOK
<1>4. ASSUME NEW r \in Routes, Navigate(r), token' \in Tokens, SignupOK',
             UNCHANGED << processed, flights, roles >>, hist' \in Histories
      PROVE  Shapes'
  <2>1. PageOK' /\ capture' \in {"idle", "processing", "error"}
    BY <1>1, <1>4, NavigateFacts
  <2>. QED
    BY <1>1, <1>4, <2>1 DEF Shapes, FlightsOK, RestOK
<1>5. ASSUME NEW k \in {"create", "select", "switch", "logout", "userLogout"}, NEW ws \in Slugs \cup {None},
             k \in Signing => ws \in Slugs, Send(Flight(k, ws, 0)),
             UNCHANGED << token, route, params, fresh, signup, processed, capture, roles, hist >>
      PROVE  Shapes'
  <2>1. Flight(k, ws, 0) \in Flights /\ Formed(Flight(k, ws, 0))
    BY <1>5, TokenFacts DEF Flight, Flights, Formed, Signing
  <2>2. FlightsOK'
    BY <1>1, <1>5, <2>1 DEF Send, FlightsOK
  <2>. QED
    BY <1>1, <1>5, <2>2 DEF Shapes, PageOK, SignupOK, RestOK
<1>6. token \in Tokens /\ NoToken \in Tokens
  BY <1>1, TokenFacts DEF RestOK
<1>7. CASE LoginSubmit \/ SignupLink
  BY <1>1, <1>2, <1>3, <1>6, <1>7, NoParamsFacts DEF LoginSubmit, SignupLink, RestOK
<1>8. CASE SignupSubmit
  <2>1. SignupOK'
    BY <1>1, <1>8 DEF SignupSubmit, SignupOK, Signups, Paired
  <2>. QED
    BY <1>1, <1>2, <1>4, <1>6, <1>8, <2>1 DEF SignupSubmit
<1>9. ASSUME NEW s \in Slugs, CustomizeSubmit(s) PROVE Shapes'
  <2>1. hist.attempts \in 0 .. MaxAttempts /\ hist.attempts < MaxAttempts
    BY <1>1, <1>9 DEF CustomizeSubmit, Histories
  <2>2. hist.attempts + 1 \in 0 .. MaxAttempts /\ hist.attempts + 1 # 0
    BY <2>1
  <2>3. SignupOK'
    BY <1>1, <1>9, <2>2 DEF CustomizeSubmit, SignupOK, Signups, Paired
  <2>4. hist' \in Histories
    BY <1>1, <1>9, <2>2 DEF CustomizeSubmit, Histories
  <2>. QED
    BY <1>1, <1>2, <1>4, <1>6, <1>9, <2>3, <2>4 DEF CustomizeSubmit
<1>10. CASE FinalizeNext \/ SignupBack \/ GoCreate \/ BackToWorkspaces \/ AppToDashboard
  <2>1. SignupOK'
    BY <1>1, <1>10 DEF FinalizeNext, SignupBack, GoCreate, BackToWorkspaces, AppToDashboard, SignupOK
  <2>. QED
    BY <1>1, <1>2, <1>4, <1>6, <1>10, <2>1
       DEF FinalizeNext, SignupBack, GoCreate, BackToWorkspaces, AppToDashboard
<1>11. CASE AuthProvider
  <2>. DEFINE p == [token |-> NoToken, slug |-> signup.slug, attempt |-> signup.attempt]
  <2>1. p \in Params /\ Paired(p)
    BY <1>1, <1>6 DEF SignupOK, Signups, Params, Paired
  <2>. QED
    BY <1>1, <1>2, <1>3, <1>6, <1>11, <2>1 DEF AuthProvider, RestOK
<1>12. CASE OAuthReturn
  <2>. DEFINE p == [params EXCEPT !.token = Bare]
  <2>1. p \in Params /\ Paired(p)
    BY <1>1, TokenFacts DEF PageOK, Params, Paired
  <2>2. hist' \in Histories
    BY <1>1, <1>12 DEF OAuthReturn, Histories
  <2>. QED
    BY <1>1, <1>2, <1>3, <1>6, <1>12, <2>1, <2>2 DEF OAuthReturn, RestOK
<1>13. ASSUME NEW ws \in Slugs, NEW role \in Grades, InviteReturn(ws, role) PROVE Shapes'
  <2>. DEFINE p == [NoParams EXCEPT !.token = For(ws, role)]
  <2>1. p \in Params /\ Paired(p)
    BY NoParamsFacts, TokenFacts DEF Params, Paired
  <2>2. hist' \in Histories /\ roles' \in [Slugs -> Memberships]
    <3>1. hist' \in Histories
      <4>. DEFINE h == [hist EXCEPT !.signedOut = FALSE]
      <4>1. h \in Histories /\ h.grants = hist.grants
        BY <1>1 DEF Histories
      <4>2. hist' = [h EXCEPT !.grants = h.grants + 1]
        BY <1>13, <4>1 DEF InviteReturn
      <4>. HIDE DEF h
      <4>. QED
        BY <4>1, <4>2 DEF Histories
    <3>2. PICK now \in {roles[ws].now, role} :
              roles' = [roles EXCEPT ![ws] = [now |-> now, ever |-> @.ever \cup {role}]]
      BY <1>13 DEF InviteReturn
    <3>3. roles[ws] \in Memberships
      BY <1>1 DEF RestOK
    <3>4. [now |-> now, ever |-> roles[ws].ever \cup {role}] \in Memberships
      BY <3>3 DEF Memberships, Standings
    <3>. QED
      BY <1>1, <3>1, <3>2, <3>4 DEF RestOK
  <2>. QED
    BY <1>1, <1>2, <1>3, <1>6, <1>13, <2>1, <2>2 DEF InviteReturn
<1>14. ASSUME NEW ws \in Slugs, Select(ws) \/ Switch(ws) PROVE Shapes'
  BY <1>5, <1>14 DEF Select, Switch
<1>15. ASSUME NEW ws \in Slugs, CreateSubmit(ws) PROVE Shapes'
  <2>1. CASE token.is
    BY <1>5, <1>15, <2>1 DEF CreateSubmit, Stay
  <2>2. CASE ~token.is
    <3>1. SignupOK'
      BY <1>1, <1>15 DEF CreateSubmit, SignupOK
    <3>. QED
      BY <1>1, <1>2, <1>4, <1>6, <1>15, <2>2, <3>1 DEF CreateSubmit
  <2>. QED
    BY <2>1, <2>2
<1>16. CASE Logout
  BY <1>5, <1>16 DEF Logout, Signing
<1>17. CASE UserLogout
  BY <1>5, <1>17 DEF UserLogout, Signing
<1>18. ASSUME NEW r \in {route, "dashboard", "app"}, Reload(r) PROVE Shapes'
  <2>. DEFINE p == IF r = route THEN params ELSE NoParams
  <2>1. r \in Routes /\ p \in Params /\ Paired(p)
    BY <1>1, <1>2, NoParamsFacts DEF PageOK
  <2>2. hist' \in Histories
    BY <1>1, <1>18 DEF Reload, Histories
  <2>. QED
    BY <1>1, <1>3, <1>6, <1>18, <2>1, <2>2 DEF Reload, RestOK
<1>. QED
  BY <1>7, <1>8, <1>9, <1>10, <1>11, <1>12, <1>13, <1>14, <1>15, <1>16, <1>17, <1>18 DEF User

\* A request that is served remains the same request.
LEMMA ServeFacts ==
  ASSUME Shapes, NEW f \in flights, Serve(f)
  PROVE  /\ UNCHANGED << token, route, params, fresh, signup, processed, capture, hist >>
         /\ roles' \in [Slugs -> Memberships]
         /\ \E g \in Flights : /\ Finish(f, g)
                               /\ g.kind = f.kind /\ g.attempt = f.attempt /\ g.alive = f.alive /\ g.ws = f.ws
<1>1. f \in Flights /\ f.ws \in Slugs /\ roles \in [Slugs -> Memberships]
  BY DEF Shapes, FlightsOK, RestOK, Formed, Serve
<1>2. [f EXCEPT !.st = "failed"] \in Flights
  BY <1>1 DEF Flights
<1>3. CASE ServeCreate(f)
  <2>1. For(f.ws, "owner") \in Tokens
    BY <1>1, TokenFacts, SessionAssumption
  <2>2. [f EXCEPT !.st = "ok", !.got = For(f.ws, "owner")] \in Flights
    BY <1>1, <2>1 DEF Flights
  <2>3. roles' \in [Slugs -> Memberships]
    BY <1>1, <1>3, SessionAssumption DEF ServeCreate, Memberships, Standings
  <2>4. PICK g \in {[f EXCEPT !.st = "failed"], [f EXCEPT !.st = "ok", !.got = For(f.ws, "owner")]} : Finish(f, g)
    BY <1>3 DEF ServeCreate
  <2>5. g \in Flights /\ g.kind = f.kind /\ g.attempt = f.attempt /\ g.alive = f.alive /\ g.ws = f.ws
    BY <1>1, <1>2, <2>2 DEF Flights
  <2>. QED
    BY <2>3, <2>4, <2>5 DEF Serve
<1>4. CASE ServeSelect(f)
  <2>1. For(f.ws, roles[f.ws].now) \in Tokens
    BY <1>1, <1>4, TokenFacts DEF ServeSelect
  <2>. DEFINE g == [f EXCEPT !.st = "ok", !.got = For(f.ws, roles[f.ws].now)]
  <2>2. g \in Flights /\ g.kind = f.kind /\ g.attempt = f.attempt /\ g.alive = f.alive /\ g.ws = f.ws
    BY <1>1, <2>1 DEF Flights
  <2>. QED
    BY <1>1, <1>4, <2>2 DEF ServeSelect, Serve
<1>5. CASE ServeFails(f)
  <2>. DEFINE g == [f EXCEPT !.st = "failed"]
  <2>1. g \in Flights /\ g.kind = f.kind /\ g.attempt = f.attempt /\ g.alive = f.alive /\ g.ws = f.ws
    BY <1>1 DEF Flights
  <2>. QED
    BY <1>1, <1>5, <2>1 DEF ServeFails, Serve
<1>. QED
  BY <1>3, <1>4, <1>5 DEF Serve

\* Serving keeps the shapes.
LEMMA ServeShapes ==
  ASSUME Shapes, NEW f \in flights, Serve(f)
  PROVE  Shapes'
<1>1. PICK g \in Flights : Finish(f, g) /\ g.kind = f.kind /\ g.attempt = f.attempt /\ g.ws = f.ws
  BY ServeFacts
<1>2. FlightsOK'
  BY <1>1 DEF Finish, Shapes, FlightsOK, Formed
<1>. QED
  BY <1>2, ServeFacts DEF Shapes, PageOK, SignupOK, RestOK

\* The attempt of a request that is waited for has sent one.
LEMMA WaitingFacts ==
  ASSUME Shapes, PostsMarked, OneWaiting, NEW f \in flights, Waits(f)
  PROVE  /\ f.attempt \in Attempts /\ processed[f.attempt] = "pending" /\ hist.posts[f.attempt] = 1
         /\ \A g \in flights : Waits(g) /\ g.attempt = f.attempt => g = f
<1>1. f.attempt \in Attempts
  BY SessionAssumption DEF Shapes, FlightsOK, Flights, Formed, Waits, Attempts
<1>2. processed[f.attempt] = "pending" /\ \A g \in flights : Waits(g) /\ g.attempt = f.attempt => g = f
  BY DEF OneWaiting
<1>3. "pending" # "new"
  OBVIOUS
<1>. QED
  BY <1>1, <1>2, <1>3 DEF PostsMarked

\* So does applying an answer.
LEMMA AnswerShapes ==
  ASSUME Shapes, PostsMarked, OneWaiting, NEW f \in flights, Answer(f)
  PROVE  Shapes'
<1>1. PageOK /\ SignupOK /\ FlightsOK /\ RestOK /\ hist \in Histories /\ f.got \in Tokens
  BY DEF Shapes, FlightsOK, Flights
<1>2. "dashboard" \in Routes /\ "app" \in Routes
  BY DEF Routes, Public
<1>3. Blank \in Signups /\ Paired(Blank)
  BY SessionAssumption DEF Blank, Signups, Paired
<1>4. flights' \subseteq flights => FlightsOK'
  BY <1>1 DEF FlightsOK
<1>5. ASSUME NEW r \in Routes, Navigate(r), token' = f.got, flights' \subseteq flights, SignupOK',
             processed' \in [Attempts -> {"new", "pending", "done"}], UNCHANGED << roles, hist >>
      PROVE  Shapes'
  <2>1. PageOK' /\ capture' \in {"idle", "processing", "error"}
    BY <1>1, <1>5, NavigateFacts
  <2>. QED
    BY <1>1, <1>4, <1>5, <2>1 DEF Shapes, RestOK
<1>6. ASSUME flights' \subseteq flights, UNCHANGED << token, route, params, fresh, capture, signup, processed, roles, hist >>
      PROVE  Shapes'
  BY <1>1, <1>4, <1>6 DEF Shapes, PageOK, SignupOK, RestOK
<1>7. CASE CaptureAnswer(f)
  <2>1. Waits(f) /\ flights' \subseteq flights /\ UNCHANGED roles
    BY <1>7 DEF CaptureAnswer, Alive, Waits
  <2>2. f.attempt \in Attempts /\ hist.posts[f.attempt] = 1
    BY <2>1, WaitingFacts
  <2>3. CASE f.st = "ok"
    <3>1. SignupOK'
      BY <1>3, <1>7, <2>3 DEF CaptureAnswer, SignupOK
    <3>2. processed' \in [Attempts -> {"new", "pending", "done"}]
      BY <1>1, <1>7, <2>3 DEF CaptureAnswer, RestOK
    <3>. QED
      BY <1>2, <1>5, <1>7, <2>1, <2>3, <3>1, <3>2 DEF CaptureAnswer
  <2>4. CASE f.st # "ok"
    <3>1. hist' = [hist EXCEPT !.posts[f.attempt] = 0]
      BY <1>7, <2>2, <2>4 DEF CaptureAnswer
    <3>2. hist' \in Histories
      BY <1>1, <2>2, <3>1 DEF Histories
    <3>3. RestOK'
      BY <1>1, <1>7, <2>4 DEF CaptureAnswer, RestOK
    <3>. QED
      BY <1>1, <1>4, <1>7, <2>1, <2>4, <3>2, <3>3 DEF CaptureAnswer, Shapes, PageOK, SignupOK
  <2>. QED
    BY <2>3, <2>4
<1>8. CASE CreateAnswer(f) \/ SelectAnswer(f)
  <2>1. /\ SignupOK' /\ flights' \subseteq flights
        /\ processed' \in [Attempts -> {"new", "pending", "done"}]
    BY <1>1, <1>8 DEF CreateAnswer, SelectAnswer, SignupOK, RestOK
  <2>2. CASE f.st = "ok"
    BY <1>2, <1>5, <1>8, <2>1, <2>2 DEF CreateAnswer, SelectAnswer
  <2>3. CASE f.st # "ok"
    BY <1>6, <1>8, <2>1, <2>3 DEF CreateAnswer, SelectAnswer
  <2>. QED
    BY <2>2, <2>3
<1>9. CASE SwitchAnswer(f)
  <2>1. CASE f.st = "ok"
    <3>1. FlightsOK'
      <4>1. flights \ {f} \subseteq Flights /\ \A g \in flights \ {f} : Formed(g)
        BY <1>1 DEF FlightsOK
      <4>2. flights' = Orphaned(flights \ {f})
        BY <1>9, <2>1 DEF SwitchAnswer
      <4>. QED
        BY <4>1, <4>2, OrphanedFacts DEF FlightsOK
    <3>. QED
      BY <1>1, <1>9, <2>1, <3>1 DEF SwitchAnswer, Shapes, PageOK, SignupOK, RestOK
  <2>2. CASE f.st # "ok"
    BY <1>6, <1>9, <2>2 DEF SwitchAnswer
  <2>. QED
    BY <2>1, <2>2
<1>10. CASE LogoutAnswer(f)
  <2>1. flights \ {f} \subseteq Flights /\ \A g \in flights \ {f} : Formed(g)
    BY <1>1 DEF FlightsOK
  <2>2. flights' = Orphaned(flights \ {f})
    BY <1>10 DEF LogoutAnswer
  <2>3. FlightsOK'
    BY <2>1, <2>2, OrphanedFacts DEF FlightsOK
  <2>4. hist' \in Histories
    BY <1>1, <1>10 DEF LogoutAnswer, Histories
  <2>5. PageOK' /\ RestOK' /\ SignupOK'
    BY <1>1, <1>10, NoParamsFacts, TokenFacts DEF LogoutAnswer, PageOK, RestOK, SignupOK, Routes, Public
  <2>. QED
    BY <2>3, <2>4, <2>5 DEF Shapes
<1>11. CASE UserLogoutAnswer(f)
  <2>1. "login" \in Routes
    BY DEF Routes, Public
  <2>2. PageOK' /\ capture' \in {"idle", "processing", "error"}
    BY <1>1, <1>11, <2>1, NavigateFacts DEF UserLogoutAnswer
  <2>3. (\E g \in flights : g.alive /\ g.kind \in Signing) \in BOOLEAN
    OBVIOUS
  <2>4. hist' \in Histories
    BY <1>1, <1>11, <2>3 DEF UserLogoutAnswer, Histories
  <2>5. RestOK' /\ SignupOK' /\ FlightsOK'
    BY <1>1, <1>4, <1>11, <2>2, TokenFacts DEF UserLogoutAnswer, RestOK, SignupOK
  <2>. QED
    BY <2>2, <2>4, <2>5 DEF Shapes
<1>. QED
  BY <1>7, <1>8, <1>9, <1>10, <1>11 DEF Answer

\* Every step keeps the shapes.
LEMMA ShapesStep == Shapes /\ PostsMarked /\ OneWaiting /\ [Next]_vars => Shapes'
<1>. SUFFICES ASSUME Shapes, PostsMarked, OneWaiting, [Next]_vars PROVE Shapes'
  OBVIOUS
<1>2. ASSUME NEW ws \in Slugs, NEW to \in Standings, Regrade(ws, to) PROVE Shapes'
  <2>1. hist' \in Histories
    BY <1>2 DEF Regrade, Shapes, Histories
  <2>2. roles' \in [Slugs -> Memberships]
    BY <1>2 DEF Regrade, Shapes, RestOK, Memberships, Standings
  <2>. QED
    BY <1>2, <2>1, <2>2 DEF Regrade, Shapes, PageOK, SignupOK, FlightsOK, RestOK
<1>1. CASE UNCHANGED vars
  BY <1>1 DEF vars, Shapes, PageOK, SignupOK, FlightsOK, RestOK
<1>. QED
  BY <1>1, <1>2, EffectShapes, UserShapes, ServeShapes, AnswerShapes DEF Next

-----------------------------------------------------------------------------
(* One request per attempt.                                                *)

\* What a step of the user does to the storage, the requests and the history.
LEMMA UserCases ==
  ASSUME Shapes, User
  PROVE  /\ processed' = processed /\ hist'.posts = hist.posts
         /\ \/ /\ \E r : Navigate(r)
               /\ UNCHANGED << token, flights, hist.signedOut, hist.late >>
            \/ /\ \E r, p : Load(r, p) /\ (p.token = NoToken \/ p = params)
               /\ UNCHANGED << token, hist.signedOut, hist.late >>
            \/ /\ \E r, p : Load(r, p)
               /\ hist'.signedOut = FALSE /\ UNCHANGED token
            \/ /\ \E ws : \E k \in {"create", "select", "switch", "logout", "userLogout"} :
                     flights' = flights \cup {Flight(k, ws, 0)}
               /\ At("workspaces") \/ At("dashboard") \/ At("app") \/ token.is
               /\ UNCHANGED << token, route, params, fresh, hist >>
<1>1. hist \in Histories /\ NoParams.token = NoToken
  BY NoParamsFacts DEF Shapes
<1>2. CASE SignupSubmit \/ FinalizeNext \/ SignupBack \/ GoCreate \/ BackToWorkspaces \/ AppToDashboard
  BY <1>2 DEF SignupSubmit, FinalizeNext, SignupBack, GoCreate, BackToWorkspaces, AppToDashboard
<1>3. ASSUME NEW s \in Slugs, CustomizeSubmit(s)
      PROVE  /\ processed' = processed /\ hist'.posts = hist.posts
             /\ \E r : Navigate(r)
             /\ UNCHANGED << token, flights, hist.signedOut, hist.late >>
  BY <1>1, <1>3 DEF CustomizeSubmit, Histories
<1>4. CASE LoginSubmit \/ SignupLink \/ AuthProvider
  <2>1. PICK r, p : Load(r, p) /\ p.token = NoToken
    <3>1. [token |-> NoToken, slug |-> signup.slug, attempt |-> signup.attempt].token = NoToken
      OBVIOUS
    <3>. QED
      BY <1>1, <1>4, <3>1 DEF LoginSubmit, SignupLink, AuthProvider
  <2>. QED
    BY <1>4, <2>1 DEF LoginSubmit, SignupLink, AuthProvider
<1>5. ASSUME NEW r, Reload(r)
      PROVE  /\ processed' = processed /\ hist'.posts = hist.posts
             /\ \E q, p : Load(q, p) /\ (p.token = NoToken \/ p = params)
             /\ UNCHANGED << token, hist.signedOut, hist.late >>
  BY <1>1, <1>5 DEF Reload, Histories
<1>6. CASE OAuthReturn \/ \E s \in Slugs, role \in Grades : InviteReturn(s, role)
  BY <1>1, <1>6 DEF OAuthReturn, InviteReturn, Histories
<1>7. CASE Logout \/ UserLogout
  BY <1>7 DEF Logout, UserLogout, Send
<1>9. ASSUME NEW s \in Slugs, Select(s) \/ Switch(s) \/ (CreateSubmit(s) /\ token.is)
      PROVE  /\ UNCHANGED << processed, token, route, params, fresh, hist >>
             /\ \E k \in {"create", "select", "switch", "logout", "userLogout"} :
                    flights' = flights \cup {Flight(k, s, 0)}
             /\ At("workspaces") \/ At("dashboard") \/ At("app") \/ token.is
  BY <1>9 DEF Select, Switch, CreateSubmit, Send, Stay
<1>10. ASSUME NEW s \in Slugs, CreateSubmit(s), ~token.is
       PROVE  UNCHANGED << processed, token, flights, hist >> /\ Navigate("login")
  BY <1>10 DEF CreateSubmit
<1>. QED
  BY <1>2, <1>3, <1>4, <1>5, <1>6, <1>7, <1>9, <1>10 DEF User

\* Attempts stay as they are when no mark changes and no new request is waited
\* for.
LEMMA AttemptFrame ==
  ASSUME PostsMarked, OneWaiting, UNCHANGED processed, hist'.posts = hist.posts,
         \A f \in flights' : f.alive /\ f.kind = "capture" => f \in flights
  PROVE  PostsMarked' /\ OneWaiting'
<1>1. PostsMarked'
  BY DEF PostsMarked
<1>2. OneWaiting'
  BY DEF OneWaiting, Waits
<1>. QED
  BY <1>1, <1>2

\* Every step keeps attempts in order: a mark is set with the request and taken
\* away with its error.
LEMMA AttemptStep == Shapes /\ PostsMarked /\ OneWaiting /\ [Next]_vars => PostsMarked' /\ OneWaiting'
<1>. SUFFICES ASSUME Shapes, PostsMarked, OneWaiting, [Next]_vars PROVE PostsMarked' /\ OneWaiting'
  OBVIOUS
<1>1. /\ PageOK /\ SignupOK /\ FlightsOK /\ hist \in Histories
      /\ processed \in [Attempts -> {"new", "pending", "done"}]
  BY DEF Shapes, RestOK
<1>2. CASE UNCHANGED << processed, flights, hist >>
  BY <1>2, AttemptFrame
<1>3. CASE CaptureEffect
  <2>1. CASE UNCHANGED << processed, flights, hist >>
    BY <1>2, <2>1
  <2>2. CASE /\ Slug # None /\ processed[Att] = "new"
             /\ processed' = [processed EXCEPT ![Att] = "pending"]
             /\ flights' = flights \cup {Flight("capture", Slug, Att)}
             /\ hist' = [hist EXCEPT !.posts[Att] = @ + 1]
    <3>1. Att \in Attempts
      BY <1>1, <2>2, AttemptFacts
    <3>2. /\ hist'.posts[Att] = hist.posts[Att] + 1
          /\ \A a \in Attempts : a # Att => hist'.posts[a] = hist.posts[a]
      BY <1>1, <2>2, <3>1 DEF Histories
    <3>3. processed'[Att] = "pending" /\ \A a \in Attempts : a # Att => processed'[a] = processed[a]
      BY <1>1, <2>2, <3>1
    <3>4. hist.posts[Att] = 0
      BY <2>2, <3>1 DEF PostsMarked
    <3>5. PostsMarked'
      <4>1. hist'.posts[Att] = 1
        BY <3>2, <3>4
      <4>. QED
        BY <3>2, <3>3, <4>1 DEF PostsMarked
    <3>6. Flight("capture", Slug, Att).attempt = Att
      BY DEF Flight
    <3>7. \A f \in flights : Waits(f) => f.attempt # Att /\ f.attempt \in Attempts
      BY <2>2, WaitingFacts
    <3>8. OneWaiting'
      BY <2>2, <3>3, <3>6, <3>7 DEF OneWaiting, Waits
    <3>. QED
      BY <3>5, <3>8
  <2>. QED
    BY <1>3, <2>1, <2>2, CaptureCases
<1>4. CASE Effect /\ ~CaptureEffect
  BY <1>2, <1>4 DEF Effect, LoginEffect, AuthGuard, UserAuthGuard, SelectorEffect, SignupGuard, CreateEffect
<1>5. CASE User
  <2>1. \A f \in Orphaned(flights) : ~f.alive
    BY <1>1, OrphanedFacts DEF FlightsOK
  <2>2. \A k \in {"create", "select", "switch", "logout", "userLogout"} : \A ws : Flight(k, ws, 0).kind # "capture"
    BY DEF Flight
  <2>3. \/ flights' = flights \/ flights' = Orphaned(flights)
        \/ \E ws : \E k \in {"create", "select", "switch", "logout", "userLogout"} :
               flights' = flights \cup {Flight(k, ws, 0)}
    <3>1. \A r, p : Load(r, p) => flights' = Orphaned(flights)
      BY DEF Load
    <3>. QED
      BY <1>5, <3>1, UserCases
  <2>4. \A f \in flights' : f.alive /\ f.kind = "capture" => f \in flights
    BY <2>1, <2>2, <2>3
  <2>. QED
    BY <1>5, <2>4, UserCases, AttemptFrame
<1>6. ASSUME NEW f \in flights, Serve(f) PROVE PostsMarked' /\ OneWaiting'
  <2>1. PICK g \in Flights : Finish(f, g) /\ g.kind = f.kind /\ g.attempt = f.attempt /\ g.alive = f.alive
    BY <1>6, ServeFacts
  <2>2. UNCHANGED << processed, hist >>
    BY <1>6, ServeFacts
  <2>3. PostsMarked'
    BY <2>2 DEF PostsMarked
  <2>4. flights' \subseteq (flights \ {f}) \cup {g}
    BY <2>1 DEF Finish
  <2>5. OneWaiting'
    BY <2>1, <2>2, <2>4 DEF OneWaiting, Waits
  <2>. QED
    BY <2>3, <2>5
<1>7. ASSUME NEW f \in flights, CaptureAnswer(f) PROVE PostsMarked' /\ OneWaiting'
  <2>1. Waits(f) /\ flights' = flights \ {f}
    BY <1>7 DEF CaptureAnswer, Alive, Waits
  <2>2. /\ f.attempt \in Attempts /\ hist.posts[f.attempt] = 1
        /\ \A g \in flights : Waits(g) /\ g.attempt = f.attempt => g = f
    BY <2>1, WaitingFacts
  <2>3. /\ \/ processed'[f.attempt] = "done" /\ hist' = hist
           \/ processed'[f.attempt] = "new" /\ hist' = [hist EXCEPT !.posts[f.attempt] = 0]
        /\ \A a \in Attempts : a # f.attempt => processed'[a] = processed[a]
    <3>1. CASE f.st = "ok"
      BY <1>1, <1>7, <2>2, <3>1 DEF CaptureAnswer
    <3>2. CASE f.st # "ok"
      <4>1. hist' = [hist EXCEPT !.posts[f.attempt] = 0]
        BY <1>7, <2>2, <3>2 DEF CaptureAnswer
      <4>. QED
        BY <1>1, <1>7, <2>2, <3>2, <4>1 DEF CaptureAnswer
    <3>. QED
      BY <3>1, <3>2
  <2>4. \/ hist' = hist /\ processed'[f.attempt] = "done"
        \/ /\ hist'.posts[f.attempt] = 0 /\ processed'[f.attempt] = "new"
           /\ \A a \in Attempts : a # f.attempt => hist'.posts[a] = hist.posts[a]
    BY <1>1, <2>2, <2>3 DEF Histories
  <2>5. PostsMarked'
    <3>1. "done" # "new"
      OBVIOUS
    <3>. QED
      BY <2>2, <2>3, <2>4, <3>1 DEF PostsMarked
  <2>6. \A g \in flights' : g.alive /\ g.kind = "capture" => Waits(g) /\ g.attempt # f.attempt /\ g.attempt \in Attempts
    BY <2>1, <2>2, WaitingFacts DEF Waits
  <2>7. OneWaiting'
    BY <2>1, <2>3, <2>6 DEF OneWaiting, Waits
  <2>. QED
    BY <2>5, <2>7
<1>8. ASSUME NEW f \in flights, \/ CreateAnswer(f) \/ SelectAnswer(f) \/ SwitchAnswer(f)
                              \/ LogoutAnswer(f) \/ UserLogoutAnswer(f)
      PROVE  PostsMarked' /\ OneWaiting'
  <2>1. flights \ {f} \subseteq Flights /\ \A g \in flights \ {f} : Formed(g)
    BY <1>1 DEF FlightsOK
  <2>2. \A g \in Orphaned(flights \ {f}) : ~g.alive
    BY <2>1, OrphanedFacts
  <2>3. \A g \in flights' : g.alive /\ g.kind = "capture" => g \in flights
    BY <1>8, <2>2 DEF CreateAnswer, SelectAnswer, SwitchAnswer, LogoutAnswer, UserLogoutAnswer
  <2>4. UNCHANGED << processed, hist.posts >>
    BY <1>1, <1>8 DEF CreateAnswer, SelectAnswer, SwitchAnswer, LogoutAnswer, UserLogoutAnswer, Histories
  <2>. QED
    BY <2>3, <2>4, AttemptFrame
<1>9. UNCHANGED vars => UNCHANGED << processed, flights, hist >>
  BY DEF vars
<1>10. ASSUME NEW ws \in Slugs, NEW to \in Standings, Regrade(ws, to) PROVE PostsMarked' /\ OneWaiting'
  <2>1. UNCHANGED << processed, flights, hist.posts >>
    BY <1>1, <1>10 DEF Regrade, Histories
  <2>. QED
    BY <2>1, AttemptFrame
<1>. QED
  BY <1>2, <1>3, <1>4, <1>5, <1>6, <1>7, <1>8, <1>9, <1>10 DEF Next, Answer

-----------------------------------------------------------------------------
(* Roles that were given, and the guard of the dashboard.                  *)

\* A workspace forgets no role it gave.
Kept == \A ws \in Slugs : roles[ws].ever \subseteq roles'[ws].ever

\* A token that is good stays good.
LEMMA GrantKept ==
  ASSUME Kept, NEW tok \in Tokens, Granted(tok)
  PROVE  HasClaims(tok) => tok.role \in roles'[tok.ws].ever
  BY TokenFacts DEF Kept, Granted

\* What a step does to the roles.
LEMMA RolesStep ==
  ASSUME Shapes, GrantsOK, [Next]_vars
  PROVE  Kept /\ \A ws \in Slugs : roles'[ws].now \in Grades => roles'[ws].now \in roles'[ws].ever
<1>1. roles \in [Slugs -> Memberships] /\ \A ws \in Slugs : roles[ws].now \in Grades => roles[ws].now \in roles[ws].ever
  BY DEF Shapes, RestOK, GrantsOK
<1>2. CASE UNCHANGED roles
  BY <1>1, <1>2 DEF Kept
<1>3. ASSUME NEW s \in Slugs, NEW now, NEW more,
             now \in Grades => now \in roles[s].ever \cup more,
             roles' = [roles EXCEPT ![s] = [now |-> now, ever |-> @.ever \cup more]]
      PROVE  Kept /\ \A ws \in Slugs : roles'[ws].now \in Grades => roles'[ws].now \in roles'[ws].ever
  <2>1. \A ws \in Slugs : roles'[ws] = IF ws = s THEN [now |-> now, ever |-> roles[s].ever \cup more] ELSE roles[ws]
    BY <1>1, <1>3
  <2>. QED
    BY <1>1, <1>3, <2>1 DEF Kept
<1>4. ASSUME NEW s \in Slugs, NEW role \in Grades, InviteReturn(s, role)
      PROVE  Kept /\ \A ws \in Slugs : roles'[ws].now \in Grades => roles'[ws].now \in roles'[ws].ever
  <2>1. PICK now \in {roles[s].now, role} :
            roles' = [roles EXCEPT ![s] = [now |-> now, ever |-> @.ever \cup {role}]]
    BY <1>4 DEF InviteReturn
  <2>2. now \in Grades => now \in roles[s].ever \cup {role}
    BY <1>1
  <2>. QED
    BY <1>3, <2>1, <2>2
<1>5. ASSUME NEW s \in Slugs, NEW to \in Standings, Regrade(s, to)
      PROVE  Kept /\ \A ws \in Slugs : roles'[ws].now \in Grades => roles'[ws].now \in roles'[ws].ever
  <2>1. roles' = [roles EXCEPT ![s] = [now |-> to, ever |-> @.ever \cup ({to} \cap Grades)]]
    BY <1>5 DEF Regrade
  <2>2. to \in Grades => to \in roles[s].ever \cup ({to} \cap Grades)
    OBVIOUS
  <2>. QED
    BY <1>3, <2>1, <2>2
<1>6. ASSUME NEW f \in flights, Serve(f)
      PROVE  Kept /\ \A ws \in Slugs : roles'[ws].now \in Grades => roles'[ws].now \in roles'[ws].ever
  <2>1. f.ws \in Slugs
    BY <1>6 DEF Serve, Shapes, FlightsOK, Formed
  <2>2. CASE roles' = [roles EXCEPT ![f.ws] = [now |-> "owner", ever |-> @.ever \cup {"owner"}]]
    <3>1. "owner" \in roles[f.ws].ever \cup {"owner"}
      OBVIOUS
    <3>. QED
      BY <1>3, <2>1, <2>2, <3>1
  <2>3. CASE roles' = [roles EXCEPT ![f.ws] = [@ EXCEPT !.now = "foreign"]]
    <3>1. \A ws \in Slugs : roles'[ws] = IF ws = f.ws THEN [roles[ws] EXCEPT !.now = "foreign"] ELSE roles[ws]
      BY <1>1, <2>3
    <3>2. \A ws \in Slugs : roles'[ws].ever = roles[ws].ever /\ roles'[ws].now \in {roles[ws].now, "foreign"}
      BY <1>1, <3>1 DEF Memberships
    <3>. QED
      BY <1>1, <3>2, SessionAssumption DEF Kept
  <2>. QED
    BY <1>2, <1>6, <2>2, <2>3 DEF Serve, ServeCreate, ServeSelect, ServeFails
<1>7. CASE Effect
  BY <1>2, <1>7 DEF Effect, CaptureEffect, LoginEffect, AuthGuard, UserAuthGuard, SelectorEffect, SignupGuard,
                    CreateEffect
<1>8. ASSUME NEW f \in flights, Answer(f) PROVE UNCHANGED roles
  BY <1>8 DEF Answer, CaptureAnswer, CreateAnswer, SelectAnswer, SwitchAnswer, LogoutAnswer, UserLogoutAnswer
<1>9. CASE User
  BY <1>2, <1>4, <1>9
     DEF User, LoginSubmit, SignupLink, SignupSubmit, FinalizeNext, SignupBack, AuthProvider, OAuthReturn, GoCreate,
         BackToWorkspaces, Logout, UserLogout, AppToDashboard, CustomizeSubmit, Select, Switch, CreateSubmit, Reload
<1>10. UNCHANGED vars => UNCHANGED roles
  BY DEF vars
<1>. QED
  BY <1>2, <1>5, <1>6, <1>7, <1>8, <1>9, <1>10 DEF Next

\* What a step does to the tokens: a new one comes from an invitation or from
\* the server, with a role that was given.
LEMMA TokensStep ==
  ASSUME Shapes, GrantsOK, [Next]_vars
  PROVE  /\ token' \in {token, params.token, NoToken} \cup { f.got : f \in flights }
         /\ \/ params'.token \in {params.token, NoToken, Bare}
            \/ \E s \in Slugs, role \in Grades : params'.token = For(s, role) /\ role \in roles'[s].ever
         /\ \A f \in flights' :
               \/ f.got = NoToken \/ \E g \in flights : f.got = g.got
               \/ \E s \in Slugs, role \in Grades : f.got = For(s, role) /\ role \in roles'[s].ever
<1>. DEFINE TokenOld == token' \in {token, params.token, NoToken} \cup { f.got : f \in flights }
            ParamsOld == params'.token \in {params.token, NoToken, Bare}
            FlightsOld == \A f \in flights' : f.got = NoToken \/ \E g \in flights : f.got = g.got
<1>1. /\ FlightsOK /\ roles \in [Slugs -> Memberships] /\ NoParams.token = NoToken
      /\ params \in Params /\ \A s \in Slugs : roles[s].now \in Grades => roles[s].now \in roles[s].ever
  BY NoParamsFacts DEF Shapes, RestOK, GrantsOK, PageOK
<1>2. /\ \A r : Navigate(r) => ParamsOld
      /\ \A f \in Orphaned(flights) : \E g \in flights : f.got = g.got
  BY <1>1, OrphanedFacts DEF Navigate, FlightsOK
<1>3. \A k, ws, a : Flight(k, ws, a).got = NoToken
  BY DEF Flight
<1>4. CASE UNCHANGED << token, params, flights >>
  BY <1>4
<1>5. CASE Effect
  <2>1. ParamsOld
    BY <1>1, <1>2, <1>5, CaptureCases
       DEF Effect, LoginEffect, AuthGuard, UserAuthGuard, SelectorEffect, SignupGuard, CreateEffect, Stay
  <2>2. TokenOld
    BY <1>5, CaptureCases
       DEF Effect, LoginEffect, AuthGuard, UserAuthGuard, Welcomed, SelectorEffect, SignupGuard, CreateEffect
  <2>3. flights' = flights \/ flights' = flights \cup {Flight("capture", Slug, Att)}
    BY <1>5, CaptureCases
       DEF Effect, LoginEffect, AuthGuard, UserAuthGuard, SelectorEffect, SignupGuard, CreateEffect
  <2>4. FlightsOld
    BY <1>3, <2>3
  <2>. QED
    BY <2>1, <2>2, <2>4
<1>6. CASE User
  <2>1. UNCHANGED token
    BY <1>6, UserCases
  <2>2. \/ flights' = flights \/ flights' = Orphaned(flights)
        \/ \E k, ws : flights' = flights \cup {Flight(k, ws, 0)}
    BY <1>6, UserCases DEF Load
  <2>3. FlightsOld
    BY <1>2, <1>3, <2>2
  <2>4. CASE \E s \in Slugs, role \in Grades : InviteReturn(s, role)
    <3>1. PICK s \in Slugs, role \in Grades : InviteReturn(s, role)
      BY <2>4
    <3>2. params'.token = For(s, role)
      BY <3>1 DEF InviteReturn, Load, NoParams
    <3>3. role \in roles'[s].ever
      BY <1>1, <3>1 DEF InviteReturn
    <3>. QED
      BY <2>1, <2>3, <3>2, <3>3
  <2>5. CASE OAuthReturn
    <3>1. params' = [params EXCEPT !.token = Bare]
      BY <2>5 DEF OAuthReturn, Load
    <3>2. params'.token = Bare
      BY <1>1, <3>1 DEF Params
    <3>. QED
      BY <2>1, <2>3, <3>2
  <2>6. CASE \/ LoginSubmit \/ SignupLink \/ SignupSubmit \/ FinalizeNext \/ SignupBack \/ AuthProvider \/ GoCreate
             \/ BackToWorkspaces \/ Logout \/ UserLogout \/ AppToDashboard
             \/ \E s \in Slugs : CustomizeSubmit(s) \/ Select(s) \/ Switch(s) \/ CreateSubmit(s)
             \/ \E r \in {route, "dashboard", "app"} : Reload(r)
    <3>1. [token |-> NoToken, slug |-> signup.slug, attempt |-> signup.attempt].token = NoToken
      OBVIOUS
    <3>2. ParamsOld
      BY <1>1, <1>2, <2>6, <3>1
         DEF LoginSubmit, SignupLink, SignupSubmit, FinalizeNext, SignupBack, AuthProvider, GoCreate,
             BackToWorkspaces, Logout, UserLogout, AppToDashboard, CustomizeSubmit, Select, Switch, CreateSubmit,
             Reload, Load, Stay
    <3>. QED
      BY <2>1, <2>3, <3>2
  <2>. QED
    BY <1>6, <2>4, <2>5, <2>6 DEF User
<1>7. ASSUME NEW f \in flights, Serve(f)
      PROVE  /\ UNCHANGED << token, params >>
             /\ \A h \in flights' :
                   \/ \E g \in flights : h.got = g.got
                   \/ \E s \in Slugs, role \in Grades : h.got = For(s, role) /\ role \in roles'[s].ever
  <2>1. UNCHANGED << token, params >> /\ f \in Flights /\ f.ws \in Slugs
    BY <1>1, <1>7 DEF Serve, FlightsOK, Formed
  <2>2. [f EXCEPT !.st = "failed"].got = f.got
    BY <2>1 DEF Flights
  <2>3. CASE Finish(f, [f EXCEPT !.st = "failed"])
    BY <2>1, <2>2, <2>3 DEF Finish
  <2>4. ASSUME NEW role \in Grades, role \in roles'[f.ws].ever,
               Finish(f, [f EXCEPT !.st = "ok", !.got = For(f.ws, role)])
        PROVE  \A h \in flights' :
                   \/ \E g \in flights : h.got = g.got
                   \/ \E s \in Slugs, r \in Grades : h.got = For(s, r) /\ r \in roles'[s].ever
    <3>1. [f EXCEPT !.st = "ok", !.got = For(f.ws, role)].got = For(f.ws, role)
      BY <2>1 DEF Flights
    <3>. QED
      BY <2>1, <2>4, <3>1 DEF Finish
  <2>5. CASE ServeCreate(f) /\ ~Finish(f, [f EXCEPT !.st = "failed"])
    <3>1. /\ roles' = [roles EXCEPT ![f.ws] = [now |-> "owner", ever |-> @.ever \cup {"owner"}]]
          /\ Finish(f, [f EXCEPT !.st = "ok", !.got = For(f.ws, "owner")])
      BY <2>5 DEF ServeCreate
    <3>2. "owner" \in Grades /\ "owner" \in roles'[f.ws].ever
      BY <1>1, <2>1, <3>1, SessionAssumption
    <3>. QED
      BY <2>1, <2>4, <3>1, <3>2
  <2>6. CASE ServeSelect(f)
    BY <1>1, <2>1, <2>4, <2>6 DEF ServeSelect
  <2>. QED
    BY <1>7, <2>1, <2>3, <2>5, <2>6 DEF Serve, ServeFails
<1>8. ASSUME NEW f \in flights, Answer(f) PROVE TokenOld /\ ParamsOld /\ FlightsOld
  <2>1. flights \ {f} \subseteq Flights /\ \A g \in flights \ {f} : Formed(g)
    BY <1>1 DEF FlightsOK
  <2>2. \A h \in Orphaned(flights \ {f}) : \E g \in flights : h.got = g.got
    BY <2>1, OrphanedFacts
  <2>3. FlightsOld
    BY <1>8, <2>2
       DEF Answer, CaptureAnswer, CreateAnswer, SelectAnswer, SwitchAnswer, LogoutAnswer, UserLogoutAnswer
  <2>4. ParamsOld
    BY <1>1, <1>2, <1>8
       DEF Answer, CaptureAnswer, CreateAnswer, SelectAnswer, SwitchAnswer, LogoutAnswer, UserLogoutAnswer
  <2>5. TokenOld
    BY <1>8 DEF Answer, CaptureAnswer, CreateAnswer, SelectAnswer, SwitchAnswer, LogoutAnswer, UserLogoutAnswer
  <2>. QED
    BY <2>3, <2>4, <2>5
<1>9. ASSUME NEW s \in Slugs, NEW to \in Standings, Regrade(s, to) PROVE UNCHANGED << token, params, flights >>
  BY <1>9 DEF Regrade
<1>10. UNCHANGED vars => UNCHANGED << token, params, flights >>
  BY DEF vars
<1>. QED
  BY <1>4, <1>5, <1>6, <1>7, <1>8, <1>9, <1>10 DEF Next

\* Every token keeps to the roles that were given.
LEMMA GrantStep == Shapes /\ GrantsOK /\ [Next]_vars => GrantsOK'
<1>. SUFFICES ASSUME Shapes, GrantsOK, [Next]_vars PROVE GrantsOK'
  OBVIOUS
<1>. DEFINE Good(tok) == HasClaims(tok) => tok.role \in roles'[tok.ws].ever
<1>1. Kept /\ \A ws \in Slugs : roles'[ws].now \in Grades => roles'[ws].now \in roles'[ws].ever
  BY RolesStep
<1>2. token \in Tokens /\ params.token \in Tokens /\ \A f \in flights : f.got \in Tokens
  BY DEF Shapes, RestOK, PageOK, Params, FlightsOK, Flights
<1>3. Good(token) /\ Good(params.token) /\ \A f \in flights : Good(f.got)
  BY <1>1, <1>2, GrantKept DEF GrantsOK
<1>4. Good(NoToken) /\ Good(Bare)
  BY TokenFacts
<1>5. \A s \in Slugs : \A role \in Grades : role \in roles'[s].ever => Good(For(s, role))
  BY DEF For
<1>6. Good(token') /\ Good(params'.token) /\ \A f \in flights' : Good(f.got)
  BY <1>3, <1>4, <1>5, TokensStep
<1>. QED
  BY <1>1, <1>6 DEF GrantsOK, Granted, HasClaims

\* A page that has just been navigated to or loaded has yet to pass its guard.
LEMMA FreshGuarded == fresh' => DashboardIsGuarded'
  BY DEF DashboardIsGuarded, At

\* Every step keeps the dashboard guarded.
LEMMA GuardStep == Shapes /\ GrantsOK /\ DashboardIsGuarded /\ [Next]_vars => DashboardIsGuarded'
<1>. SUFFICES ASSUME Shapes, GrantsOK, DashboardIsGuarded, [Next]_vars PROVE DashboardIsGuarded'
  OBVIOUS
<1>1. \A r, p : Navigate(r) \/ Load(r, p) => fresh'
  BY DEF Navigate, Load
<1>2. Granted(token)'
  BY GrantStep DEF GrantsOK
<1>3. CASE UNCHANGED << token, route, fresh >>
  BY <1>2, <1>3 DEF DashboardIsGuarded, At, HasClaims
<1>4. CASE route' # "dashboard"
  BY <1>4 DEF DashboardIsGuarded, At
<1>5. CASE fresh'
  BY <1>5, FreshGuarded
<1>6. CASE AuthGuard
  <2>1. UNCHANGED token /\ (fresh' \/ (HasClaims(token) /\ token.role # "member"))
    BY <1>1, <1>6 DEF AuthGuard
  <2>. QED
    BY <1>2, <1>5, <2>1 DEF DashboardIsGuarded, HasClaims
<1>7. CASE CaptureEffect
  <2>1. fresh' \/ route' = "capture"
    BY <1>1, <1>7, CaptureCases
  <2>. QED
    BY <1>4, <1>5, <2>1
<1>8. CASE LoginEffect \/ UserAuthGuard \/ SelectorEffect \/ SignupGuard \/ CreateEffect
  <2>1. fresh' \/ (route' = route /\ route # "dashboard")
    BY <1>1, <1>8 DEF LoginEffect, UserAuthGuard, SelectorEffect, SignupGuard, CreateEffect, Stay
  <2>. QED
    BY <1>4, <1>5, <2>1
<1>9. CASE User
  <2>1. fresh' \/ UNCHANGED << token, route, fresh >>
    BY <1>1, <1>9, UserCases
  <2>. QED
    BY <1>3, <1>5, <2>1
<1>10. ASSUME NEW f \in flights, Serve(f) \/ Answer(f) PROVE DashboardIsGuarded'
  <2>1. fresh' \/ UNCHANGED << token, route, fresh >>
    BY <1>1, <1>10
       DEF Serve, Answer, CaptureAnswer, CreateAnswer, SelectAnswer, SwitchAnswer, LogoutAnswer, UserLogoutAnswer
  <2>. QED
    BY <1>3, <1>5, <2>1
<1>11. ASSUME NEW s \in Slugs, NEW to \in Standings, Regrade(s, to) PROVE UNCHANGED << token, route, fresh >>
  BY <1>11 DEF Regrade
<1>12. UNCHANGED vars => UNCHANGED << token, route, fresh >>
  BY DEF vars
<1>. QED
  BY <1>3, <1>6, <1>7, <1>8, <1>9, <1>10, <1>11, <1>12 DEF Next, Effect

-----------------------------------------------------------------------------
(* Signing out.                                                            *)

\* Every step leaves a user who signed out signed out: what could bring a token
\* back needs a token, a request that is waited for or a new sign-in.
LEMMA SignedOutStep == Shapes /\ SignedOut /\ [Next]_vars => SignedOut'
<1>. SUFFICES ASSUME Shapes, SignedOut, [Next]_vars, hist'.signedOut, ~hist'.late
              PROVE  (/\ ~token.is /\ ~params.token.is
                      /\ \A f \in flights : ~(f.alive /\ f.kind \in Signing)
                      /\ fresh \/ route \notin {"workspaces", "dashboard", "app"})'
  BY DEF SignedOut
<1>. DEFINE Out == /\ ~token.is /\ ~params.token.is
                   /\ \A f \in flights : ~(f.alive /\ f.kind \in Signing)
                   /\ fresh \/ route \notin {"workspaces", "dashboard", "app"}
<1>1. hist.signedOut /\ ~hist.late => Out
  BY DEF SignedOut
<1>2. FlightsOK /\ NoParams.token = NoToken /\ ~NoToken.is
  BY TokenFacts, NoParamsFacts DEF Shapes
<1>3. /\ \A r : Navigate(r) => fresh' /\ params' = NoParams
      /\ \A r, p : Load(r, p) => fresh' /\ params' = p /\ flights' = Orphaned(flights)
  BY DEF Navigate, Load
<1>4. \A f \in Orphaned(flights) : ~f.alive
  BY <1>2, OrphanedFacts DEF FlightsOK
<1>5. CASE Effect
  <2>1. UNCHANGED hist \/ params.token.is
    BY <1>5, CaptureCases DEF Effect, LoginEffect, AuthGuard, UserAuthGuard, SelectorEffect, SignupGuard, CreateEffect
  <2>2. CASE CaptureEffect /\ UNCHANGED hist
    <3>1. Out
      BY <1>1, <2>2
    <3>2. (\E r \in Routes : Navigate(r)) /\ UNCHANGED << token, flights >>
      BY <2>2, <3>1, CaptureCases
    <3>. QED
      BY <1>2, <1>3, <3>1, <3>2
  <2>3. CASE ~CaptureEffect
    <3>1. UNCHANGED << hist, flights >>
      BY <1>5, <2>3 DEF Effect, LoginEffect, AuthGuard, UserAuthGuard, SelectorEffect, SignupGuard, CreateEffect
    <3>2. Out
      BY <1>1, <3>1
    <3>3. UNCHANGED token
      BY <1>5, <2>3, <3>2 DEF Effect, LoginEffect, AuthGuard, UserAuthGuard, Welcomed, SelectorEffect,
                              SignupGuard, CreateEffect
    <3>4. \/ \E r : Navigate(r)
          \/ UNCHANGED << params, route >> /\ route \notin {"workspaces", "dashboard", "app"}
      BY <1>5, <2>3, <3>2 DEF Effect, LoginEffect, AuthGuard, UserAuthGuard, Welcomed, SelectorEffect,
                              SignupGuard, CreateEffect, Stay
    <3>. QED
      BY <1>2, <1>3, <3>1, <3>2, <3>3, <3>4
  <2>4. CASE CaptureEffect /\ ~UNCHANGED hist
    <3>1. hist' = [hist EXCEPT !.posts[Att] = @ + 1] /\ params.token.is
      BY <2>4, CaptureCases
    <3>2. hist'.signedOut = hist.signedOut /\ hist'.late = hist.late
      BY <3>1 DEF Shapes, Histories
    <3>. QED
      BY <1>1, <3>1, <3>2
  <2>. QED
    BY <2>2, <2>3, <2>4
<1>6. CASE User
  <2>1. CASE (\E r : Navigate(r)) /\ UNCHANGED << token, flights, hist.signedOut, hist.late >>
    BY <1>1, <1>2, <1>3, <2>1
  <2>2. CASE /\ \E r, p : Load(r, p) /\ (p.token = NoToken \/ p = params)
             /\ UNCHANGED << token, hist.signedOut, hist.late >>
    BY <1>1, <1>2, <1>3, <1>4, <2>2
  <2>3. CASE /\ At("workspaces") \/ At("dashboard") \/ At("app") \/ token.is
             /\ UNCHANGED << token, route, params, fresh, hist >>
    BY <1>1, <2>3 DEF At
  <2>. QED
    BY <1>6, <2>1, <2>2, <2>3, UserCases
<1>7. ASSUME NEW f \in flights, Serve(f) PROVE Out'
  <2>1. /\ UNCHANGED << token, route, params, fresh, hist >> /\ f.kind \in Signing
        /\ \E g : Finish(f, g)
    BY <1>7, ServeFacts DEF Serve
  <2>2. Out
    BY <1>1, <2>1
  <2>3. flights' \subseteq flights
    BY <2>1, <2>2 DEF Finish
  <2>. QED
    BY <2>1, <2>2, <2>3
<1>8. ASSUME NEW f \in flights, CaptureAnswer(f) \/ CreateAnswer(f) \/ SelectAnswer(f) \/ SwitchAnswer(f)
      PROVE  FALSE
  <2>1. f.alive /\ f.kind \in Signing
    BY <1>8 DEF CaptureAnswer, CreateAnswer, SelectAnswer, SwitchAnswer, Alive, Signing
  <2>2. UNCHANGED hist \/ hist' = [hist EXCEPT !.posts[f.attempt] = @ - 1]
    BY <1>8 DEF CaptureAnswer, CreateAnswer, SelectAnswer, SwitchAnswer
  <2>3. hist'.signedOut = hist.signedOut /\ hist'.late = hist.late
    BY <2>2 DEF Shapes, Histories
  <2>. QED
    BY <1>1, <2>1, <2>3
<1>10. ASSUME NEW f \in flights, LogoutAnswer(f) PROVE Out'
  <2>1. flights \ {f} \subseteq Flights /\ \A g \in flights \ {f} : Formed(g)
    BY <1>2 DEF FlightsOK
  <2>2. \A g \in Orphaned(flights \ {f}) : ~g.alive
    BY <2>1, OrphanedFacts
  <2>. QED
    BY <1>2, <1>10, <2>2 DEF LogoutAnswer
<1>11. ASSUME NEW f \in flights, UserLogoutAnswer(f) PROVE Out'
  <2>1. hist'.late = \E g \in flights : g.alive /\ g.kind \in Signing
    BY <1>11 DEF UserLogoutAnswer, Shapes, Histories
  <2>. QED
    BY <1>2, <1>3, <1>11, <2>1 DEF UserLogoutAnswer
<1>12. ASSUME NEW ws \in Slugs, NEW to \in Standings, Regrade(ws, to) PROVE Out'
  <2>1. hist'.signedOut = hist.signedOut /\ hist'.late = hist.late
    BY <1>12 DEF Regrade, Shapes, Histories
  <2>. QED
    BY <1>1, <1>12, <2>1 DEF Regrade
<1>9. CASE UNCHANGED vars
  BY <1>1, <1>9 DEF vars
<1>. QED
  BY <1>5, <1>6, <1>7, <1>8, <1>9, <1>10, <1>11, <1>12 DEF Next, Answer

-----------------------------------------------------------------------------
(* The invariant and what follows from it.                                 *)

\* On a first visit nothing was asked for and nobody has signed out.
LEMMA InitInv == Init => IInv
<1>. SUFFICES ASSUME Init PROVE IInv
  OBVIOUS
<1>. USE SessionAssumption
<1>1. PageOK
  BY NoParamsFacts DEF Init, PageOK, Routes, Public
<1>2. SignupOK /\ FlightsOK
  BY DEF Init, SignupOK, FlightsOK, Blank, Signups, Paired
<1>3. RestOK
  BY TokenFacts DEF Init, RestOK, Memberships, Standings
<1>4. hist \in Histories
  BY DEF Init, Histories
<1>5. PostsMarked /\ OneWaiting /\ SignedOut
  BY DEF Init, PostsMarked, OneWaiting, SignedOut
<1>6. DashboardIsGuarded
  BY DEF Init, DashboardIsGuarded, At
<1>7. GrantsOK
  BY TokenFacts, NoParamsFacts DEF Init, GrantsOK, Granted
<1>. QED
  BY <1>1, <1>2, <1>3, <1>4, <1>5, <1>6, <1>7 DEF IInv, Shapes

\* The inductive invariant holds throughout.
LEMMA Invariance == Spec => []IInv
<1>1. IInv /\ [Next]_vars => IInv'
  BY ShapesStep, AttemptStep, GrantStep, GuardStep, SignedOutStep DEF IInv
<1>. QED
  BY <1>1, InitInv, PTL DEF Spec

\* No dashboard page is shown past its guard to a member's token or to a role
\* that was never given, for any roles, invitations and role changes, whichever
\* answers arrive late (AuthGuard in App.tsx).
THEOREM GuardedTheorem == Spec => []Guarded
<1>1. Shapes => TypeOK
  BY DEF Shapes, PageOK, RestOK, Params, TypeOK, Memberships
<1>2. IInv => Guarded
  BY <1>1 DEF IInv, Guarded
<1>. QED
  BY <1>2, Invariance, PTL

\* The marks in session storage let an attempt send its creation again only
\* after an error, however often the callback page is loaded (TokenCapture).
THEOREM OneCreatePerAttemptTheorem == Spec => []OneCreatePerAttempt
<1>1. IInv => OneCreatePerAttempt
  BY DEF IInv, PostsMarked, OneCreatePerAttempt
<1>. QED
  BY <1>1, Invariance, PTL

\* Signing out with no request outstanding keeps the token away until the next
\* sign-in, whatever pages are loaded, typed or gone back to.
THEOREM SignOutHoldsTheorem == Spec => []SignOutHolds
<1>1. IInv => SignOutHolds
  BY DEF IInv, SignedOut, SignOutHolds
<1>. QED
  BY <1>1, Invariance, PTL
=============================================================================
