---------------------------- MODULE WebSession ----------------------------
(***************************************************************************)
(* Signing in and out of the web application, as one browser tab sees it:  *)
(* the cookie check of proxy.ts, the Role gates of the layouts, the BFF    *)
(* routes, and the reaction of lib/bff-client.ts to a blocked or expired   *)
(* session.                                                                *)
(*                                                                         *)
(* signOut() of next-auth clears the cookie, then loads its callbackUrl:   *)
(* two steps, and two calls may be under way at once.                      *)
(***************************************************************************)
EXTENDS Naturals, FiniteSets

CONSTANTS
  MaxRequests,   \* BFF requests in flight
  MaxChanges,    \* changes made to the account by an Administrator
  MaxMoves       \* pages the visitor asks for, and uses of the account menu

SessionAssumption ==
  MaxRequests \in Nat \ {0} /\ MaxChanges \in Nat /\ MaxMoves \in Nat

VARIABLES
  account,    \* the User row: its Role, whether it is blocked
  cookie,     \* the session cookie: none, present but expired, or valid
  token,      \* the Role the JWT was issued with
  page,       \* what the tab shows
  callback,   \* ?callbackUrl= of the sign-in page
  requests,   \* requests the page has in flight
  leaving,    \* isRedirectingToLogin
  signOuts,   \* calls of signOut() under way
  wanted,     \* the pages the visitor was on, or asked for, when sent to sign in
  changes,
  moves

vars == <<account, cookie, token, page, callback, requests, leaving, signOuts, wanted, changes,
          moves>>

Roles == {"EXTERNAL", "ADMINISTRATOR"}

NavItems == {"/", "/analyses", "/scouts", "/applications", "/cv-versions", "/quotas", "/settings"}
AdminNavItems == {"/admin", "/admin/users", "/admin/quotas", "/admin/analyses", "/admin/scouts",
                  "/admin/cv-versions", "/admin/llm-providers"}
AdminHidden == NavItems \ {"/settings"}

\* Areas of the candidate with an Admin equivalent, and what that is.
AdminTwin == [p \in {"/analyses", "/analyses/new", "/scouts", "/cv-versions", "/quotas"} |->
  CASE p \in {"/analyses", "/analyses/new"} -> "/admin/analyses"
    [] p = "/scouts" -> "/admin/scouts"
    [] p = "/cv-versions" -> "/admin/cv-versions"
    [] p = "/quotas" -> "/admin/quotas"]

Asked == NavItems \cup AdminNavItems \cup DOMAIN AdminTwin \cup {"/ingestion-jobs"}

Public == {"landing", "/sign-in", "/account-blocked", "not-found"}
\* Every other page is in the App shell, whose Topbar reads the quota alerts.
Shell == (Asked \ {"/"}) \cup {"dashboard"}
Pages == Public \cup Shell

\* proxy.ts, config.matcher.
Matched == {"/analyses", "/analyses/new", "/cv-versions", "/ingestion-jobs", "/quotas"}
           \cup AdminNavItems

NavRows(role) ==
  IF role = "ADMINISTRATOR" THEN AdminNavItems \cup (NavItems \ AdminHidden) ELSE NavItems

\* The primary action above the rows.
NewAnalysis(role) == IF role = "ADMINISTRATOR" THEN {} ELSE {"/analyses/new"}

-----------------------------------------------------------------------------
(* Loading a page *)

At(p) == [page |-> p, callback |-> "/analyses"]

\* Mutant: the page that was asked for is forgotten.
ToSignInOnly(p) == [page |-> "/sign-in", callback |-> "/analyses"]

ToSignIn(p) == [page |-> "/sign-in", callback |-> p]

\* proxy(): a presence check of the cookie.
Bounced(p, held) == p \in Matched /\ held = "none"

\* The layouts: auth() is null unless the cookie is valid.
Admin(held, role) == held = "valid" /\ role = "ADMINISTRATOR"

HomeGate(held, role) ==
  IF held # "valid" THEN At("landing")
  ELSE IF Admin(held, role) THEN At("/admin") ELSE At("dashboard")

AdminGate(p, held, role) ==
  IF held # "valid" THEN At("/sign-in") ELSE IF Admin(held, role) THEN At(p) ELSE At("not-found")

Gated(p, held, role) ==
  CASE p = "/" -> HomeGate(held, role)
    [] p \in AdminNavItems -> AdminGate(p, held, role)
    [] Admin(held, role) /\ p \in DOMAIN AdminTwin -> At(AdminTwin[p])
    [] Admin(held, role) /\ p = "/applications" -> At("not-found")
    [] OTHER -> At(p)

Route(p, held, role) == IF Bounced(p, held) THEN ToSignIn(p) ELSE Gated(p, held, role)

\* The quota alerts of the Topbar.
Feed(p) == IF p \in Shell THEN 1 ELSE 0

\* A document load: every script, request and sign-out of the page is gone.
Load(to, held) ==
  /\ page' = to.page
  /\ callback' = to.callback
  /\ requests' = Feed(to.page)
  /\ leaving' = FALSE
  /\ signOuts' = {}
  /\ cookie' = held

Init ==
  /\ account \in [role : Roles, blocked : {FALSE}]
  /\ cookie = "none"
  /\ token = account.role
  /\ page = "landing"
  /\ callback = "/analyses"
  /\ requests = 0
  /\ leaving = FALSE
  /\ signOuts = {}
  /\ wanted = {}
  /\ changes = 0
  /\ moves = 0

Move == moves < MaxMoves /\ moves' = moves + 1

\* An address typed, a bookmark, a reload.
Visit(p) ==
  LET to == Route(p, cookie, token) IN
  /\ Move
  /\ Load(to, cookie)
  /\ wanted' = IF to.page = "/sign-in" THEN wanted \cup {p} ELSE wanted
  /\ UNCHANGED <<account, token, changes>>

\* A row of the Sidebar: the scripts stay, the layouts are asked all the same.
Follow(href) ==
  LET to == Route(href, cookie, token) IN
  /\ Move
  /\ page \in Shell
  /\ href \in NavRows(token) \cup NewAnalysis(token)
  /\ page' = to.page
  /\ callback' = to.callback
  /\ requests' = IF requests = 0 THEN Feed(to.page) ELSE requests
  /\ wanted' = IF to.page = "/sign-in" THEN wanted \cup {href} ELSE wanted
  /\ UNCHANGED <<account, cookie, token, leaving, signOuts, changes>>

\* /sign-in: the jwt callback takes the Role from the upserted User, then the
\* browser goes to callbackUrl.
SignIn ==
  /\ page = "/sign-in"
  /\ token' = account.role
  /\ Load(Route(callback, "valid", account.role), "valid")
  /\ wanted' = {}
  /\ UNCHANGED <<account, changes, moves>>

\* The landing page's link carries no callbackUrl, and asks for no page.
OpenSignIn ==
  /\ page = "landing"
  /\ Load(At("/sign-in"), cookie)
  /\ wanted' = {}
  /\ UNCHANGED <<account, token, changes, moves>>

\* The 30-minute JWT runs out; the browser may or may not keep the cookie.
SessionExpires ==
  /\ cookie = "valid"
  /\ cookie' \in {"expired", "none"}
  /\ UNCHANGED <<account, token, page, callback, requests, leaving, signOuts, wanted, changes, moves>>

AccountChanges ==
  /\ changes < MaxChanges
  /\ changes' = changes + 1
  /\ account' \in [role : Roles, blocked : BOOLEAN] \ {account}
  /\ UNCHANGED <<cookie, token, page, callback, requests, leaving, signOuts, wanted, moves>>

-----------------------------------------------------------------------------
(* BFF requests *)

Request ==
  /\ page \in Shell
  /\ requests < MaxRequests
  /\ requests' = requests + 1
  /\ UNCHANGED <<account, cookie, token, page, callback, leaving, signOuts, wanted, changes, moves>>

SignOut(to) == signOuts' = signOuts \cup {[to |-> to, cleared |-> FALSE]}

\* The first 401 signs out towards the current page; the call never settles.
RedirectToSignIn ==
  IF leaving THEN UNCHANGED <<leaving, signOuts, wanted>>
  ELSE /\ leaving' = TRUE
       /\ LET here == IF page = "dashboard" THEN "/" ELSE page IN
            wanted' = wanted \cup {here} /\ SignOut(here)

BlockedSignsOut == SignOut("/account-blocked") /\ UNCHANGED <<leaving, wanted>>

Served == UNCHANGED <<leaving, signOuts, wanted>>

\* A BFF route answers 401 without a session; services/api answers
\* USER_BLOCKED to a blocked caller; anything else is data.
Answer ==
  /\ requests > 0
  /\ requests' = requests - 1
  /\ \/ page \in Shell /\ cookie # "valid" /\ RedirectToSignIn
     \/ page \in Shell /\ cookie = "valid" /\ account.blocked /\ BlockedSignsOut
     \/ (page \notin Shell \/ (cookie = "valid" /\ ~account.blocked)) /\ Served
  /\ UNCHANGED <<account, cookie, token, page, callback, changes, moves>>

\* The account menu.
AskSignOut ==
  /\ Move
  /\ page \in Shell
  /\ SignOut("/")
  /\ UNCHANGED <<account, cookie, token, page, callback, requests, leaving, wanted, changes>>

CookieCleared(s) ==
  /\ s \in signOuts
  /\ ~s.cleared
  /\ cookie' = "none"
  /\ signOuts' = (signOuts \ {s}) \cup {[s EXCEPT !.cleared = TRUE]}
  /\ UNCHANGED <<account, token, page, callback, requests, leaving, wanted, changes, moves>>

SignedOut(s) ==
  /\ s \in signOuts
  /\ s.cleared
  /\ Load(IF s.to = "/account-blocked" THEN At(s.to) ELSE Route(s.to, cookie, token), cookie)
  /\ UNCHANGED <<account, token, wanted, changes, moves>>

Next ==
  \/ \E p \in Asked : Visit(p) \/ Follow(p)
  \/ SignIn \/ OpenSignIn \/ SessionExpires \/ AccountChanges
  \/ Request \/ Answer \/ AskSignOut
  \/ \E s \in signOuts : CookieCleared(s) \/ SignedOut(s)

Spec == Init /\ [][Next]_vars

\* Requests are answered and signOut() ends; nobody is forced to sign in, to
\* visit a page or to follow a link.
Fairness ==
  /\ WF_vars(Answer)
  /\ WF_vars(\E s \in signOuts : CookieCleared(s))
  /\ WF_vars(\E s \in signOuts : SignedOut(s))

FairSpec == Spec /\ Fairness

-----------------------------------------------------------------------------
(* Properties *)

TypeOK ==
  /\ account \in [role : Roles, blocked : BOOLEAN]
  /\ cookie \in {"none", "expired", "valid"}
  /\ token \in Roles
  /\ page \in Pages
  /\ callback \in Asked
  /\ requests \in 0..MaxRequests
  /\ leaving \in BOOLEAN
  /\ signOuts \in SUBSET [to : Asked \cup {"/account-blocked"}, cleared : BOOLEAN]
  /\ wanted \in SUBSET Asked
  /\ changes \in 0..MaxChanges
  /\ moves \in 0..MaxMoves

\* The Sidebar only offers links that lead where they say: the layouts neither
\* refuse nor redirect a link of the signed-in Role, as long as the session lives.
NavRowsLead ==
  page \in Shell /\ cookie = "valid" =>
    \A href \in NavRows(token) \cup NewAnalysis(token) :
      Route(href, cookie, token).page = IF href = "/" THEN "dashboard" ELSE href

\* Whoever was sent to sign in comes back to a page they were on or asked for.
\* The gate of the Admin area is the exception: it sends to sign in without one.
ReturnsWhereAsked ==
  [][SignIn /\ wanted # {} /\ wanted \cap AdminNavItems = {} =>
       \E p \in wanted : page' = Route(p, "valid", token').page]_vars

\* A page the proxy matches never keeps a visitor whose session has ended
\* waiting: the sign-out its first 401 starts ends on a public page.
SignedOutLeaves == leaving /\ page \in Matched ~> page \notin Matched \/ cookie = "valid"

\* "With the cookie gone, proxy.ts bounces that page to /sign-in": the sign-out
\* a 401 starts ends on a public page, whatever page it was.
ExpiredReachesSignIn == leaving ~> page \in Public \/ cookie = "valid"
===========================================================================
