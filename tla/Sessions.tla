------------------------------ MODULE Sessions ------------------------------
(***************************************************************************)
(* Signing in and out: the tabs of one browser, the two cookies they share *)
(* and the stateless tokens in them.  A tab learns who is signed in by     *)
(* asking the server; a request that is refused renews the tokens and is   *)
(* sent again once; a tab that cannot renew them signs the browser out and *)
(* reloads on the login page.  Every request is sent, served and answered  *)
(* in steps of their own, and the tabs see each other's cookies at once.   *)
(*                                                                         *)
(* The cookies carry what the tokens say: whose they are, a number told    *)
(* apart by each issue, and whether either has expired.  Passwords and     *)
(* roles are left out: a wrong password is a user without an account.      *)
(***************************************************************************)
EXTENDS Naturals, FiniteSets

CONSTANTS Tabs, Users, None,
          MaxActions,   \* what the users do
          MaxExpiries,  \* tokens that expire
          MaxFaults     \* requests that get no answer

ASSUME NoneAssumption == None \notin Users

VARIABLES
    accounts,    \* users the server has
    cookies,     \* the browser's cookies
    tab,         \* each tab's page and UserContext
    net,         \* requests under way
    issued,      \* history: token pairs issued
    disturbed,  \* history: tabs whose page lost an answer to its check, or was
                 \* moved by an answer meant for a page it had left
    left         \* how often each bound may still be used
vars == <<accounts, cookies, tab, net, issued, disturbed, left>>

NoCookies == [user |-> None, number |-> 0, live |-> FALSE, renewable |-> FALSE]
Tokens(u, n) == [user |-> u, number |-> n, live |-> TRUE, renewable |-> TRUE]

\* "app" stands for the pages behind ProtectedRoute, "home" for the marketing
\* and the statistics page.
Paths == {"app", "home", "login", "signup"}
PublicPaths == {"login", "signup"}
Kinds == {"check", "data", "login", "signup", "owner_login", "owner_signup", "logout"}
\* Whether there is an owner, as either sign-in page asks.
OwnerAsked(path) == IF path = "login" THEN "owner_login" ELSE "owner_signup"
\* The page that sends such a request.
SentFrom(kind) == IF kind \in {"login", "owner_login"} THEN "login" ELSE "signup"

\* A full page load.
Fresh(path) == [path |-> path, user |-> None, checked |-> FALSE]

\* MUTANT: ProtectedRoute lets everybody through.
Unrouted(page) == page
\* ProtectedRoute sends a tab that has asked in vain to the login page.
Routed(page) ==
    IF page.path = "app" /\ page.checked /\ page.user = None
    THEN [page EXCEPT !.path = "login"] ELSE page

\* A browser may come with the cookies of an earlier visit.
Init ==
    /\ accounts \in {{}, Users}
    /\ cookies \in {NoCookies} \cup {Tokens(u, 1) : u \in accounts}
    /\ tab = [t \in Tabs |-> Fresh("closed")]
    /\ net = {}
    /\ issued = cookies.number
    /\ disturbed = {}
    /\ left = [actions |-> MaxActions, expiries |-> MaxExpiries, faults |-> MaxFaults]

(***************************************************************************)
(* Requests.                                                               *)
(***************************************************************************)
\* `as` is the user signing in or up; `cause` and `about` say, of a logout,
\* why it was sent and which tokens had been refused.
Request(t, kind, stage, carried) ==
    [tab |-> t, kind |-> kind, stage |-> stage, carried |-> carried,
     answer |-> "none", as |-> None, cause |-> "none", about |-> 0]
Asking(t, kind, n) == \E r \in n : r.tab = t /\ r.kind = kind
Add(r, n) == IF Asking(r.tab, r.kind, n) THEN n ELSE n \cup {r}

Logout(t, cause, about) ==
    [Request(t, "logout", "ask", cookies) EXCEPT !.cause = cause, !.about = about]

\* MUTANT: a tab without a session stays where it is.
RedirectedSilently(page, t, cause, about, n) == n
\* redirectToLogin, for a request whose tokens were refused or that got no answer.
Redirected(page, t, cause, about, n) ==
    IF page.path \in PublicPaths THEN n ELSE Add(Logout(t, cause, about), n)

\* What a page asks for when it is shown: who owns the installation on the
\* sign-in pages, who is signed in behind ProtectedRoute.  It asks with the
\* cookies that the answer which brought it has left.
Shown(page, t, n) ==
    CASE page.path \in PublicPaths -> Add(Request(t, OwnerAsked(page.path), "ask", cookies'), n)
      [] page.path = "app" /\ ~page.checked -> Add(Request(t, "check", "ask", cookies'), n)
      [] OTHER -> n
\* A page load also gives up what the page before it asked; off the sign-in
\* pages UserProvider checks at once.
Loaded(path, t, n) ==
    LET rest == {r \in n : r.tab # t} IN
    IF path \in PublicPaths THEN Shown(Fresh(path), t, rest)
    ELSE Add(Request(t, "check", "ask", cookies'), rest)

\* Moves a tab to a page, within the application.
Go(t, page, n) ==
    /\ tab' = [tab EXCEPT ![t] = Routed(page)]
    /\ net' = IF Routed(page).path # tab[t].path THEN Shown(Routed(page), t, n) ELSE n
Load(t, path, n) ==
    /\ tab' = [tab EXCEPT ![t] = Fresh(path)]
    /\ net' = Loaded(path, t, n)
    /\ disturbed' = disturbed \ {t}

(***************************************************************************)
(* What users do.                                                          *)
(***************************************************************************)
Acts == left.actions > 0 /\ left' = [left EXCEPT !.actions = @ - 1]

Open(t, path) ==
    /\ Acts
    /\ UNCHANGED <<accounts, cookies, issued>>
    /\ Load(t, path, net)

\* The marketing page's button.
EnterApp(t) ==
    /\ Acts
    /\ tab[t].path = "home"
    /\ UNCHANGED <<accounts, cookies, issued, disturbed>>
    /\ Go(t, [tab[t] EXCEPT !.path = "app"], net)

Submit(t, kind, u) ==
    /\ Acts
    /\ tab[t].path = kind
    /\ ~Asking(t, kind, net)
    /\ net' = net \cup {[Request(t, kind, "ask", cookies) EXCEPT !.as = u]}
    /\ UNCHANGED <<accounts, cookies, tab, issued, disturbed>>

\* Any request of a page to the API, or the one UserContext sends again after
\* the profile was saved.
UseApp(t, kind) ==
    /\ Acts
    /\ tab[t].path = "app" /\ tab[t].user # None
    /\ net' = Add(Request(t, kind, "ask", cookies), net)
    /\ UNCHANGED <<accounts, cookies, tab, issued, disturbed>>

LogOut(t) ==
    /\ Acts
    /\ tab[t].path = "app" /\ tab[t].user # None
    /\ net' = Add(Logout(t, "user", 0), net)
    /\ UNCHANGED <<accounts, cookies, tab, issued, disturbed>>

UserStep ==
    \E t \in Tabs :
       \/ \E path \in Paths : Open(t, path)
       \/ EnterApp(t)
       \/ \E u \in Users, kind \in {"login", "signup"} : Submit(t, kind, u)
       \/ \E kind \in {"check", "data"} : UseApp(t, kind)
       \/ LogOut(t)

(***************************************************************************)
(* The server, which knows nothing of sessions but what the cookies say.   *)
(***************************************************************************)
Accepts(r) ==
    CASE r.kind \in {"check", "data"} ->
            IF r.stage = "renew" THEN r.carried.renewable ELSE r.carried.live
      [] r.kind = "login" -> r.as \in accounts
      [] r.kind = "signup" -> accounts = {}
      [] r.kind \in {"owner_login", "owner_signup"} -> accounts # {}
      [] r.kind = "logout" -> TRUE
Verdict(r) == IF Accepts(r) THEN "ok" ELSE "refused"

\* What the tokens decide is decided when they are sent; what depends on the
\* accounts, when the server comes to it.
Pending(r) == r.answer = "none" /\ r.kind \notin {"check", "data", "logout"}
AnswerTo(r) == IF r.kind \in {"check", "data", "logout"} THEN Verdict(r) ELSE r.answer

Serve(r) ==
    /\ Pending(r)
    /\ net' = (net \ {r}) \cup {[r EXCEPT !.answer = Verdict(r)]}
    /\ accounts' = IF r.kind = "signup" /\ Accepts(r) THEN accounts \cup {r.as} ELSE accounts
    /\ UNCHANGED <<cookies, tab, issued, disturbed, left>>

(***************************************************************************)
(* Answers.                                                                *)
(***************************************************************************)
SetCookies(u) ==
    /\ issued' = issued + 1
    /\ cookies' = Tokens(u, issued')

\* MUTANT: only a check with a user ends.
CheckedOnAnswer(page, u) == IF u # None THEN [page EXCEPT !.checked = TRUE, !.user = u] ELSE page
\* UserContext after its check: who is signed in, if the server said so.
Checked(page, u) == [page EXCEPT !.checked = TRUE, !.user = IF u # None THEN u ELSE @]

\* authFetch is done with a request, and whoever sent it goes on.
Finish(r, u, n) ==
    IF r.kind = "check" THEN Go(r.tab, Checked(tab[r.tab], u), n)
    ELSE tab' = tab /\ net' = n

\* MUTANT: a refused request signs out at once.
AfterRefusalAtOnce(r, rest) ==
    Finish(r, None, Redirected(tab[r.tab], r.tab, "refused", r.carried.number, rest))
\* authFetch is refused: by tokens that have expired, it renews them and asks
\* again; without tokens to renew, it signs out.
AfterRefusal(r, rest) ==
    IF r.stage = "ask"
    THEN /\ net' = rest \cup {Request(r.tab, r.kind, "renew", cookies)}
         /\ tab' = tab
    ELSE Finish(r, None, Redirected(tab[r.tab], r.tab, "refused", r.carried.number, rest))

ReceiveRefusal(r) ==
    /\ r.kind \in {"check", "data"} /\ AnswerTo(r) = "refused"
    /\ UNCHANGED <<accounts, cookies, issued, disturbed, left>>
    /\ AfterRefusal(r, net \ {r})

ReceiveTokens(r) ==
    /\ r.stage = "renew" /\ AnswerTo(r) = "ok"
    /\ SetCookies(r.carried.user)
    /\ net' = (net \ {r}) \cup {Request(r.tab, r.kind, "again", cookies')}
    /\ UNCHANGED <<accounts, tab, disturbed, left>>

ReceiveContent(r) ==
    /\ r.kind \in {"check", "data"} /\ r.stage # "renew" /\ AnswerTo(r) = "ok"
    /\ UNCHANGED <<accounts, cookies, issued, disturbed, left>>
    /\ Finish(r, r.carried.user, net \ {r})

\* The login page sends its visitors to sign up while there is no owner, the
\* sign-up page back once there is, and the answer may come when they have left.
SentAway(r) ==
    \/ r.kind = "owner_login" /\ AnswerTo(r) = "refused"
    \/ r.kind = "owner_signup" /\ AnswerTo(r) = "ok"
\* Moves the tab of a sign-in page's request, wherever that tab is by now.
Move(r, path) ==
    /\ Go(r.tab, [tab[r.tab] EXCEPT !.path = path], net \ {r})
    /\ disturbed' = IF tab[r.tab].path # SentFrom(r.kind) THEN disturbed \cup {r.tab} ELSE disturbed
Stay(r) == net' = net \ {r} /\ UNCHANGED <<tab, disturbed>>

ReceiveOwner(r) ==
    /\ r.kind \in {"owner_login", "owner_signup"} /\ ~Pending(r)
    /\ UNCHANGED <<accounts, cookies, issued, left>>
    /\ IF SentAway(r) THEN Move(r, IF r.kind = "owner_login" THEN "signup" ELSE "login")
       ELSE Stay(r)

ReceiveSignup(r) ==
    /\ r.kind = "signup" /\ ~Pending(r)
    /\ UNCHANGED <<accounts, cookies, issued, left>>
    /\ IF r.answer = "ok" THEN Move(r, "login") ELSE Stay(r)

\* A sign-in that is accepted opens the application.
ReceiveLogin(r) ==
    /\ r.kind = "login" /\ ~Pending(r)
    /\ IF r.answer = "ok" THEN SetCookies(r.as) /\ Move(r, "app")
       ELSE Stay(r) /\ UNCHANGED <<cookies, issued>>
    /\ UNCHANGED <<accounts, left>>

\* A logout reloads the tab on the login page, answered or not.
ReceiveLogout(r) ==
    /\ r.kind = "logout" /\ ~Pending(r)
    /\ cookies' = NoCookies
    /\ Load(r.tab, "login", net)
    /\ UNCHANGED <<accounts, issued, left>>

Receive(r) ==
    \/ ReceiveRefusal(r) \/ ReceiveTokens(r) \/ ReceiveContent(r)
    \/ ReceiveOwner(r) \/ ReceiveSignup(r) \/ ReceiveLogin(r) \/ ReceiveLogout(r)

(***************************************************************************)
(* Faults: an answer that never comes, and tokens that expire.             *)
(***************************************************************************)
\* refreshTokens takes no answer for a refusal; a check gives up.
Lose(r) ==
    /\ left.faults > 0 /\ left' = [left EXCEPT !.faults = @ - 1]
    /\ UNCHANGED <<accounts, cookies, issued>>
    /\ LET rest == net \ {r} IN
       IF r.kind = "logout" THEN Load(r.tab, "login", net)
       ELSE /\ disturbed' = IF r.kind = "check" THEN disturbed \cup {r.tab} ELSE disturbed
            /\ IF r.kind \in {"check", "data"}
               THEN Finish(r, None, IF r.stage = "renew"
                                    THEN Redirected(tab[r.tab], r.tab, "lost", r.carried.number, rest)
                                    ELSE rest)
               ELSE tab' = tab /\ net' = rest

\* The idToken lasts an hour, the refreshToken thirty days.
Expire ==
    /\ left.expiries > 0 /\ left' = [left EXCEPT !.expiries = @ - 1]
    /\ cookies.renewable
    /\ cookies' = IF cookies.live THEN [cookies EXCEPT !.live = FALSE]
                  ELSE [cookies EXCEPT !.renewable = FALSE]
    /\ UNCHANGED <<accounts, tab, net, issued, disturbed>>

NetworkStep == \E r \in net : Serve(r) \/ Receive(r) \/ Lose(r)
Next == UserStep \/ NetworkStep \/ Expire

\* Requests are served and answered, or fail; users need do nothing.
Fairness ==
    \A t \in Tabs, kind \in Kinds :
       WF_vars(\E r \in net : r.tab = t /\ r.kind = kind /\ (Serve(r) \/ Receive(r)))
Spec == Init /\ [][Next]_vars /\ Fairness

(***************************************************************************)
(* Properties.                                                             *)
(***************************************************************************)
Cookies == [user : Users \cup {None}, number : Nat, live : BOOLEAN, renewable : BOOLEAN]

\* Every part has its type, and a page behind ProtectedRoute is shown only
\* while it is asked for whom or once that is known.
TypeOK ==
    /\ accounts \subseteq Users
    /\ cookies \in Cookies
    /\ tab \in [Tabs -> [path : Paths \cup {"closed"}, user : Users \cup {None}, checked : BOOLEAN]]
    /\ \A r \in net : r.tab \in Tabs /\ r.kind \in Kinds /\ r.carried \in Cookies
    /\ \A t \in Tabs : tab[t].path = "app" =>
          tab[t].user # None \/ (~tab[t].checked /\ Asking(t, "check", net))

\* A failed check is forgotten by a reload: a login page that still holds a
\* check without a user, and would send back who signs in there, has a logout
\* under way that reloads it, unless the check got no answer or a late answer
\* moved the tab. The reload may be too late: see SignInsAreNotTurnedBack.
FailedChecksEndInAReload ==
    \A t \in Tabs :
       tab[t].path = "login" /\ tab[t].checked /\ tab[t].user = None =>
          t \in disturbed \/ Asking(t, "logout", net)

\* A tab tries to renew its tokens before it gives them up: an automatic
\* sign-out that finds in the browser the tokens its request was refused with
\* finds them past renewal. It says nothing of tokens that another tab has got
\* since then: see RefusalsEndNoSession.
TokensAreTriedFirst ==
    [][\A r \in net :
          r.kind = "logout" /\ r.cause = "refused" /\ ReceiveLogout(r) =>
             ~cookies.renewable \/ cookies.number # r.about]_vars

\* A tab never waits for ever on its check.
ChecksSettle ==
    \A t \in Tabs : tab[t].path = "app" /\ ~tab[t].checked ~>
                        tab[t].checked \/ tab[t].path # "app"

\* What a user expects, and no run checks: the code does otherwise.

\* Who signs in is let in. Violated: a refused check routes the tab to the
\* login page before its logout is answered; who has signed in by then is routed
\* back there, and the logout clears the new cookies.
SignInsAreNotTurnedBack ==
    [][\A r \in net :
          r.kind = "login" /\ r.answer = "ok" /\ ReceiveLogin(r) =>
             r.tab \in disturbed' \/ tab'[r.tab].path = "app"]_vars

\* A refused tab signs nobody out. Violated: while its logout is under way
\* another tab signs in, and the logout clears the cookies of that session.
RefusalsEndNoSession ==
    [][\A r \in net :
          r.kind = "logout" /\ r.cause = "refused" /\ ReceiveLogout(r) =>
             ~cookies.renewable]_vars

\* auth.ts says of pages that are shown to everybody: "an expired/missing
\* session here is normal, not a reason to bounce the visitor to /login/".
\* Violated for the marketing and the statistics page: UserProvider checks on
\* them, and a visitor who is not signed in is sent to the login page.
VisitorsMayStay ==
    [][\A t \in Tabs :
          tab[t].path = "home" /\ left'.actions = left.actions => tab'[t].path = "home"]_vars
=============================================================================
