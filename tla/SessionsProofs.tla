---------------------------- MODULE SessionsProofs ----------------------------
(***************************************************************************)
(* Proofs about Sessions, for every number of tabs and users, and however  *)
(* often users act, tokens expire and answers are lost.                    *)
(***************************************************************************)
EXTENDS Sessions, TLAPS

-----------------------------------------------------------------------------
(* The inductive invariant: what each part of the state may hold, what the *)
(* tokens in a request say of the cookies, and how a tab's page stands to  *)
(* its own requests.                                                       *)

Stages  == {"ask", "renew", "again"}
Answers == {"none", "ok", "refused"}
Causes  == {"none", "user", "refused", "lost"}
Pages   == [path : Paths \cup {"closed"}, user : Users \cup {None}, checked : BOOLEAN]
Requests ==
    [tab : Tabs, kind : Kinds, stage : Stages, carried : Cookies, answer : Answers,
     as : Users \cup {None}, cause : Causes, about : Nat]

\* Signing in and up name a user; only authFetch's requests renew tokens; a
\* request sent again carries the tokens just issued.
WellFormed(r) ==
    /\ r \in Requests
    /\ r.kind \in {"login", "signup"} => r.as \in Users
    /\ r.stage = "renew" => r.kind \in {"check", "data"}
    /\ r.stage = "again" => r.carried.live

StateOK ==
    /\ accounts \subseteq Users
    /\ cookies \in Cookies
    /\ tab \in [Tabs -> Pages]
    /\ issued \in Nat
    /\ \A r \in net : WellFormed(r)

\* Tokens are some user's, unless they are good for nothing.
Owned(c) == c.live \/ c.renewable => c.user \in Users

\* Where the browser holds cookies c and n token pairs have been issued: a
\* request's tokens of the same number are the same tokens or older, and a
\* logout that was refused about tokens was refused for good.
NoNewer(r, c, n) ==
    /\ r.carried.number <= n /\ r.about <= n /\ Owned(r.carried)
    /\ r.kind \in {"check", "data"} /\ r.carried.number = c.number /\ c.renewable
          => r.carried.renewable
    /\ r.kind = "logout" /\ r.cause = "refused" /\ r.about = c.number => ~c.renewable

TokensOK ==
    /\ cookies.number <= issued /\ Owned(cookies)
    /\ \A r \in net : NoNewer(r, cookies, issued)

\* A tab has one check under way at most.
ChecksOnce(t, n) ==
    \A q, r \in n : q.tab = t /\ r.tab = t /\ q.kind = "check" /\ r.kind = "check" => q = r

\* Page p of tab t, with the requests n under way.
PageOK(p, t, n, excused) ==
    /\ p.path = "app" => p.user # None \/ (~p.checked /\ Asking(t, "check", n))
    /\ p.checked /\ p.user = None => excused \/ Asking(t, "logout", n)
    /\ p.path \in PublicPaths /\ Asking(t, "check", n) => excused \/ p.user # None
    /\ Asking(t, "check", n) => ~p.checked \/ p.user # None
    /\ ChecksOnce(t, n)

PagesOK == \A t \in Tabs : PageOK(tab[t], t, net, t \in disturbed)

IInv == StateOK /\ TokensOK /\ PagesOK

-----------------------------------------------------------------------------
(* Requests.                                                               *)

LEMMA RequestFields ==
  ASSUME NEW t, NEW k, NEW s, NEW c
  PROVE  /\ Request(t, k, s, c).tab = t /\ Request(t, k, s, c).kind = k
         /\ Request(t, k, s, c).stage = s /\ Request(t, k, s, c).carried = c
         /\ Request(t, k, s, c).cause = "none" /\ Request(t, k, s, c).about = 0
BY DEF Request

LEMMA RequestIsWellFormed ==
  ASSUME NEW t \in Tabs, NEW k \in Kinds \ {"login", "signup"}, NEW s \in Stages,
         NEW c \in Cookies,
         s = "renew" => k \in {"check", "data"}, s = "again" => c.live
  PROVE  WellFormed(Request(t, k, s, c))
BY DEF WellFormed, Request, Requests, Kinds, Stages, Answers, Causes

LEMMA SubmitIsWellFormed ==
  ASSUME NEW t \in Tabs, NEW k \in {"login", "signup"}, NEW c \in Cookies, NEW u \in Users
  PROVE  /\ WellFormed([Request(t, k, "ask", c) EXCEPT !.as = u])
         /\ [Request(t, k, "ask", c) EXCEPT !.as = u].tab = t
         /\ [Request(t, k, "ask", c) EXCEPT !.as = u].kind = k
         /\ [Request(t, k, "ask", c) EXCEPT !.as = u].carried = c
         /\ [Request(t, k, "ask", c) EXCEPT !.as = u].about = 0
BY DEF WellFormed, Request, Requests, Kinds, Stages, Answers, Causes

LEMMA LogoutIsWellFormed ==
  ASSUME NEW t \in Tabs, cookies \in Cookies, NEW cause \in Causes, NEW about \in Nat
  PROVE  /\ WellFormed(Logout(t, cause, about))
         /\ Logout(t, cause, about).tab = t /\ Logout(t, cause, about).kind = "logout"
         /\ Logout(t, cause, about).carried = cookies
         /\ Logout(t, cause, about).cause = cause /\ Logout(t, cause, about).about = about
BY DEF WellFormed, Logout, Request, Requests, Kinds, Stages, Answers, Causes

LEMMA AnsweredIsWellFormed ==
  ASSUME NEW r, WellFormed(r), NEW a \in Answers
  PROVE  /\ WellFormed([r EXCEPT !.answer = a])
         /\ [r EXCEPT !.answer = a].tab = r.tab /\ [r EXCEPT !.answer = a].kind = r.kind
         /\ [r EXCEPT !.answer = a].carried = r.carried
         /\ [r EXCEPT !.answer = a].cause = r.cause /\ [r EXCEPT !.answer = a].about = r.about
BY DEF WellFormed, Requests

\* Asking is what Add sees to, at most one request at a time.
LEMMA AddFacts ==
  ASSUME NEW r, NEW n
  PROVE  /\ n \subseteq Add(r, n) /\ Add(r, n) \subseteq n \cup {r}
         /\ Asking(r.tab, r.kind, Add(r, n))
         /\ \A t : ChecksOnce(t, n) => ChecksOnce(t, Add(r, n))
         /\ \A t, k : Asking(t, k, n) => Asking(t, k, Add(r, n))
         /\ \A t, k : Asking(t, k, Add(r, n)) /\ (t # r.tab \/ k # r.kind) => Asking(t, k, n)
BY DEF Add, Asking, ChecksOnce

-----------------------------------------------------------------------------
(* What a step must show to keep the invariant.                            *)

\* A request that may be under way after the step.
Sound(r) == WellFormed(r) /\ NoNewer(r, cookies', issued')

NetSound(n) == \A r \in n : r \in net \/ Sound(r)

CookiesAfter ==
    /\ cookies' \in Cookies /\ issued' \in Nat
    /\ cookies'.number <= issued' /\ Owned(cookies')
    /\ \A r \in net : NoNewer(r, cookies', issued')

\* Sets of requests that differ in those of tab t only.
Apart(t, n, m) == \A r \in n \cup m : r.tab # t => r \in n /\ r \in m

LEMMA StateStep ==
  ASSUME StateOK, CookiesAfter, accounts' \subseteq Users, tab' \in [Tabs -> Pages],
         NetSound(net')
  PROVE  StateOK' /\ TokensOK'
<1>1. \A r \in net' : WellFormed(r) /\ NoNewer(r, cookies', issued')
  BY DEF StateOK, CookiesAfter, NetSound, Sound
<1>2. StateOK'
  BY <1>1 DEF StateOK, CookiesAfter
<1>3. TokensOK'
  BY <1>1 DEF TokensOK, CookiesAfter
<1> QED
  BY <1>2, <1>3

LEMMA PageStaysApart ==
  ASSUME NEW t, NEW x, x # t, NEW n, NEW m, Apart(t, n, m), NEW p, NEW e
  PROVE  PageOK(p, x, n, e) <=> PageOK(p, x, m, e)
<1>1. \A k : Asking(x, k, n) <=> Asking(x, k, m)
  BY DEF Asking, Apart
<1>2. ChecksOnce(x, n) <=> ChecksOnce(x, m)
  BY DEF ChecksOnce, Apart
<1> QED
  BY <1>1, <1>2 DEF PageOK

LEMMA PagesStep ==
  ASSUME PagesOK, NEW t \in Tabs, Apart(t, net, net'),
         \A x \in Tabs : x # t => tab'[x] = tab[x] /\ (x \in disturbed' <=> x \in disturbed),
         PageOK(tab'[t], t, net', t \in disturbed')
  PROVE  PagesOK'
<1> SUFFICES ASSUME NEW x \in Tabs, x # t
             PROVE  PageOK(tab'[x], x, net', x \in disturbed')
  BY DEF PagesOK
<1>1. PageOK(tab[x], x, net, x \in disturbed)
  BY DEF PagesOK
<1>2. PageOK(tab[x], x, net', x \in disturbed)
  BY <1>1, PageStaysApart
<1> QED
  BY <1>2 DEF PageOK

\* Cookies that stay.
LEMMA CookiesStay ==
  ASSUME StateOK, TokensOK, UNCHANGED <<cookies, issued>>
  PROVE  CookiesAfter
BY DEF StateOK, TokensOK, CookiesAfter

\* Cookies that a renewal or a sign-in issues.
LEMMA CookiesSet ==
  ASSUME StateOK, TokensOK, NEW u \in Users, SetCookies(u)
  PROVE  CookiesAfter /\ cookies'.live
<1>1. issued \in Nat /\ issued' = issued + 1 /\ cookies' = Tokens(u, issued')
  BY DEF StateOK, SetCookies
<1>2. cookies' \in Cookies /\ Owned(cookies') /\ cookies'.number = issued + 1 /\ cookies'.live
  BY <1>1 DEF Tokens, Cookies, Owned
<1>3. ASSUME NEW r \in net
      PROVE  NoNewer(r, cookies', issued')
  <2>1. r.carried.number \in Nat /\ r.about \in Nat /\ NoNewer(r, cookies, issued)
    BY DEF StateOK, WellFormed, Requests, Cookies, TokensOK
  <2>2. /\ r.carried.number <= issued /\ r.about <= issued /\ Owned(r.carried)
    BY <2>1 DEF NoNewer
  <2>3. /\ r.carried.number <= issued' /\ r.about <= issued'
        /\ r.carried.number # cookies'.number /\ r.about # cookies'.number
    BY <1>1, <1>2, <2>1, <2>2
  <2> QED
    BY <2>2, <2>3 DEF NoNewer
<1> QED
  BY <1>1, <1>2, <1>3 DEF CookiesAfter

\* Cookies that a logout clears.
LEMMA CookiesCleared ==
  ASSUME StateOK, TokensOK, cookies' = NoCookies, issued' = issued
  PROVE  CookiesAfter
<1>1. cookies' \in Cookies /\ cookies'.number = 0 /\ ~cookies'.live /\ ~cookies'.renewable
  BY DEF NoCookies, Cookies
<1>2. \A r \in net : NoNewer(r, cookies', issued')
  BY <1>1 DEF TokensOK, NoNewer
<1> QED
  BY <1>1, <1>2 DEF CookiesAfter, Owned, StateOK

LEMMA ExpireKeeps == IInv /\ Expire => IInv'
<1> SUFFICES ASSUME IInv, Expire PROVE IInv'
  OBVIOUS
<1>1. UNCHANGED <<accounts, tab, net, issued, disturbed>> /\ cookies \in Cookies
  BY DEF Expire, IInv, StateOK
<1>2. /\ cookies' \in Cookies /\ cookies'.number = cookies.number /\ cookies'.user = cookies.user
      /\ cookies.renewable /\ (cookies'.renewable => cookies.renewable)
  BY <1>1 DEF Expire, Cookies
<1>3. CookiesAfter
  <2>1. Owned(cookies')
    BY <1>2 DEF IInv, TokensOK, Owned
  <2>2. \A r \in net : NoNewer(r, cookies', issued')
    BY <1>1, <1>2 DEF IInv, TokensOK, NoNewer
  <2> QED
    BY <1>1, <1>2, <2>1, <2>2 DEF CookiesAfter, IInv, TokensOK, StateOK
<1>4. StateOK' /\ TokensOK'
  BY <1>1, <1>3, StateStep DEF IInv, StateOK, NetSound
<1>5. PagesOK'
  BY <1>1 DEF IInv, PagesOK
<1> QED
  BY <1>4, <1>5 DEF IInv

-----------------------------------------------------------------------------
(* Moving a tab to a page, and loading one.                                *)

LEMMA RoutedFacts ==
  ASSUME NEW page \in Pages
  PROVE  /\ Routed(page) \in Pages
         /\ Routed(page).user = page.user /\ Routed(page).checked = page.checked
         /\ \/ Routed(page) = page /\ ~(page.path = "app" /\ page.checked /\ page.user = None)
            \/ /\ page.path = "app" /\ page.checked /\ page.user = None
               /\ Routed(page).path = "login"
BY DEF Routed, Pages, Paths

LEMMA CheckedFacts ==
  ASSUME NEW page \in Pages, NEW u \in Users \cup {None}
  PROVE  /\ Checked(page, u) \in Pages
         /\ Checked(page, u).path = page.path /\ Checked(page, u).checked
         /\ Checked(page, u).user = IF u # None THEN u ELSE page.user
BY DEF Checked, Pages

LEMMA ChecksAndOwners ==
  ASSUME NEW t \in Tabs, NEW k \in {"check", "owner_login", "owner_signup"}, CookiesAfter
  PROVE  Sound(Request(t, k, "ask", cookies'))
<1>1. cookies' \in Cookies
  BY DEF CookiesAfter
<1>2. WellFormed(Request(t, k, "ask", cookies'))
  BY <1>1, RequestIsWellFormed DEF Kinds, Stages
<1> DEFINE r == Request(t, k, "ask", cookies')
<1>3. r.carried = cookies' /\ r.about = 0 /\ r.kind = k
  BY RequestFields
<1> HIDE DEF r
<1>4. NoNewer(r, cookies', issued')
  BY <1>3 DEF NoNewer, CookiesAfter
<1> QED
  BY <1>2, <1>4 DEF Sound, r

\* What a page asks for when it is shown.
LEMMA ShownFacts ==
  ASSUME CookiesAfter, NEW t \in Tabs, NEW page \in Pages, NEW n, NetSound(n)
  PROVE  /\ NetSound(Shown(page, t, n)) /\ n \subseteq Shown(page, t, n)
         /\ Apart(t, n, Shown(page, t, n))
         /\ ChecksOnce(t, n) => ChecksOnce(t, Shown(page, t, n))
         /\ \A k : Asking(t, k, n) => Asking(t, k, Shown(page, t, n))
         /\ page.path = "app" /\ ~page.checked => Asking(t, "check", Shown(page, t, n))
         /\ page.path # "app" \/ page.checked =>
               (Asking(t, "check", Shown(page, t, n)) <=> Asking(t, "check", n))
<1> DEFINE own == Request(t, OwnerAsked(page.path), "ask", cookies')
           chk == Request(t, "check", "ask", cookies')
<1>1. Sound(own) /\ own.tab = t /\ own.kind # "check"
  BY ChecksAndOwners, RequestFields DEF OwnerAsked
<1>2. Sound(chk) /\ chk.tab = t /\ chk.kind = "check"
  BY ChecksAndOwners, RequestFields
<1>3. CASE page.path \in PublicPaths
  <2>1. Shown(page, t, n) = Add(own, n) /\ page.path # "app"
    BY <1>3 DEF Shown, PublicPaths
  <2> HIDE DEF own
  <2> QED
    BY <1>1, <2>1, AddFacts DEF NetSound, Apart
<1>4. CASE page.path = "app" /\ ~page.checked
  <2>1. Shown(page, t, n) = Add(chk, n)
    BY <1>4 DEF Shown, PublicPaths
  <2> HIDE DEF chk
  <2> QED
    BY <1>2, <1>4, <2>1, AddFacts DEF NetSound, Apart
<1>5. CASE page.path \notin PublicPaths /\ ~(page.path = "app" /\ ~page.checked)
  <2>1. Shown(page, t, n) = n
    BY <1>5 DEF Shown
  <2> QED
    BY <1>5, <2>1 DEF Apart
<1> QED
  BY <1>3, <1>4, <1>5

\* When a tab may be moved to a page: as PageOK, but that ProtectedRoute may
\* still send the tab away, or the page, newly shown, ask who is signed in.
MayGo(p, t, n, excused) ==
    /\ p.path = "app" /\ tab[t].path = "app" =>
          p.user # None \/ p.checked \/ Asking(t, "check", n)
    /\ p.checked /\ p.user = None => excused \/ Asking(t, "logout", n)
    /\ p.path \in PublicPaths /\ Asking(t, "check", n) => excused \/ p.user # None
    /\ Asking(t, "check", n) => ~p.checked \/ p.user # None
    /\ ChecksOnce(t, n)

LEMMA GoFacts ==
  ASSUME StateOK, CookiesAfter, NEW t \in Tabs, NEW page \in Pages,
         NEW n, NetSound(n), Apart(t, net, n),
         NEW e, MayGo(page, t, n, e), Go(t, page, n)
  PROVE  /\ tab' \in [Tabs -> Pages] /\ \A x \in Tabs : x # t => tab'[x] = tab[x]
         /\ NetSound(net') /\ Apart(t, net, net')
         /\ PageOK(tab'[t], t, net', e)
<1> DEFINE p == Routed(page)
<1>1. /\ p \in Pages /\ p.user = page.user /\ p.checked = page.checked
      /\ \/ p = page /\ ~(page.path = "app" /\ page.checked /\ page.user = None)
         \/ page.path = "app" /\ page.checked /\ page.user = None /\ p.path = "login"
  BY RoutedFacts
<1>2. /\ tab' = [tab EXCEPT ![t] = p]
      /\ net' = IF p.path # tab[t].path THEN Shown(p, t, n) ELSE n
  BY DEF Go
<1>3. tab \in [Tabs -> Pages]
  BY DEF StateOK
<1> HIDE DEF p
<1>4. tab' \in [Tabs -> Pages] /\ tab'[t] = p /\ \A x \in Tabs : x # t => tab'[x] = tab[x]
  BY <1>1, <1>2, <1>3
<1>5. /\ NetSound(Shown(p, t, n)) /\ n \subseteq Shown(p, t, n)
      /\ Apart(t, n, Shown(p, t, n))
      /\ ChecksOnce(t, n) => ChecksOnce(t, Shown(p, t, n))
      /\ \A k : Asking(t, k, n) => Asking(t, k, Shown(p, t, n))
      /\ p.path = "app" /\ ~p.checked => Asking(t, "check", Shown(p, t, n))
      /\ p.path # "app" \/ p.checked =>
            (Asking(t, "check", Shown(p, t, n)) <=> Asking(t, "check", n))
  BY <1>1, ShownFacts
<1>6. NetSound(net') /\ Apart(t, net, net')
  <2>1. Apart(t, n, net')
    BY <1>2, <1>5 DEF Apart
  <2> QED
    BY <1>2, <1>5, <2>1 DEF Apart
<1>7. p.checked \in BOOLEAN
  BY <1>1 DEF Pages
<1>8. PageOK(p, t, net', e)
  <2>1. CASE net' = n
    <3>1. p.path = "app" => p.user # None \/ (~p.checked /\ Asking(t, "check", n))
      <4>1. SUFFICES ASSUME p.path = "app", p.user = None
                     PROVE  ~p.checked /\ Asking(t, "check", n)
        OBVIOUS
      <4>2. p = page /\ ~page.checked
        BY <1>1, <4>1
      <4>3. tab[t].path # "app" => Asking(t, "check", n)
        BY <1>2, <1>5, <2>1, <4>1, <4>2
      <4> QED
        BY <4>1, <4>2, <4>3 DEF MayGo
    <3>2. p.path \in PublicPaths /\ Asking(t, "check", n) => e \/ p.user # None
      BY <1>1 DEF MayGo
    <3> QED
      BY <1>1, <2>1, <3>1, <3>2 DEF MayGo, PageOK
  <2>2. CASE net' = Shown(p, t, n)
    <3>1. p.path = "app" => p.user # None \/ (~p.checked /\ Asking(t, "check", net'))
      BY <1>1, <1>5, <2>2
    <3>2. Asking(t, "check", net') => Asking(t, "check", n) \/ (p.path = "app" /\ ~p.checked)
      BY <1>5, <1>7, <2>2
    <3>3. p.path \in PublicPaths /\ Asking(t, "check", net') => e \/ p.user # None
      BY <1>1, <3>2 DEF MayGo, PublicPaths
    <3>4. Asking(t, "check", net') => ~p.checked \/ p.user # None
      BY <1>1, <3>2 DEF MayGo
    <3>5. p.checked /\ p.user = None => e \/ Asking(t, "logout", net')
      BY <1>1, <1>5, <2>2 DEF MayGo
    <3>6. ChecksOnce(t, net')
      BY <1>5, <2>2 DEF MayGo
    <3> QED
      BY <3>1, <3>3, <3>4, <3>5, <3>6 DEF PageOK
  <2> QED
    BY <1>2, <2>1, <2>2
<1> QED
  BY <1>4, <1>6, <1>8

LEMMA LoadFacts ==
  ASSUME StateOK, CookiesAfter, NEW t \in Tabs, NEW path \in Paths, Load(t, path, net)
  PROVE  /\ tab' \in [Tabs -> Pages]
         /\ \A x \in Tabs : x # t => tab'[x] = tab[x] /\ (x \in disturbed' <=> x \in disturbed)
         /\ NetSound(net') /\ Apart(t, net, net')
         /\ PageOK(tab'[t], t, net', t \in disturbed')
<1> DEFINE p    == Fresh(path)
           rest == {r \in net : r.tab # t}
           chk  == Request(t, "check", "ask", cookies')
<1>1. p \in Pages /\ p.path = path /\ ~p.checked /\ p.user = None
  BY DEF Fresh, Pages
<1>2. /\ tab' = [tab EXCEPT ![t] = p] /\ disturbed' = disturbed \ {t}
      /\ net' = IF path \in PublicPaths THEN Shown(p, t, rest) ELSE Add(chk, rest)
  BY DEF Load, Loaded
<1>3. tab \in [Tabs -> Pages]
  BY DEF StateOK
<1>4. NetSound(rest) /\ Apart(t, net, rest) /\ ChecksOnce(t, rest) /\ \A k : ~Asking(t, k, rest)
  BY DEF NetSound, Apart, ChecksOnce, Asking
<1>5. Sound(chk) /\ chk.tab = t /\ chk.kind = "check"
  BY ChecksAndOwners, RequestFields
<1> HIDE DEF p, rest, chk
<1>6. /\ tab' \in [Tabs -> Pages] /\ tab'[t] = p
      /\ \A x \in Tabs : x # t => tab'[x] = tab[x] /\ (x \in disturbed' <=> x \in disturbed)
  BY <1>1, <1>2, <1>3
<1>7. CASE path \in PublicPaths
  <2>1. net' = Shown(p, t, rest) /\ p.path # "app"
    BY <1>1, <1>2, <1>7 DEF PublicPaths
  <2>2. /\ NetSound(net') /\ Apart(t, rest, net') /\ ChecksOnce(t, net')
        /\ ~Asking(t, "check", net')
    BY <1>1, <1>4, <2>1, ShownFacts
  <2>3. Apart(t, net, net')
    BY <1>4, <2>2 DEF Apart
  <2> QED
    BY <1>1, <1>6, <2>1, <2>2, <2>3 DEF PageOK
<1>8. CASE path \notin PublicPaths
  <2>1. net' = Add(chk, rest)
    BY <1>2, <1>8
  <2>2. /\ rest \subseteq net' /\ net' \subseteq rest \cup {chk}
        /\ Asking(t, "check", net') /\ ChecksOnce(t, net')
    BY <1>4, <1>5, <2>1, AddFacts
  <2>3. NetSound(net') /\ Apart(t, net, net')
    BY <1>4, <1>5, <2>2 DEF NetSound, Apart
  <2> QED
    BY <1>1, <1>6, <1>8, <2>2, <2>3 DEF PageOK
<1> QED
  BY <1>7, <1>8

-----------------------------------------------------------------------------
(* Steps that leave the pages as they are.                                 *)

\* A request is put in the place of another of its kind.
LEMMA SwapStep ==
  ASSUME PagesOK, StateOK, NEW r \in net, NEW q, q.tab = r.tab, q.kind = r.kind,
         net' = (net \ {r}) \cup {q}, UNCHANGED <<tab, disturbed>>
  PROVE  PagesOK'
<1>1. r.tab \in Tabs
  BY DEF StateOK, WellFormed, Requests
<1> DEFINE t == r.tab
<1>2. \A k : Asking(t, k, net') <=> Asking(t, k, net)
  BY DEF Asking
<1>3. Apart(t, net, net')
  BY DEF Apart
<1>4. PageOK(tab[t], t, net, t \in disturbed)
  BY <1>1 DEF PagesOK
<1>5. ChecksOnce(t, net')
  <2>1. ChecksOnce(t, net)
    BY <1>4 DEF PageOK
  <2> QED
    BY <2>1 DEF ChecksOnce
<1>6. PageOK(tab'[t], t, net', t \in disturbed')
  BY <1>2, <1>4, <1>5 DEF PageOK
<1> QED
  BY <1>1, <1>3, <1>6, PagesStep

\* One request may go and one may come, neither of which a page waits for.
LEMMA DropStep ==
  ASSUME PagesOK, NEW t \in Tabs, Apart(t, net, net'), UNCHANGED <<tab, disturbed>>,
         \A r \in net \ net' : r.kind \notin {"check", "logout"},
         \A r \in net' \ net : r.kind # "check"
  PROVE  PagesOK'
<1>1. PageOK(tab[t], t, net, t \in disturbed)
  BY DEF PagesOK
<1>2. Asking(t, "check", net') <=> Asking(t, "check", net)
  BY DEF Asking
<1>3. Asking(t, "logout", net) => Asking(t, "logout", net')
  BY DEF Asking
<1>4. ChecksOnce(t, net')
  <2>1. ChecksOnce(t, net)
    BY <1>1 DEF PageOK
  <2> QED
    BY <2>1 DEF ChecksOnce
<1>5. PageOK(tab'[t], t, net', t \in disturbed')
  BY <1>1, <1>2, <1>3, <1>4 DEF PageOK
<1> QED
  BY <1>5, PagesStep

-----------------------------------------------------------------------------
(* What users do.                                                          *)

LEMMA OpenKeeps ==
  ASSUME IInv, NEW t \in Tabs, NEW path \in Paths, Open(t, path)
  PROVE  IInv'
<1>1. StateOK /\ TokensOK /\ PagesOK /\ UNCHANGED <<accounts, cookies, issued>> /\ Load(t, path, net)
  BY DEF IInv, Open
<1>2. CookiesAfter
  BY <1>1, CookiesStay
<1>3. /\ tab' \in [Tabs -> Pages] /\ NetSound(net')
      /\ PagesOK'
  BY <1>1, <1>2, LoadFacts, PagesStep
<1> QED
  BY <1>1, <1>2, <1>3, StateStep DEF IInv, StateOK

LEMMA EnterAppKeeps ==
  ASSUME IInv, NEW t \in Tabs, EnterApp(t)
  PROVE  IInv'
<1> DEFINE page == [tab[t] EXCEPT !.path = "app"]
<1>1. /\ StateOK /\ TokensOK /\ PagesOK /\ UNCHANGED <<accounts, cookies, issued, disturbed>>
      /\ tab[t].path = "home" /\ Go(t, page, net)
  BY DEF IInv, EnterApp
<1>2. CookiesAfter
  BY <1>1, CookiesStay
<1>3. /\ page \in Pages /\ page.path = "app"
      /\ page.user = tab[t].user /\ page.checked = tab[t].checked
  BY <1>1 DEF StateOK, Pages, Paths
<1>4. PageOK(tab[t], t, net, t \in disturbed')
  BY <1>1 DEF PagesOK
<1> HIDE DEF page
<1>5. MayGo(page, t, net, t \in disturbed')
  BY <1>1, <1>3, <1>4 DEF MayGo, PageOK, PublicPaths
<1>6. NetSound(net) /\ Apart(t, net, net)
  BY DEF NetSound, Apart
<1>7. /\ tab' \in [Tabs -> Pages] /\ \A x \in Tabs : x # t => tab'[x] = tab[x]
      /\ NetSound(net') /\ Apart(t, net, net')
      /\ PageOK(tab'[t], t, net', t \in disturbed')
  BY <1>1, <1>2, <1>3, <1>5, <1>6, GoFacts
<1>8. PagesOK'
  BY <1>1, <1>7, PagesStep
<1> QED
  BY <1>1, <1>2, <1>7, <1>8, StateStep DEF IInv, StateOK

LEMMA SubmitKeeps ==
  ASSUME IInv, NEW t \in Tabs, NEW k \in {"login", "signup"}, NEW u \in Users, Submit(t, k, u)
  PROVE  IInv'
<1> DEFINE q == [Request(t, k, "ask", cookies) EXCEPT !.as = u]
<1>1. /\ StateOK /\ TokensOK /\ PagesOK
      /\ UNCHANGED <<accounts, cookies, tab, issued, disturbed>> /\ net' = net \cup {q}
  BY DEF IInv, Submit
<1>2. WellFormed(q) /\ q.tab = t /\ q.kind = k /\ q.carried = cookies /\ q.about = 0
  BY <1>1, SubmitIsWellFormed DEF StateOK
<1> HIDE DEF q
<1>3. CookiesAfter
  BY <1>1, CookiesStay
<1>4. NoNewer(q, cookies', issued')
  BY <1>1, <1>2, <1>3 DEF NoNewer, CookiesAfter
<1>5. NetSound(net')
  BY <1>1, <1>2, <1>4 DEF NetSound, Sound
<1>6. PagesOK'
  BY <1>1, <1>2, DropStep DEF Apart
<1> QED
  BY <1>1, <1>3, <1>5, <1>6, StateStep DEF IInv, StateOK

\* A request is added by a tab that knows who is signed in.
LEMMA AskStep ==
  ASSUME IInv, NEW t \in Tabs, NEW q, q.tab = t, Sound(q),
         tab[t].path = "app", tab[t].user # None,
         net' = Add(q, net), UNCHANGED <<accounts, cookies, tab, issued, disturbed>>
  PROVE  IInv'
<1>1. StateOK /\ TokensOK /\ PagesOK
  BY DEF IInv
<1>2. CookiesAfter
  BY <1>1, CookiesStay
<1>3. net \subseteq net' /\ net' \subseteq net \cup {q}
      /\ (ChecksOnce(t, net) => ChecksOnce(t, net'))
  BY AddFacts
<1>4. NetSound(net') /\ Apart(t, net, net')
  BY <1>3 DEF NetSound, Apart
<1>5. PageOK(tab[t], t, net, t \in disturbed)
  BY <1>1 DEF PagesOK
<1>6. PageOK(tab'[t], t, net', t \in disturbed')
  BY <1>3, <1>5 DEF PageOK
<1>7. PagesOK'
  BY <1>1, <1>4, <1>6, PagesStep
<1> QED
  BY <1>1, <1>2, <1>4, <1>7, StateStep DEF IInv, StateOK

LEMMA UseAppKeeps ==
  ASSUME IInv, NEW t \in Tabs, NEW k \in {"check", "data"}, UseApp(t, k)
  PROVE  IInv'
<1> DEFINE q == Request(t, k, "ask", cookies)
<1>1. /\ StateOK /\ TokensOK /\ tab[t].path = "app" /\ tab[t].user # None
      /\ UNCHANGED <<accounts, cookies, tab, issued, disturbed>> /\ net' = Add(q, net)
  BY DEF IInv, UseApp
<1>2. WellFormed(q)
  BY <1>1, RequestIsWellFormed DEF StateOK, Kinds, Stages
<1>3. q.tab = t /\ q.kind = k /\ q.carried = cookies /\ q.about = 0
  BY RequestFields
<1> HIDE DEF q
<1>4. Sound(q)
  BY <1>1, <1>2, <1>3, CookiesStay DEF Sound, NoNewer, CookiesAfter
<1> QED
  BY <1>1, <1>3, <1>4, AskStep

LEMMA LogOutKeeps ==
  ASSUME IInv, NEW t \in Tabs, LogOut(t)
  PROVE  IInv'
<1> DEFINE q == Logout(t, "user", 0)
<1>1. /\ StateOK /\ TokensOK /\ tab[t].path = "app" /\ tab[t].user # None
      /\ UNCHANGED <<accounts, cookies, tab, issued, disturbed>> /\ net' = Add(q, net)
  BY DEF IInv, LogOut
<1>2. WellFormed(q) /\ q.tab = t /\ q.kind = "logout" /\ q.carried = cookies
      /\ q.cause = "user" /\ q.about = 0
  BY <1>1, LogoutIsWellFormed DEF StateOK, Causes
<1> HIDE DEF q
<1>3. Sound(q)
  BY <1>1, <1>2, CookiesStay DEF Sound, NoNewer, CookiesAfter
<1> QED
  BY <1>1, <1>2, <1>3, AskStep

LEMMA UserStepKeeps == IInv /\ UserStep => IInv'
BY OpenKeeps, EnterAppKeeps, SubmitKeeps, UseAppKeeps, LogOutKeeps DEF UserStep

-----------------------------------------------------------------------------
(* The server and the answers.                                             *)

LEMMA ServeKeeps ==
  ASSUME IInv, NEW r \in net, Serve(r)
  PROVE  IInv'
<1> DEFINE q == [r EXCEPT !.answer = Verdict(r)]
<1>1. /\ StateOK /\ TokensOK /\ PagesOK /\ Pending(r)
      /\ net' = (net \ {r}) \cup {q} /\ UNCHANGED <<cookies, tab, issued, disturbed>>
      /\ accounts' = IF r.kind = "signup" /\ Accepts(r) THEN accounts \cup {r.as} ELSE accounts
  BY DEF IInv, Serve
<1>2. WellFormed(r) /\ Verdict(r) \in Answers
  BY <1>1 DEF StateOK, Verdict, Answers
<1>3. /\ WellFormed(q) /\ q.tab = r.tab /\ q.kind = r.kind /\ q.carried = r.carried
      /\ q.cause = r.cause /\ q.about = r.about
  BY <1>2, AnsweredIsWellFormed
<1> HIDE DEF q
<1>4. CookiesAfter
  BY <1>1, CookiesStay
<1>5. NetSound(net')
  BY <1>1, <1>3, <1>4 DEF NetSound, Sound, NoNewer, CookiesAfter
<1>6. accounts' \subseteq Users
  BY <1>1, <1>2 DEF StateOK, WellFormed
<1>7. PagesOK'
  BY <1>1, <1>3, SwapStep
<1> QED
  BY <1>1, <1>4, <1>5, <1>6, <1>7, StateStep DEF IInv, StateOK

\* What authFetch leaves of a tab's requests when it is done with r: the
\* others, and perhaps a logout.
Done(r, n) ==
    /\ NetSound(n) /\ Apart(r.tab, net, n)
    /\ r \notin n /\ \A q \in net \ {r} : q \in n
    /\ \A q \in n \ net : q.kind = "logout"

LEMMA FinishKeeps ==
  ASSUME IInv, NEW r \in net, r.kind \in {"check", "data"}, UNCHANGED <<accounts, cookies, issued>>,
         NEW u \in Users \cup {None}, NEW n, Done(r, n), Finish(r, u, n),
         \A x \in Tabs : x # r.tab => (x \in disturbed' <=> x \in disturbed),
         r.tab \in disturbed => r.tab \in disturbed',
         r.kind = "data" => UNCHANGED disturbed,
         r.kind = "check" => \/ u # None \/ r.tab \in disturbed'
                             \/ tab[r.tab].path \in PublicPaths \/ Asking(r.tab, "logout", n)
  PROVE  IInv'
<1> DEFINE t == r.tab
<1>1. StateOK /\ TokensOK /\ PagesOK /\ t \in Tabs /\ CookiesAfter
  BY CookiesStay DEF IInv, StateOK, WellFormed, Requests
<1>2. NetSound(n) /\ Apart(t, net, n)
  BY DEF Done
<1>3. CASE r.kind = "data"
  <2>1. net' = n /\ UNCHANGED <<tab, disturbed>>
    BY <1>3 DEF Finish
  <2>2. /\ \A q \in net \ net' : q.kind \notin {"check", "logout"}
        /\ \A q \in net' \ net : q.kind # "check"
    BY <1>3, <2>1 DEF Done
  <2>3. PagesOK'
    BY <1>1, <1>2, <2>1, <2>2, DropStep
  <2> QED
    BY <1>1, <1>2, <2>1, <2>3, StateStep DEF IInv, StateOK
<1>4. CASE r.kind = "check"
  <2> DEFINE page == Checked(tab[t], u)
  <2>1. Go(t, page, n)
    BY <1>4 DEF Finish
  <2>2. /\ page \in Pages /\ page.path = tab[t].path /\ page.checked
        /\ page.user = IF u # None THEN u ELSE tab[t].user
    BY <1>1, CheckedFacts DEF StateOK
  <2> HIDE DEF page
  <2>3. PageOK(tab[t], t, net, t \in disturbed) /\ Asking(t, "check", net)
    BY <1>1, <1>4 DEF PagesOK, Asking
  <2>4. ~Asking(t, "check", n)
    BY <1>4, <2>3 DEF PageOK, ChecksOnce, Asking, Done
  <2>5. page.user = None => t \in disturbed' \/ Asking(t, "logout", n)
    BY <1>4, <2>2, <2>3 DEF PageOK
  <2>6. MayGo(page, t, n, t \in disturbed')
    BY <2>2, <2>4, <2>5 DEF MayGo, ChecksOnce, Asking
  <2>7. /\ tab' \in [Tabs -> Pages] /\ \A x \in Tabs : x # t => tab'[x] = tab[x]
        /\ NetSound(net') /\ Apart(t, net, net')
        /\ PageOK(tab'[t], t, net', t \in disturbed')
    BY <1>1, <1>2, <2>1, <2>2, <2>6, GoFacts
  <2>8. PagesOK'
    BY <1>1, <2>7, PagesStep
  <2> QED
    BY <1>1, <2>7, <2>8, StateStep DEF IInv, StateOK
<1> QED
  BY <1>3, <1>4

\* A tab that signs the browser out, unless it shows a sign-in page.
LEMMA RedirectedFacts ==
  ASSUME IInv, NEW r \in net, UNCHANGED <<cookies, issued>>, NEW cause \in {"refused", "lost"},
         cause = "refused" => ~(cookies.renewable /\ cookies.number = r.carried.number)
  PROVE  LET n == Redirected(tab[r.tab], r.tab, cause, r.carried.number, net \ {r})
         IN  /\ r.kind # "logout" => Done(r, n)
             /\ tab[r.tab].path \in PublicPaths \/ Asking(r.tab, "logout", n)
<1> DEFINE t == r.tab
           m == net \ {r}
           q == Logout(t, cause, r.carried.number)
           n == Redirected(tab[t], t, cause, r.carried.number, m)
<1>1. StateOK /\ TokensOK /\ CookiesAfter /\ t \in Tabs
  BY CookiesStay DEF IInv, StateOK, WellFormed, Requests
<1>2. r.carried.number \in Nat /\ r.carried.number <= issued
  BY <1>1 DEF StateOK, WellFormed, Requests, Cookies, TokensOK, NoNewer
<1>3. /\ WellFormed(q) /\ q.tab = t /\ q.kind = "logout" /\ q.carried = cookies
      /\ q.cause = cause /\ q.about = r.carried.number
  BY <1>1, <1>2, LogoutIsWellFormed DEF StateOK, Causes
<1>4. n = IF tab[t].path \in PublicPaths THEN m ELSE Add(q, m)
  BY DEF Redirected
<1> HIDE DEF q, n
<1>5. Sound(q)
  BY <1>1, <1>2, <1>3 DEF Sound, NoNewer, CookiesAfter
<1>6. /\ m \subseteq Add(q, m) /\ Add(q, m) \subseteq m \cup {q}
      /\ Asking(t, "logout", Add(q, m))
  BY <1>3, AddFacts
<1>7. tab[t].path \in PublicPaths \/ Asking(t, "logout", n)
  BY <1>4, <1>6
<1>8. r.kind # "logout" => Done(r, n)
  BY <1>3, <1>4, <1>5, <1>6 DEF Done, NetSound, Apart
<1> QED
  BY <1>7, <1>8 DEF n

LEMMA ReceiveRefusalKeeps ==
  ASSUME IInv, NEW r \in net, ReceiveRefusal(r)
  PROVE  IInv'
<1>1. /\ r.kind \in {"check", "data"} /\ Verdict(r) = "refused"
      /\ UNCHANGED <<accounts, cookies, issued, disturbed>>
      /\ AfterRefusal(r, net \ {r})
  BY DEF ReceiveRefusal, AnswerTo
<1>2. StateOK /\ TokensOK /\ PagesOK /\ CookiesAfter /\ WellFormed(r) /\ r.tab \in Tabs
  BY <1>1, CookiesStay DEF IInv, StateOK, WellFormed, Requests
<1>3. CASE r.stage = "ask"
  <2> DEFINE q == Request(r.tab, r.kind, "renew", cookies)
  <2>1. net' = (net \ {r}) \cup {q} /\ UNCHANGED <<tab, disturbed>>
    BY <1>1, <1>3 DEF AfterRefusal
  <2>2. WellFormed(q)
    BY <1>1, <1>2, RequestIsWellFormed DEF StateOK, Kinds, Stages
  <2>3. q.tab = r.tab /\ q.kind = r.kind /\ q.carried = cookies /\ q.about = 0
    BY RequestFields
  <2> HIDE DEF q
  <2>4. Sound(q)
    BY <1>1, <1>2, <2>2, <2>3 DEF Sound, NoNewer, CookiesAfter
  <2>5. NetSound(net')
    BY <2>1, <2>4 DEF NetSound
  <2>6. PagesOK'
    BY <1>2, <2>1, <2>3, SwapStep
  <2> QED
    BY <1>1, <1>2, <2>1, <2>5, <2>6, StateStep DEF IInv, StateOK
<1>4. CASE r.stage # "ask"
  <2> DEFINE n == Redirected(tab[r.tab], r.tab, "refused", r.carried.number, net \ {r})
  <2>1. Finish(r, None, n)
    BY <1>1, <1>4 DEF AfterRefusal
  <2>2. ~r.carried.renewable
    BY <1>1, <1>2, <1>4 DEF Verdict, Accepts, WellFormed, Requests, Stages
  <2>3. ~(cookies.renewable /\ cookies.number = r.carried.number)
    BY <1>1, <1>2, <2>2 DEF TokensOK, NoNewer
  <2>4. Done(r, n) /\ (tab[r.tab].path \in PublicPaths \/ Asking(r.tab, "logout", n))
    BY <1>1, <2>3, RedirectedFacts
  <2> HIDE DEF n
  <2> QED
    BY <1>1, <2>1, <2>4, FinishKeeps
<1> QED
  BY <1>3, <1>4

LEMMA ReceiveTokensKeeps ==
  ASSUME IInv, NEW r \in net, ReceiveTokens(r)
  PROVE  IInv'
<1> DEFINE q == Request(r.tab, r.kind, "again", cookies')
<1>1. /\ r.stage = "renew" /\ SetCookies(r.carried.user)
      /\ net' = (net \ {r}) \cup {q} /\ UNCHANGED <<accounts, tab, disturbed>>
  BY DEF ReceiveTokens
<1>2. StateOK /\ TokensOK /\ PagesOK /\ WellFormed(r)
      /\ r.tab \in Tabs /\ r.kind \in {"check", "data"}
  BY <1>1 DEF IInv, StateOK, WellFormed, Requests
<1>3. r.carried.user \in Users
  BY <1>1, <1>2 DEF ReceiveTokens, AnswerTo, Verdict, Accepts, TokensOK, NoNewer, Owned
<1>4. CookiesAfter /\ cookies'.live
  BY <1>1, <1>2, <1>3, CookiesSet
<1>5. WellFormed(q)
  BY <1>2, <1>4, RequestIsWellFormed DEF CookiesAfter, Kinds, Stages
<1>6. q.tab = r.tab /\ q.kind = r.kind /\ q.carried = cookies' /\ q.about = 0
  BY RequestFields
<1> HIDE DEF q
<1>7. Sound(q)
  BY <1>2, <1>4, <1>5, <1>6 DEF Sound, NoNewer, CookiesAfter
<1>8. PagesOK'
  BY <1>1, <1>2, <1>6, SwapStep
<1> QED
  BY <1>1, <1>2, <1>4, <1>7, <1>8, StateStep DEF IInv, StateOK, NetSound

LEMMA ReceiveContentKeeps ==
  ASSUME IInv, NEW r \in net, ReceiveContent(r)
  PROVE  IInv'
<1>1. /\ r.kind \in {"check", "data"} /\ r.stage # "renew" /\ Verdict(r) = "ok"
      /\ UNCHANGED <<accounts, cookies, issued, disturbed>>
      /\ Finish(r, r.carried.user, net \ {r})
  BY DEF ReceiveContent, AnswerTo
<1>2. TokensOK
  BY DEF IInv
<1>3. r.carried.user \in Users
  BY <1>1, <1>2 DEF Verdict, Accepts, TokensOK, NoNewer, Owned
<1>4. Done(r, net \ {r})
  BY DEF Done, NetSound, Apart
<1> QED
  BY <1>1, <1>3, <1>4, NoneAssumption, FinishKeeps

\* A sign-in page's answer moves the tab, wherever the tab is by now.
LEMMA MoveKeeps ==
  ASSUME IInv, NEW r \in net, r.kind \notin {"check", "data", "logout"},
         CookiesAfter, accounts' \subseteq Users,
         NEW path \in Paths, Move(r, path)
  PROVE  IInv'
<1> DEFINE t == r.tab
           n == net \ {r}
           page == [tab[t] EXCEPT !.path = path]
<1>1. StateOK /\ TokensOK /\ PagesOK /\ t \in Tabs /\ r.kind \in Kinds
  BY DEF IInv, StateOK, WellFormed, Requests
<1>2. /\ Go(t, page, n)
      /\ disturbed' = IF tab[t].path # SentFrom(r.kind) THEN disturbed \cup {t} ELSE disturbed
  BY DEF Move
<1>3. /\ page \in Pages /\ page.path = path
      /\ page.user = tab[t].user /\ page.checked = tab[t].checked
  BY <1>1 DEF StateOK, Pages
<1>4. PageOK(tab[t], t, net, t \in disturbed)
  BY <1>1 DEF PagesOK
<1>5. NetSound(n) /\ Apart(t, net, n)
  BY DEF NetSound, Apart
<1>6. /\ Asking(t, "check", n) <=> Asking(t, "check", net)
      /\ Asking(t, "logout", n) <=> Asking(t, "logout", net)
      /\ ChecksOnce(t, net) => ChecksOnce(t, n)
  BY DEF Asking, ChecksOnce
<1>7. tab[t].path \in PublicPaths \/ t \in disturbed'
  BY <1>2 DEF SentFrom, PublicPaths
<1>8. t \in disturbed => t \in disturbed'
  BY <1>2
<1>9. \A x \in Tabs : x # t => (x \in disturbed' <=> x \in disturbed)
  BY <1>2
<1> HIDE DEF page, n
<1>10. MayGo(page, t, n, t \in disturbed')
  BY <1>3, <1>4, <1>6, <1>7, <1>8 DEF MayGo, PageOK
<1>11. /\ tab' \in [Tabs -> Pages] /\ \A x \in Tabs : x # t => tab'[x] = tab[x]
       /\ NetSound(net') /\ Apart(t, net, net')
       /\ PageOK(tab'[t], t, net', t \in disturbed')
  BY <1>1, <1>2, <1>3, <1>5, <1>10, GoFacts
<1>12. PagesOK'
  BY <1>1, <1>9, <1>11, PagesStep
<1> QED
  BY <1>1, <1>11, <1>12, StateStep DEF IInv

\* A request is dropped, and the page that sent it does not wait for it.
LEMMA StayKeeps ==
  ASSUME IInv, NEW r \in net, r.kind \notin {"check", "logout"},
         UNCHANGED <<accounts, cookies, issued, tab, disturbed>>, net' = net \ {r}
  PROVE  IInv'
<1>1. StateOK /\ TokensOK /\ PagesOK /\ r.tab \in Tabs /\ CookiesAfter
  BY CookiesStay DEF IInv, StateOK, WellFormed, Requests
<1>2. Apart(r.tab, net, net') /\ NetSound(net')
  BY DEF Apart, NetSound
<1>3. PagesOK'
  BY <1>1, <1>2, DropStep
<1> QED
  BY <1>1, <1>2, <1>3, StateStep DEF IInv, StateOK

LEMMA ReceiveOwnerKeeps ==
  ASSUME IInv, NEW r \in net, ReceiveOwner(r)
  PROVE  IInv'
<1>1. /\ r.kind \in {"owner_login", "owner_signup"} /\ UNCHANGED <<accounts, cookies, issued>>
      /\ IF SentAway(r) THEN Move(r, IF r.kind = "owner_login" THEN "signup" ELSE "login")
         ELSE Stay(r)
  BY DEF ReceiveOwner
<1>2. CookiesAfter /\ accounts' \subseteq Users
  BY <1>1, CookiesStay DEF IInv, StateOK
<1>3. CASE SentAway(r)
  <2>1. PICK path \in Paths : Move(r, path)
    BY <1>1, <1>3 DEF Paths
  <2> QED
    BY <1>1, <1>2, <2>1, MoveKeeps
<1>4. CASE ~SentAway(r)
  BY <1>1, <1>4, StayKeeps DEF Stay
<1> QED
  BY <1>3, <1>4

LEMMA ReceiveSignupKeeps ==
  ASSUME IInv, NEW r \in net, ReceiveSignup(r)
  PROVE  IInv'
<1>1. /\ r.kind = "signup" /\ UNCHANGED <<accounts, cookies, issued>>
      /\ IF r.answer = "ok" THEN Move(r, "login") ELSE Stay(r)
  BY DEF ReceiveSignup
<1>2. CookiesAfter /\ accounts' \subseteq Users /\ "login" \in Paths
  BY <1>1, CookiesStay DEF IInv, StateOK, Paths
<1>3. CASE r.answer = "ok"
  BY <1>1, <1>2, <1>3, MoveKeeps
<1>4. CASE r.answer # "ok"
  BY <1>1, <1>4, StayKeeps DEF Stay
<1> QED
  BY <1>3, <1>4

LEMMA ReceiveLoginKeeps ==
  ASSUME IInv, NEW r \in net, ReceiveLogin(r)
  PROVE  IInv'
<1>1. /\ r.kind = "login" /\ UNCHANGED accounts
      /\ IF r.answer = "ok" THEN SetCookies(r.as) /\ Move(r, "app")
         ELSE Stay(r) /\ UNCHANGED <<cookies, issued>>
  BY DEF ReceiveLogin
<1>2. CASE r.answer = "ok"
  <2>1. StateOK /\ TokensOK /\ r.as \in Users /\ accounts' \subseteq Users /\ "app" \in Paths
    BY <1>1 DEF IInv, StateOK, WellFormed, Paths
  <2>2. CookiesAfter
    BY <1>1, <1>2, <2>1, CookiesSet
  <2> QED
    BY <1>1, <1>2, <2>1, <2>2, MoveKeeps
<1>3. CASE r.answer # "ok"
  BY <1>1, <1>3, StayKeeps DEF Stay
<1> QED
  BY <1>2, <1>3

\* The tab of a logout is loaded again.
LEMMA ReloadKeeps ==
  ASSUME IInv, NEW r \in net, CookiesAfter, UNCHANGED accounts, Load(r.tab, "login", net)
  PROVE  IInv'
<1>1. StateOK /\ TokensOK /\ PagesOK /\ r.tab \in Tabs /\ "login" \in Paths
  BY DEF IInv, StateOK, WellFormed, Requests, Paths
<1>2. tab' \in [Tabs -> Pages] /\ NetSound(net') /\ PagesOK'
  BY <1>1, LoadFacts, PagesStep
<1> QED
  BY <1>1, <1>2, StateStep DEF IInv, StateOK

LEMMA ReceiveLogoutKeeps ==
  ASSUME IInv, NEW r \in net, ReceiveLogout(r)
  PROVE  IInv'
<1>1. CookiesAfter
  BY CookiesCleared DEF IInv, ReceiveLogout
<1> QED
  BY <1>1, ReloadKeeps DEF ReceiveLogout

LEMMA LoseKeeps ==
  ASSUME IInv, NEW r \in net, Lose(r)
  PROVE  IInv'
<1> DEFINE m == net \ {r}
           n == IF r.stage = "renew"
                THEN Redirected(tab[r.tab], r.tab, "lost", r.carried.number, m) ELSE m
<1>1. /\ UNCHANGED <<accounts, cookies, issued>>
      /\ IF r.kind = "logout" THEN Load(r.tab, "login", net)
         ELSE /\ disturbed' = IF r.kind = "check" THEN disturbed \cup {r.tab} ELSE disturbed
              /\ IF r.kind \in {"check", "data"} THEN Finish(r, None, n)
                 ELSE tab' = tab /\ net' = m
  BY DEF Lose
<1>2. CookiesAfter
  BY <1>1, CookiesStay DEF IInv
<1>3. CASE r.kind = "logout"
  BY <1>1, <1>2, <1>3, ReloadKeeps
<1>4. CASE r.kind \in {"check", "data"}
  <2>1. Done(r, m)
    BY DEF Done, NetSound, Apart
  <2>2. Done(r, Redirected(tab[r.tab], r.tab, "lost", r.carried.number, m))
    BY <1>1, <1>4, RedirectedFacts
  <2>3. Done(r, n)
    BY <2>1, <2>2
  <2>4. /\ \A x \in Tabs : x # r.tab => (x \in disturbed' <=> x \in disturbed)
        /\ r.tab \in disturbed => r.tab \in disturbed'
        /\ r.kind = "data" => UNCHANGED disturbed
        /\ r.kind = "check" => r.tab \in disturbed'
    BY <1>1, <1>4
  <2>5. Finish(r, None, n)
    BY <1>1, <1>4
  <2> HIDE DEF n
  <2> QED
    BY <1>1, <1>4, <2>3, <2>4, <2>5, FinishKeeps
<1>5. CASE r.kind \notin {"check", "data", "logout"}
  BY <1>1, <1>5, StayKeeps
<1> QED
  BY <1>3, <1>4, <1>5

LEMMA NetworkStepKeeps == IInv /\ NetworkStep => IInv'
<1> SUFFICES ASSUME IInv, NEW r \in net, Serve(r) \/ Receive(r) \/ Lose(r)
             PROVE  IInv'
  BY DEF NetworkStep
<1> QED
  BY ServeKeeps, ReceiveRefusalKeeps, ReceiveTokensKeeps, ReceiveContentKeeps, ReceiveOwnerKeeps,
     ReceiveSignupKeeps, ReceiveLoginKeeps, ReceiveLogoutKeeps, LoseKeeps DEF Receive

-----------------------------------------------------------------------------
(* The invariant, and what follows from it.                                *)

LEMMA InitHolds == Init => IInv
<1> SUFFICES ASSUME Init PROVE IInv
  OBVIOUS
<1>1. /\ accounts \subseteq Users /\ net = {}
      /\ cookies \in Cookies /\ Owned(cookies) /\ issued = cookies.number
  <2>1. accounts \subseteq Users /\ net = {} /\ issued = cookies.number
    BY DEF Init
  <2>2. CASE cookies = NoCookies
    BY <2>1, <2>2 DEF NoCookies, Cookies, Owned
  <2>3. CASE \E u \in accounts : cookies = Tokens(u, 1)
    BY <2>1, <2>3 DEF Tokens, Cookies, Owned
  <2> QED
    BY <2>1, <2>2, <2>3 DEF Init
<1>2. issued \in Nat /\ cookies.number <= issued
  BY <1>1 DEF Cookies
<1>3. Fresh("closed") \in Pages /\ \A t \in Tabs : tab[t] = Fresh("closed")
  BY DEF Init, Fresh, Pages
<1>4. tab \in [Tabs -> Pages]
  BY <1>3 DEF Init
<1>5. PagesOK
  BY <1>1, <1>3 DEF PagesOK, PageOK, Fresh, Asking, ChecksOnce, PublicPaths
<1> QED
  BY <1>1, <1>2, <1>4, <1>5 DEF IInv, StateOK, TokensOK

LEMMA NextKeeps == IInv /\ [Next]_vars => IInv'
<1>1. IInv /\ UNCHANGED vars => IInv'
  BY DEF IInv, StateOK, TokensOK, PagesOK, vars
<1> QED
  BY <1>1, UserStepKeeps, NetworkStepKeeps, ExpireKeeps DEF Next

LEMMA InvariantHolds == Spec => []IInv
BY InitHolds, NextKeeps, PTL DEF Spec

\* The types, and that a page behind ProtectedRoute knows its user or asks.
THEOREM TypeCorrect == Spec => []TypeOK
<1>1. IInv => TypeOK
  BY DEF IInv, StateOK, WellFormed, Requests, Pages, PagesOK, PageOK, TypeOK
<1> QED
  BY <1>1, InvariantHolds, PTL

\* However many tabs a browser has, a login page keeps the mark of a failed check
\* only until the logout under way reloads it. (A sign-in that is answered before
\* that logout is turned back all the same.)
THEOREM FailedChecksReload == Spec => []FailedChecksEndInAReload
<1>1. IInv => FailedChecksEndInAReload
  BY DEF IInv, PagesOK, PageOK, FailedChecksEndInAReload
<1> QED
  BY <1>1, InvariantHolds, PTL

\* A refused tab never clears the tokens it was refused with while it could still
\* renew them. (It does clear those that another tab has got since.)
THEOREM TokensTriedFirst == Spec => TokensAreTriedFirst
<1> DEFINE Body == \A r \in net :
                      r.kind = "logout" /\ r.cause = "refused" /\ ReceiveLogout(r) =>
                         ~cookies.renewable \/ cookies.number # r.about
<1>1. IInv /\ [Next]_vars => [Body]_vars
  BY DEF IInv, TokensOK, NoNewer
<1> QED
  BY <1>1, InvariantHolds, PTL DEF Spec, TokensAreTriedFirst
=============================================================================
