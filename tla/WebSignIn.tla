----------------------------- MODULE WebSignIn -----------------------------
(***************************************************************************)
(* Signing in on the web: AuthContext.jsx, the interceptors of axios.js,   *)
(* LoginPage and the route guards of App.jsx, in several tabs of one       *)
(* browser.  The two cookies are the browser's; the bearer copy of the     *)
(* access token, the shown user and _refreshInFlight are each tab's own.   *)
(***************************************************************************)
EXTENDS RefreshTokens

CONSTANT
  Tabs

VARIABLES
  cookie,        \* [acc, ref]: aa_token and the refresh cookie
  tab,           \* per tab: [shown, bearer, where, doing]
  tabRenewal,    \* per tab: [st, tok, by]
  crossed,       \* two tabs used the cookies at once, or one logged in over another
  dropped,       \* an exchange was lost, or cut off by a reload
  strangers      \* somebody signed in while another tab showed, or could show, somebody else

webVars == <<cookie, tab, tabRenewal, crossed, dropped, strangers>>

NoPass == [user |-> NoOne, fresh |-> FALSE]
Pass(p) == [user |-> p, fresh |-> TRUE]
NoRenewal == [st |-> "idle", tok |-> NoToken, by |-> NoOne]

Passes == [user : People, fresh : BOOLEAN] \union {NoPass}

\* Types of the browser's variables.
WebTypeOK ==
  /\ cookie \in [acc : Passes, ref : TokenIds]
  /\ tab \in [Tabs -> [shown : People \union {NoOne}, bearer : Passes, where : {"login", "app"},
                       doing : {"nothing", "me", "leaving", "left"}]]
  /\ tabRenewal \in [Tabs -> [st : {"idle", "asked", "read", "granted", "failed"},
                              tok : TokenIds, by : People \union {NoOne}]]
  /\ crossed \in BOOLEAN /\ dropped \in BOOLEAN /\ strangers \in BOOLEAN

WebInit ==
  /\ cookie = [acc |-> NoPass, ref |-> NoToken]
  /\ tab = [t \in Tabs |-> [shown |-> NoOne, bearer |-> NoPass,
                            where |-> "login", doing |-> "nothing"]]
  /\ tabRenewal = [t \in Tabs |-> NoRenewal]
  /\ crossed = FALSE /\ dropped = FALSE /\ strangers = FALSE

\* The header is read before the cookie, and the tab's bearer fills the header.
Used(t) == IF tab[t].bearer # NoPass THEN tab[t].bearer ELSE cookie.acc
InExchange(t) == tabRenewal[t].st # "idle" \/ tab[t].doing = "left"
Meets(t) == \E u \in Tabs \ {t} : InExchange(u)

\* Mutant of WebLogin: a bearer that is alive is not replaced.
WebLoginKeepsBearer(t, p) ==
  /\ tab[t].where = "login" /\ tab[t].shown = NoOne /\ tab[t].doing = "nothing"
  /\ MayIssue
  /\ Issue(p)
  /\ cookie' = [acc |-> Pass(p), ref |-> NextId]
  /\ tab' = [tab EXCEPT ![t].bearer = IF @.fresh THEN @ ELSE Pass(p), ![t].doing = "me"]
  /\ crossed' = (crossed \/ Meets(t) \/ Live(cookie.ref))
  /\ strangers' = (strangers \/ \E u \in Tabs \ {t} :
                     \/ tab[u].shown \notin {NoOne, p} \/ tab[u].doing = "me"
                     \/ tab[u].bearer.fresh /\ tab[u].bearer.user # p)
  /\ UNCHANGED <<swept, late, tabRenewal, dropped>>

\* /auth/login: cookies and bearer are set, then login() fetches /auth/me.
WebLogin(t, p) ==
  /\ tab[t].where = "login" /\ tab[t].shown = NoOne /\ tab[t].doing = "nothing"
  /\ MayIssue
  /\ Issue(p)
  /\ cookie' = [acc |-> Pass(p), ref |-> NextId]
  /\ tab' = [tab EXCEPT ![t].bearer = Pass(p), ![t].doing = "me"]
  /\ crossed' = (crossed \/ Meets(t) \/ Live(cookie.ref))
  /\ strangers' = (strangers \/ \E u \in Tabs \ {t} :
                     \/ tab[u].shown \notin {NoOne, p} \/ tab[u].doing = "me"
                     \/ tab[u].bearer.fresh /\ tab[u].bearer.user # p)
  /\ UNCHANGED <<swept, late, tabRenewal, dropped>>

WebExpire ==
  /\ cookie.acc.fresh \/ \E t \in Tabs : tab[t].bearer.fresh
  /\ cookie' = [cookie EXCEPT !.acc.fresh = FALSE]
  /\ tab' = [t \in Tabs |-> [tab[t] EXCEPT !.bearer.fresh = FALSE]]
  /\ UNCHANGED <<tokenVars, tabRenewal, crossed, dropped, strangers>>

\* fetchMe succeeds: the user is shown and the routes let him in.
ShowUser(t) ==
  /\ tab[t].doing = "me" /\ tabRenewal[t].st = "idle"
  /\ Used(t).fresh
  /\ tab' = [tab EXCEPT ![t].shown = Used(t).user, ![t].where = "app",
                        ![t].doing = "nothing"]
  /\ UNCHANGED <<tokenVars, cookie, tabRenewal, crossed, dropped, strangers>>

\* fetchMe fails without a 401 (no answer, 5xx): nobody is shown and the
\* guards go to /login, but the bearer stays in sessionStorage.
MeFails(t) ==
  /\ tab[t].doing = "me" /\ tabRenewal[t].st = "idle"
  /\ tab' = [tab EXCEPT ![t].shown = NoOne, ![t].where = "login", ![t].doing = "nothing"]
  /\ UNCHANGED <<tokenVars, cookie, tabRenewal, crossed, dropped, strangers>>

\* The face enrolment ends by fetching the profile of the shown user again.
AskAgain(t) ==
  /\ tab[t].shown # NoOne /\ tab[t].doing = "nothing"
  /\ tab' = [tab EXCEPT ![t].doing = "me"]
  /\ UNCHANGED <<tokenVars, cookie, tabRenewal, crossed, dropped, strangers>>

\* Any call of the tab is refused with 401: one renewal per tab is started,
\* with whatever refresh cookie the browser holds now.
StartRenewal(t) ==
  /\ tab[t].doing # "left" /\ tabRenewal[t].st = "idle"
  /\ tab[t].shown # NoOne \/ tab[t].doing = "me"
  /\ ~Used(t).fresh
  /\ tabRenewal' = [tabRenewal EXCEPT ![t] =
       [st |-> IF cookie.ref = NoToken THEN "failed" ELSE "asked",
        tok |-> cookie.ref, by |-> NoOne]]
  /\ crossed' = (crossed \/ Meets(t))
  /\ UNCHANGED <<tokenVars, cookie, tab, dropped, strangers>>

TabRenewalRead(t) ==
  LET c == tabRenewal[t] IN
  /\ c.st = "asked"
  /\ IF Reused(c.tok)
       THEN /\ Sweep(c.tok)
            /\ tabRenewal' = [tabRenewal EXCEPT ![t].st = "failed"]
            /\ UNCHANGED late
       ELSE /\ tabRenewal' = [tabRenewal EXCEPT ![t].st = "read"]
            /\ UNCHANGED tokenVars
  /\ UNCHANGED <<cookie, tab, crossed, dropped, strangers>>

TabRenewalCommit(t) ==
  LET c == tabRenewal[t] IN
  /\ c.st = "read"
  /\ MayIssue
  /\ Rotate(c.tok)
  /\ tabRenewal' = [tabRenewal EXCEPT ![t] =
                      [st |-> "granted", tok |-> NextId, by |-> refresh[c.tok].user]]
  /\ UNCHANGED <<swept, late, cookie, tab, crossed, dropped, strangers>>

TabRenewalLost(t) ==
  /\ tabRenewal[t].st \in {"asked", "read", "granted"}
  /\ tabRenewal' = [tabRenewal EXCEPT ![t].st = "failed"]
  /\ dropped' = TRUE
  /\ GivenUp(tabRenewal[t])
  /\ UNCHANGED <<refresh, swept, cookie, tab, crossed, strangers>>

\* Mutant of Renewed: the answer sets the access cookie only.
RenewedAccess(t) ==
  LET c == tabRenewal[t] IN
  /\ c.st = "granted"
  /\ cookie' = [cookie EXCEPT !.acc = Pass(c.by)]
  /\ tab' = [tab EXCEPT ![t].bearer = Pass(c.by)]
  /\ tabRenewal' = [tabRenewal EXCEPT ![t] = NoRenewal]
  /\ UNCHANGED <<tokenVars, crossed, dropped, strangers>>

\* The answer sets both cookies and the tab's bearer; the call is replayed.
Renewed(t) ==
  LET c == tabRenewal[t] IN
  /\ c.st = "granted"
  /\ cookie' = [acc |-> Pass(c.by), ref |-> c.tok]
  /\ tab' = [tab EXCEPT ![t].bearer = Pass(c.by)]
  /\ tabRenewal' = [tabRenewal EXCEPT ![t] = NoRenewal]
  /\ UNCHANGED <<tokenVars, crossed, dropped, strangers>>

\* Refused or lost: the page goes to /login, which loads the app anew and
\* asks /auth/me again; on /login itself it stays and shows nobody.
NotRenewed(t) ==
  /\ tabRenewal[t].st = "failed"
  /\ tabRenewal' = [tabRenewal EXCEPT ![t] = NoRenewal]
  /\ tab' = [tab EXCEPT ![t] =
       [shown |-> NoOne, where |-> "login",
        bearer |-> IF @.doing = "leaving" THEN NoPass ELSE @.bearer,
        doing |-> IF @.where = "app" THEN "me" ELSE "nothing"]]
  /\ UNCHANGED <<tokenVars, cookie, crossed, dropped, strangers>>

LogoutClick(t) ==
  /\ tab[t].shown # NoOne /\ tab[t].doing = "nothing" /\ tabRenewal[t].st = "idle"
  /\ tab' = [tab EXCEPT ![t].doing = "leaving"]
  /\ UNCHANGED <<tokenVars, cookie, tabRenewal, crossed, dropped, strangers>>

\* The server revokes the cookie's refresh token, and only that one.
LogoutServed(t) ==
  /\ tab[t].doing = "leaving" /\ tabRenewal[t].st = "idle"
  /\ Used(t).fresh
  /\ Revoke(cookie.ref)
  /\ tab' = [tab EXCEPT ![t].doing = "left"]
  /\ crossed' = (crossed \/ Meets(t))
  /\ UNCHANGED <<swept, late, cookie, tabRenewal, dropped, strangers>>

LeftTab == [shown |-> NoOne, bearer |-> NoPass, where |-> "login", doing |-> "nothing"]

LogoutAnswered(t) ==
  /\ tab[t].doing = "left"
  /\ cookie' = [acc |-> NoPass, ref |-> NoToken]
  /\ tab' = [tab EXCEPT ![t] = LeftTab]
  /\ UNCHANGED <<tokenVars, tabRenewal, crossed, dropped, strangers>>

\* The tab logs out all the same when the call is lost; the cookies stay.
LogoutLost(t) ==
  /\ tab[t].doing \in {"leaving", "left"} /\ tabRenewal[t].st = "idle"
  /\ tab' = [tab EXCEPT ![t] = LeftTab]
  /\ dropped' = TRUE
  /\ UNCHANGED <<tokenVars, cookie, tabRenewal, crossed, strangers>>

\* The tab is loaded again: only its sessionStorage bearer survives.
Reload(t) ==
  /\ tab' = [tab EXCEPT ![t].shown = NoOne, ![t].doing = "me"]
  /\ tabRenewal' = [tabRenewal EXCEPT ![t] = NoRenewal]
  /\ dropped' = (dropped \/ InExchange(t))
  /\ GivenUp(tabRenewal[t])
  /\ UNCHANGED <<refresh, swept, cookie, crossed, strangers>>

WebNext ==
  \/ WebExpire
  \/ \E t \in Tabs :
       \/ \E p \in People : WebLogin(t, p)
       \/ ShowUser(t) \/ MeFails(t) \/ AskAgain(t) \/ StartRenewal(t) \/ Renewed(t) \/ NotRenewed(t)
       \/ TabRenewalRead(t) \/ TabRenewalCommit(t) \/ TabRenewalLost(t)
       \/ LogoutClick(t) \/ LogoutServed(t) \/ LogoutAnswered(t) \/ LogoutLost(t)
       \/ Reload(t)
  \/ (\E t \in Tokens : LateCommit(t)) /\ UNCHANGED webVars

\* The refresh cookie is the only working token of the browser (or the next
\* one is on its way), and nobody's tokens are swept as stolen, as long as no
\* two tabs crossed and no exchange was lost: rotation, the answer that sets
\* the cookie and logout together leave nothing behind.
CookieIsTheLiveToken ==
  ~crossed /\ ~dropped =>
    /\ ~swept
    /\ \A s \in Tokens : Live(s) =>
         s = cookie.ref \/ \E t \in Tabs : tabRenewal[t].st = "granted"
                                             /\ tabRenewal[t].tok = s

\* A tab's calls carry the token of the user it shows, unless somebody else
\* signed in, in another tab, while it showed him or still kept his bearer.
TabActsForItsUser ==
  ~strangers => \A t \in Tabs :
    tab[t].shown # NoOne => Used(t).user \in {tab[t].shown, NoOne}

WebSpec == TokensInit /\ WebInit /\ [][WebNext]_<<tokenVars, webVars>>
=============================================================================
