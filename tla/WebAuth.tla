------------------------------ MODULE WebAuth ------------------------------
(***************************************************************************)
(* Signing in and out in the web UI: the tabs of one browser, which share  *)
(* the session cookie but hold a query cache each; the middleware in front *)
(* of every page; the forms of the public pages; and the proxy, through    *)
(* which a request may be served and its answer still be lost.             *)
(*                                                                         *)
(* The API is modelled by what the forms rely on: a session per cookie,    *)
(* and mailed links that work once.                                        *)
(***************************************************************************)
EXTENDS Naturals

CONSTANTS
  Users, Tabs,
  Owner             \* the user whom the mailed links sign in

VARIABLES
  signed,           \* the user of the browser's session at the API
  link,             \* the mailed links: spent or not
  tab               \* per tab: the page, its form and its query cache

authVars == <<signed, link, tab>>

Nobody == "nobody"
NoData == "nodata"
Links == {"reset", "confirm"}                 \* accept-invitation is as reset
PublicPages == {"login", "forgot"} \cup Links
AppPages == {"home", "repos"}

\* A request's way: asked, then served or refused at the API, then answered.
Forms == {"idle", "error", "asked", "served", "refused", "signingout"}

\* A page as a full load leaves it: a QueryClient of its own.
PageLoaded(page, wanted) ==
  [page |-> page, wanted |-> wanted, form |-> "idle", as |-> Nobody,
   asks |-> 0,
   data |-> NoData, fresh |-> FALSE, elsewhere |-> FALSE]

AuthInit ==
  /\ signed = Nobody
  /\ link = [l \in Links |-> "valid"]
  /\ tab = [t \in Tabs |-> PageLoaded("login", "home")]

(***************************************************************************)
(* middleware.ts: the page that a request for `page' ends on, and what the *)
(* login page remembers in its redirect parameter.  A session check that   *)
(* fails counts as no session.                                             *)
(***************************************************************************)
Middleware(page, user) ==
  IF user = Nobody /\ page \notin PublicPages THEN [page |-> "login", wanted |-> page]
  ELSE IF user # Nobody /\ page = "login"     THEN [page |-> "home", wanted |-> "home"]
  ELSE [page |-> page, wanted |-> "home"]

\* The session changed without tab t: what t cached may be of another user.
Unaware(ts) == [t \in Tabs |-> IF t \in ts THEN tab[t] ELSE [tab[t] EXCEPT !.elsewhere = TRUE]]

Busy(t) == tab[t].form \in {"asked", "served", "refused", "signingout"}

\* An address is opened, or a page reloaded; the session check may fail.
OpenPage(t, page) ==
  /\ ~Busy(t)
  /\ \E user \in {signed, Nobody} :
       LET m == Middleware(page, user)
       IN  tab' = [tab EXCEPT ![t] = PageLoaded(m.page, m.wanted)]
  /\ UNCHANGED <<signed, link>>

\* A link inside the application keeps the query cache.
FollowLink(t, page) ==
  /\ ~Busy(t)
  /\ tab[t].page \in AppPages \cup {"login"} /\ page \in AppPages \cup {"login", "forgot"}
  /\ LET m == Middleware(page, signed)
     IN  tab' = [tab EXCEPT ![t].page = m.page, ![t].wanted = m.wanted, ![t].form = "idle"]
  /\ UNCHANGED <<signed, link>>

\* useSession, mounted by the sidebar: fetched when absent or stale.
FetchSession(t) ==
  /\ tab[t].page \in AppPages
  /\ ~tab[t].fresh
  /\ tab' = [tab EXCEPT ![t].data = signed, ![t].fresh = TRUE, ![t].elsewhere = FALSE]
  /\ UNCHANGED <<signed, link>>

\* staleTime runs out.
GoStale(t) ==
  /\ tab[t].fresh
  /\ tab' = [tab EXCEPT ![t].fresh = FALSE]
  /\ UNCHANGED <<signed, link>>

\* LoginForm.handleSubmit, with somebody's address.
SubmitLogin(t, u) ==
  /\ tab[t].page = "login" /\ ~Busy(t)
  /\ tab' = [tab EXCEPT ![t].form = "asked", ![t].as = u]
  /\ UNCHANGED <<signed, link>>

\* The password forms check length and repetition before they ask.
SubmitPassword(t, valid) ==
  /\ tab[t].page = "reset" /\ ~Busy(t)
  /\ tab' = [tab EXCEPT ![t].form = IF valid THEN "asked" ELSE "error",
                        ![t].as = Owner]
  /\ UNCHANGED <<signed, link>>

\* ForgotPasswordForm: no session comes of it, and any answer is success.
SubmitForgot(t) ==
  /\ tab[t].page = "forgot" /\ ~Busy(t)
  /\ \E answered \in BOOLEAN :
       tab' = [tab EXCEPT ![t].form = IF answered THEN "idle" ELSE "error"]
  /\ UNCHANGED <<signed, link>>

\* The effect of ConfirmEmailChangeForm runs when the page mounts and again
\* when a dependency changes; a ref keeps it from asking twice.
ConfirmEffect(t) ==
  /\ tab[t].page = "confirm"
  /\ tab[t].asks = 0
  /\ tab' = [tab EXCEPT ![t].form = "asked", ![t].as = Owner, ![t].asks = tab[t].asks + 1]
  /\ UNCHANGED <<signed, link>>

\* The API handles the request.  A session that starts renews the token of
\* the one the browser had, which is gone whether or not the answer arrives.
ServeForm(t) ==
  /\ tab[t].form = "asked"
  /\ \/ /\ tab[t].page = "login"                      \* right or wrong password
        /\ \E ok \in BOOLEAN :
             /\ signed' = IF ok THEN Nobody ELSE signed
             /\ tab' = [Unaware(IF ok THEN {} ELSE Tabs)
                          EXCEPT ![t].form = IF ok THEN "served" ELSE "refused"]
        /\ UNCHANGED link
     \/ /\ tab[t].page \in Links
        /\ LET l == tab[t].page
               ok == link[l] = "valid"
           IN  /\ signed' = IF ok THEN Nobody ELSE signed
               /\ link' = [link EXCEPT ![l] = "spent"]
               /\ tab' = [Unaware(IF ok THEN {} ELSE Tabs)
                            EXCEPT ![t].form = IF ok THEN "served" ELSE "refused"]

\* Mutant: no answer marks the cached session as stale.
AnsweredKeepsCache(t) ==
  /\ tab[t].form = "served"
  /\ signed' = tab[t].as
  /\ LET m == Middleware(tab[t].wanted, tab[t].as)
     IN  tab' = [Unaware({t}) EXCEPT
                   ![t] = [tab[t] EXCEPT !.page = m.page, !.form = "idle", !.elsewhere = FALSE]]
  /\ UNCHANGED link

\* The answer arrives: its cookie is set and the form leaves its page by
\* router.push; only a login marks the cached session as stale.
FormAnswered(t) ==
  /\ tab[t].form = "served"
  /\ signed' = tab[t].as
  /\ LET target == IF tab[t].page = "login" THEN tab[t].wanted ELSE "home"
         m == Middleware(target, tab[t].as)
     IN  tab' = [Unaware({t}) EXCEPT
                   ![t] = [tab[t] EXCEPT
                             !.page = m.page, !.wanted = m.wanted, !.form = "idle",
                             !.fresh = IF tab[t].page = "login" THEN FALSE ELSE tab[t].fresh,
                             !.elsewhere = FALSE,
                             !.asks = 0]]
  /\ UNCHANGED link

\* The request is refused, or its answer is lost (the proxy's 502, the
\* client's NetworkError): an error is shown.
FormFails(t) ==
  /\ tab[t].form \in {"asked", "served", "refused"}
  /\ tab' = [tab EXCEPT ![t].form = "error"]
  /\ UNCHANGED <<signed, link>>

\* Sidebar: the logout request is served ...
Logout(t) ==
  /\ tab[t].page \in AppPages /\ ~Busy(t)
  /\ signed' = Nobody
  /\ tab' = [Unaware({t}) EXCEPT ![t] = [tab[t] EXCEPT !.form = "signingout", !.elsewhere = TRUE]]
  /\ UNCHANGED link

\* ... every query is refetched, then the cache is cleared and /login opened.
LogoutDone(t) ==
  /\ tab[t].form = "signingout"
  /\ LET m == Middleware("login", signed)
     IN  tab' = [tab EXCEPT ![t].data = NoData, ![t].fresh = FALSE, ![t].elsewhere = FALSE,
                            ![t].page = m.page, ![t].wanted = m.wanted, ![t].form = "idle"]
  /\ UNCHANGED <<signed, link>>

\* The session ends at the API: expiry, a deleted user, a changed password.
SessionEnds ==
  /\ signed # Nobody
  /\ signed' = Nobody
  /\ tab' = Unaware({})
  /\ UNCHANGED link

AuthNext ==
  \/ SessionEnds
  \/ \E t \in Tabs :
       \/ \E p \in PublicPages \cup AppPages : OpenPage(t, p) \/ FollowLink(t, p)
       \/ FetchSession(t) \/ GoStale(t)
       \/ \E u \in Users : SubmitLogin(t, u)
       \/ \E v \in BOOLEAN : SubmitPassword(t, v)
       \/ SubmitForgot(t) \/ ConfirmEffect(t)
       \/ ServeForm(t) \/ FormAnswered(t) \/ FormFails(t) \/ Logout(t) \/ LogoutDone(t)

AuthSpec == AuthInit /\ [][AuthNext]_authVars

(***************************************************************************)
(* Properties.                                                             *)
(***************************************************************************)

\* The address that the sidebar and the profile show, unless it waits for a
\* refetch, is the signed-in user's; it is another's only while the session
\* has changed without this tab having been told.
ShownUserIsSignedIn ==
  \A t \in Tabs :
    tab[t].page \in AppPages /\ tab[t].fresh /\ ~tab[t].elsewhere => tab[t].data = signed

=============================================================================
