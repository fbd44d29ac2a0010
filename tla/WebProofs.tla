----------------------------- MODULE WebProofs -----------------------------
(***************************************************************************)
(* What holds of the web UI for any number of tabs, users, rows, dialogs   *)
(* and changes by others: whom a page shows as signed in, what a late      *)
(* answer may touch, what the dialogs save.                                *)
(***************************************************************************)
EXTENDS WebAuth, Console, ConsoleDelete, WellFoundedInduction, TLAPS

-----------------------------------------------------------------------------
(* Delete dialogs: a late answer.                                          *)

\* While the attempt of a call is the current one, the dialog that asked for it
\* is open.
CallInv ==
  /\ attempt \in Nat
  /\ call # NoCall =>
       /\ call = [id |-> call.id, attempt |-> call.attempt, opening |-> call.opening,
                  answer |-> call.answer]
       /\ page \in Numbered =>
            /\ call.attempt \in Nat /\ call.attempt <= attempt
            /\ call.attempt = attempt => call.id = target /\ call.opening = opening /\ target # None

LEMMA CallIsNotNone ==
  \A id, n, o, a : [id |-> id, attempt |-> n, opening |-> o, answer |-> a] # NoCall
BY DEF NoCall

LEMMA CallStep == CallInv /\ [DeleteNext]_deleteVars => CallInv'
<1>. SUFFICES ASSUME CallInv, [DeleteNext]_deleteVars PROVE CallInv'
  OBVIOUS
<1>1. CASE UNCHANGED deleteVars
  BY <1>1 DEF deleteVars, CallInv
<1>2. CASE LoadRows \/ LoadFails \/ OtherDeletesRow \/ OtherRefersToRow
  BY <1>2 DEF LoadRows, LoadFails, OtherDeletesRow, OtherRefersToRow, CallInv
<1>3. CASE AskToDelete
  BY <1>3 DEF AskToDelete, CallInv
<1>4. CASE ConfirmDelete
  BY <1>4 DEF ConfirmDelete, CallInv
<1>5. CASE DismissDelete
  BY <1>5 DEF DismissDelete, CallInv
<1>6. CASE ServeDelete \/ AnswerLost
  <2>1. PICK a : call' = [call EXCEPT !.answer = a]
    BY <1>6 DEF ServeDelete, AnswerLost
  <2>2. /\ call # NoCall /\ UNCHANGED <<page, target, attempt, opening>>
    BY <1>6 DEF ServeDelete, AnswerLost
  <2>3. call' = [id |-> call.id, attempt |-> call.attempt, opening |-> call.opening, answer |-> a]
    BY <2>1, <2>2 DEF CallInv
  <2>. QED
    BY <2>2, <2>3 DEF CallInv
<1>7. CASE SettleDelete
  BY <1>7 DEF SettleDelete, CallInv
<1>. QED
  BY <1>1, <1>2, <1>3, <1>4, <1>5, <1>6, <1>7 DEF DeleteNext

\* However many dialogs are dismissed and opened before an answer arrives, on a page that
\* numbers its attempts the answer changes only the dialog that asked for it
\* (repos-view.tsx:60).
THEOREM LateAnswers == DeleteSpec => LateAnswerTouchesNothing
<1>1. DeleteInit => CallInv
  BY DEF DeleteInit, CallInv
<1>2. CallInv /\ [DeleteNext]_deleteVars =>
        [Settles /\ page \in Numbered /\ <<target, problem>>' # <<target, problem>>
         => call.id = target /\ call.opening = opening]_deleteVars
  <2>1. ASSUME CallInv, DeleteNext, Settles, page \in Numbered,
               <<target, problem>>' # <<target, problem>>
        PROVE  call.id = target /\ call.opening = opening
    <3>1. SettleDelete
      BY <2>1, CallIsNotNone
      DEF DeleteNext, Settles, LoadRows, LoadFails, AskToDelete, ConfirmDelete, DismissDelete,
          ServeDelete, AnswerLost, OtherDeletesRow, OtherRefersToRow, CallInv
    <3>. QED
      BY <2>1, <3>1 DEF SettleDelete, CallInv
  <2>. QED
    BY <2>1
<1>. QED
  BY <1>1, <1>2, CallStep, PTL DEF DeleteSpec, LateAnswerTouchesNothing

-----------------------------------------------------------------------------
(* Signing in: whom a page shows.                                          *)

AnyUser == Users \cup {Owner, Nobody}
TabRow == [page : PublicPages \cup AppPages, wanted : PublicPages \cup AppPages,
           form : Forms, as : AnyUser, asks : Nat, data : AnyUser \cup {NoData},
           fresh : BOOLEAN, elsewhere : BOOLEAN]

\* The type invariant.
AuthTypeOK ==
  /\ signed \in AnyUser
  /\ link \in [Links -> {"valid", "spent"}]
  /\ tab \in [Tabs -> TabRow]

\* Only the login page and a mailed link's own page, which is always freshly loaded, ask for
\* a session, so the answer finds nothing cached that it would have to mark as stale.
TabOf(u) ==
  /\ u.page \in Links => ~u.fresh
  /\ u.form = "served" => u.page \in {"login"} \cup Links
  /\ u.fresh /\ ~u.elsewhere => u.data = signed

ShownInv == \A t \in Tabs : TabOf(tab[t])

LEMMA MiddlewarePage ==
  ASSUME NEW p \in PublicPages \cup AppPages, NEW user
  PROVE  /\ Middleware(p, user).page \in PublicPages \cup AppPages
         /\ Middleware(p, user).wanted \in PublicPages \cup AppPages
         /\ Middleware(p, user).page \in Links => Middleware(p, user).page = p
BY DEF Middleware, PublicPages, AppPages, Links

LEMMA LoadedPage ==
  ASSUME NEW p \in PublicPages \cup AppPages, NEW w \in PublicPages \cup AppPages
  PROVE  /\ PageLoaded(p, w) \in TabRow
         /\ ~PageLoaded(p, w).fresh /\ PageLoaded(p, w).form = "idle"
BY DEF PageLoaded, TabRow, Forms, AnyUser

\* The tabs that were not told.
LEMMA UnawareTabs ==
  ASSUME AuthTypeOK, NEW ts \in SUBSET Tabs
  PROVE  /\ Unaware(ts) \in [Tabs -> TabRow]
         /\ \A t \in Tabs :
              /\ Unaware(ts)[t].page = tab[t].page /\ Unaware(ts)[t].form = tab[t].form
              /\ Unaware(ts)[t].fresh = tab[t].fresh /\ Unaware(ts)[t].data = tab[t].data
              /\ Unaware(ts)[t].elsewhere = (tab[t].elsewhere \/ t \notin ts)
<1>1. ASSUME NEW t \in Tabs
      PROVE  LET u == [tab[t] EXCEPT !.elsewhere = TRUE]
             IN  /\ u \in TabRow /\ u.page = tab[t].page /\ u.form = tab[t].form
                 /\ u.fresh = tab[t].fresh /\ u.data = tab[t].data /\ u.elsewhere = TRUE
  BY DEF AuthTypeOK, TabRow
<1>2. \A t \in Tabs : tab[t] \in TabRow /\ tab[t].elsewhere \in BOOLEAN
  BY DEF AuthTypeOK, TabRow
<1>3. \A t \in Tabs :
        Unaware(ts)[t] = IF t \in ts THEN tab[t] ELSE [tab[t] EXCEPT !.elsewhere = TRUE]
  BY DEF Unaware
<1>4. Unaware(ts) \in [Tabs -> TabRow]
  BY <1>1, <1>2 DEF Unaware
<1>. QED
  BY <1>1, <1>2, <1>3, <1>4

\* A step of one tab alone.
LEMMA OneTab ==
  ASSUME AuthTypeOK, ShownInv, NEW t \in Tabs, NEW u \in TabRow,
         tab' = [tab EXCEPT ![t] = u], UNCHANGED <<signed, link>>, TabOf(u)
  PROVE  AuthTypeOK' /\ ShownInv'
BY DEF AuthTypeOK, ShownInv, TabOf

\* What a form does to its tab before it is answered, and a cache that grows old.
Touched(u, r) ==
  /\ u \in TabRow /\ u.page = r.page /\ u.data = r.data /\ u.elsewhere = r.elsewhere
  /\ u.fresh => r.fresh
  /\ u.form = "served" => r.form = "served"

LEMMA TouchedRows ==
  \A r \in TabRow, f \in Forms \ {"served"}, a \in AnyUser :
    /\ Touched([r EXCEPT !.form = f], r)
    /\ Touched([r EXCEPT !.form = f, !.as = a], r)
    /\ Touched([r EXCEPT !.form = f, !.as = a, !.asks = r.asks + 1], r)
    /\ Touched([r EXCEPT !.fresh = FALSE], r)
<1>. SUFFICES ASSUME NEW r \in TabRow, NEW f \in Forms \ {"served"}, NEW a \in AnyUser
              PROVE  /\ Touched([r EXCEPT !.form = f], r)
                     /\ Touched([r EXCEPT !.form = f, !.as = a], r)
                     /\ Touched([r EXCEPT !.form = f, !.as = a, !.asks = r.asks + 1], r)
                     /\ Touched([r EXCEPT !.fresh = FALSE], r)
  OBVIOUS
<1>1. r.asks + 1 \in Nat
  BY DEF TabRow
<1>2. Touched([r EXCEPT !.form = f], r)
  BY DEF Touched, TabRow
<1>3. Touched([r EXCEPT !.form = f, !.as = a], r)
  BY DEF Touched, TabRow
<1>4. Touched([r EXCEPT !.form = f, !.as = a, !.asks = r.asks + 1], r)
  BY <1>1 DEF Touched, TabRow
<1>5. Touched([r EXCEPT !.fresh = FALSE], r)
  BY DEF Touched, TabRow
<1>. QED
  BY <1>2, <1>3, <1>4, <1>5

LEMMA AuthStep == AuthTypeOK /\ ShownInv /\ [AuthNext]_authVars => AuthTypeOK' /\ ShownInv'
<1>. SUFFICES ASSUME AuthTypeOK, ShownInv, [AuthNext]_authVars PROVE AuthTypeOK' /\ ShownInv'
  OBVIOUS
<1>1. CASE UNCHANGED authVars
  BY <1>1 DEF authVars, AuthTypeOK, ShownInv, TabOf
<1>2. CASE SessionEnds
  <2>1. tab' \in [Tabs -> TabRow]
    BY <1>2, UnawareTabs DEF SessionEnds
  <2>4. \A t \in Tabs : t \notin {}
    OBVIOUS
  <2>2. \A t \in Tabs : /\ tab'[t].page = tab[t].page /\ tab'[t].form = tab[t].form
                        /\ tab'[t].fresh = tab[t].fresh /\ tab'[t].elsewhere
    <3>1. tab' = Unaware({}) /\ {} \in SUBSET Tabs
      BY <1>2 DEF SessionEnds
    <3>. QED
      BY <2>4, <3>1, UnawareTabs
  <2>3. ShownInv'
    BY <2>2 DEF ShownInv, TabOf
  <2>. QED
    BY <1>2, <2>1, <2>3 DEF SessionEnds, AuthTypeOK, AnyUser
<1>3. ASSUME NEW t \in Tabs, NEW p \in PublicPages \cup AppPages, OpenPage(t, p)
      PROVE  AuthTypeOK' /\ ShownInv'
  <2>1. PICK m \in TabRow : /\ ~m.fresh /\ m.form = "idle"
                            /\ tab' = [tab EXCEPT ![t] = m]
    BY <1>3, MiddlewarePage, LoadedPage DEF OpenPage
  <2>. QED
    BY <1>3, <2>1 DEF OpenPage, AuthTypeOK, ShownInv, TabOf
<1>4. ASSUME NEW t \in Tabs, NEW p \in PublicPages \cup AppPages, FollowLink(t, p)
      PROVE  AuthTypeOK' /\ ShownInv'
  <2>1. PICK g \in PublicPages \cup AppPages, w \in PublicPages \cup AppPages :
          /\ tab' = [tab EXCEPT ![t].page = g, ![t].wanted = w, ![t].form = "idle"]
          /\ g \in Links => g = p
    BY <1>4, MiddlewarePage DEF FollowLink
  <2>2. g \notin Links
    BY <1>4, <2>1 DEF FollowLink, AppPages, Links
  <2>3. PICK u : u = [tab[t] EXCEPT !.page = g, !.wanted = w, !.form = "idle"]
    OBVIOUS
  <2>4. tab[t] \in TabRow /\ TabOf(tab[t])
    BY DEF AuthTypeOK, ShownInv
  <2>5. tab' = [tab EXCEPT ![t] = u]
    BY <2>1, <2>3
  <2>6. u \in TabRow /\ TabOf(u)
    BY <2>1, <2>2, <2>3, <2>4 DEF TabRow, TabOf, Forms
  <2>. QED
    BY <1>4, <2>5, <2>6, OneTab DEF FollowLink
<1>5. ASSUME NEW t \in Tabs, FetchSession(t)
      PROVE  AuthTypeOK' /\ ShownInv'
  <2>1. PICK u : u = [tab[t] EXCEPT !.data = signed, !.fresh = TRUE, !.elsewhere = FALSE]
    OBVIOUS
  <2>2. tab[t] \in TabRow /\ TabOf(tab[t]) /\ signed \in AnyUser
    BY DEF AuthTypeOK, ShownInv
  <2>3. tab' = [tab EXCEPT ![t] = u]
    BY <1>5, <2>1 DEF FetchSession
  <2>4. tab[t].page \notin Links
    BY <1>5 DEF FetchSession, AppPages, Links
  <2>5. u \in TabRow /\ TabOf(u)
    BY <2>1, <2>2, <2>4 DEF TabRow, TabOf
  <2>. QED
    BY <1>5, <2>3, <2>5, OneTab DEF FetchSession
<1>6. ASSUME NEW t \in Tabs,
             \/ GoStale(t)
             \/ \E u \in Users : SubmitLogin(t, u)
             \/ \E v \in BOOLEAN : SubmitPassword(t, v)
             \/ SubmitForgot(t) \/ ConfirmEffect(t) \/ FormFails(t)
      PROVE  AuthTypeOK' /\ ShownInv'
  <2>1. tab[t] \in TabRow /\ TabOf(tab[t])
    BY DEF AuthTypeOK, ShownInv
  <2>2. {"idle", "error", "asked"} \subseteq Forms \ {"served"} /\ Users \cup {Owner} \subseteq AnyUser
    BY DEF Forms, AnyUser
  <2>3. PICK u : tab' = [tab EXCEPT ![t] = u] /\ Touched(u, tab[t]) /\ UNCHANGED <<signed, link>>
    <3>1. CASE GoStale(t)
      <4>1. Touched([tab[t] EXCEPT !.fresh = FALSE], tab[t])
        BY <2>1, <2>2, TouchedRows
      <4>. QED
        BY <3>1, <4>1 DEF GoStale
    <3>2. CASE \E u \in Users : SubmitLogin(t, u)
      <4>1. PICK v \in Users : SubmitLogin(t, v)
        BY <3>2
      <4>2. Touched([tab[t] EXCEPT !.form = "asked", !.as = v], tab[t])
        BY <2>1, <2>2, TouchedRows
      <4>. QED
        BY <4>1, <4>2 DEF SubmitLogin
    <3>3. CASE \E v \in BOOLEAN : SubmitPassword(t, v)
      <4>1. PICK f \in {"asked", "error"} : tab' = [tab EXCEPT ![t].form = f, ![t].as = Owner]
        BY <3>3 DEF SubmitPassword
      <4>2. Touched([tab[t] EXCEPT !.form = f, !.as = Owner], tab[t])
        BY <2>1, <2>2, TouchedRows
      <4>3. tab' = [tab EXCEPT ![t] = [tab[t] EXCEPT !.form = f, !.as = Owner]]
        BY <4>1
      <4>4. UNCHANGED <<signed, link>>
        BY <3>3 DEF SubmitPassword
      <4>. QED
        BY <4>2, <4>3, <4>4
    <3>4. CASE SubmitForgot(t)
      <4>1. PICK f \in {"idle", "error"} : tab' = [tab EXCEPT ![t].form = f]
        BY <3>4 DEF SubmitForgot
      <4>. QED
        BY <2>1, <2>2, <3>4, <4>1, TouchedRows DEF SubmitForgot
    <3>5. CASE ConfirmEffect(t)
      <4>1. Touched([tab[t] EXCEPT !.form = "asked", !.as = Owner, !.asks = tab[t].asks + 1],
                    tab[t])
        BY <2>1, <2>2, TouchedRows
      <4>. QED
        BY <3>5, <4>1 DEF ConfirmEffect
    <3>6. CASE FormFails(t)
      BY <2>1, <2>2, <3>6, TouchedRows DEF FormFails
    <3>. QED
      BY <1>6, <3>1, <3>2, <3>3, <3>4, <3>5, <3>6
  <2>4. u \in TabRow /\ TabOf(u)
    BY <2>1, <2>3 DEF Touched, TabOf, TabRow
  <2>. QED
    BY <2>3, <2>4, OneTab
<1>7. ASSUME NEW t \in Tabs, ServeForm(t)
      PROVE  AuthTypeOK' /\ ShownInv'
  <2>1. PICK ok \in BOOLEAN :
          /\ signed' = IF ok THEN Nobody ELSE signed
          /\ tab' = [Unaware(IF ok THEN {} ELSE Tabs)
                       EXCEPT ![t].form = IF ok THEN "served" ELSE "refused"]
          /\ link' \in [Links -> {"valid", "spent"}]
    BY <1>7 DEF ServeForm, AuthTypeOK
  <2>2. tab[t].page \in {"login"} \cup Links
    BY <1>7 DEF ServeForm
  <2>. DEFINE un == Unaware(IF ok THEN {} ELSE Tabs)
  <2>3. /\ un \in [Tabs -> TabRow]
        /\ \A s \in Tabs :
              /\ un[s].page = tab[s].page /\ un[s].form = tab[s].form
              /\ un[s].fresh = tab[s].fresh /\ un[s].data = tab[s].data
              /\ un[s].elsewhere = (tab[s].elsewhere \/ ok)
    BY UnawareTabs
  <2>. HIDE DEF un
  <2>4. tab' = [un EXCEPT ![t].form = IF ok THEN "served" ELSE "refused"]
    BY <2>1 DEF un
  <2>10. PICK f \in Forms : tab' = [un EXCEPT ![t].form = f]
    BY <2>4 DEF Forms
  <2>7. PICK u : u = [un[t] EXCEPT !.form = f]
    OBVIOUS
  <2>8. u \in TabRow
    BY <2>3, <2>7 DEF TabRow
  <2>9. signed' \in AnyUser
    BY <2>1 DEF AuthTypeOK, AnyUser
  <2>5. AuthTypeOK'
    BY <2>1, <2>3, <2>7, <2>8, <2>9, <2>10 DEF AuthTypeOK
  <2>6. ShownInv'
    BY <2>1, <2>2, <2>3, <2>4 DEF ShownInv, TabOf, TabRow
  <2>. QED
    BY <2>5, <2>6
<1>8. ASSUME NEW t \in Tabs, FormAnswered(t)
      PROVE  AuthTypeOK' /\ ShownInv'
  <2>1. tab[t] \in TabRow /\ TabOf(tab[t]) /\ tab[t].form = "served"
    BY <1>8 DEF FormAnswered, AuthTypeOK, ShownInv
  <2>2. (IF tab[t].page = "login" THEN tab[t].wanted ELSE "home") \in PublicPages \cup AppPages
    BY <2>1 DEF TabRow, AppPages
  <2>3. PICK g \in PublicPages \cup AppPages, w \in PublicPages \cup AppPages, f \in BOOLEAN :
          /\ tab' = [Unaware({t}) EXCEPT
                        ![t] = [tab[t] EXCEPT !.page = g, !.wanted = w, !.form = "idle",
                                              !.fresh = f, !.elsewhere = FALSE, !.asks = 0]]
          /\ f = IF tab[t].page = "login" THEN FALSE ELSE tab[t].fresh
    <3>1. PICK m : m = Middleware(IF tab[t].page = "login" THEN tab[t].wanted ELSE "home", tab[t].as)
      OBVIOUS
    <3>2. m.page \in PublicPages \cup AppPages /\ m.wanted \in PublicPages \cup AppPages
      BY <2>2, <3>1, MiddlewarePage
    <3>3. tab' = [Unaware({t}) EXCEPT
                    ![t] = [tab[t] EXCEPT
                              !.page = m.page, !.wanted = m.wanted, !.form = "idle",
                              !.fresh = IF tab[t].page = "login" THEN FALSE ELSE tab[t].fresh,
                              !.elsewhere = FALSE, !.asks = 0]]
      BY <1>8, <3>1 DEF FormAnswered
    <3>4. (IF tab[t].page = "login" THEN FALSE ELSE tab[t].fresh) \in BOOLEAN
      BY <2>1 DEF TabRow
    <3>. QED
      BY <3>2, <3>3, <3>4
  <2>4. ~f
    BY <2>1, <2>3 DEF TabOf
  <2>5. PICK u : u = [tab[t] EXCEPT !.page = g, !.wanted = w, !.form = "idle",
                                    !.fresh = f, !.elsewhere = FALSE, !.asks = 0]
    OBVIOUS
  <2>6. u \in TabRow /\ ~u.fresh /\ u.form = "idle"
    BY <2>1, <2>4, <2>5 DEF TabRow, Forms
  <2>7. signed' = tab[t].as /\ signed' \in AnyUser /\ UNCHANGED link
    BY <1>8, <2>1 DEF FormAnswered, TabRow
  <2>8. tab' \in [Tabs -> TabRow] /\ tab'[t] = u
        /\ \A s \in Tabs \ {t} : tab'[s] = Unaware({t})[s]
    BY <2>3, <2>5, <2>6, UnawareTabs
  <2>9. \A s \in Tabs \ {t} : TabOf(tab[s]) /\ tab'[s].elsewhere /\ tab'[s].page = tab[s].page
          /\ tab'[s].form = tab[s].form /\ tab'[s].fresh = tab[s].fresh
    <3>. TAKE s \in Tabs \ {t}
    <3>1. TabOf(tab[s])
      BY DEF ShownInv
    <3>2. /\ Unaware({t})[s].elsewhere /\ Unaware({t})[s].page = tab[s].page
          /\ Unaware({t})[s].form = tab[s].form /\ Unaware({t})[s].fresh = tab[s].fresh
      BY UnawareTabs
    <3>. QED
      BY <2>8, <3>1, <3>2
  <2>10. ShownInv'
    BY <2>6, <2>8, <2>9 DEF ShownInv, TabOf
  <2>. QED
    BY <2>7, <2>8, <2>10 DEF AuthTypeOK
<1>9. ASSUME NEW t \in Tabs, Logout(t)
      PROVE  AuthTypeOK' /\ ShownInv'
  <2>1. tab[t] \in TabRow /\ TabOf(tab[t])
    BY DEF AuthTypeOK, ShownInv
  <2>2. PICK u : u = [tab[t] EXCEPT !.form = "signingout", !.elsewhere = TRUE]
    OBVIOUS
  <2>3. u \in TabRow /\ u.elsewhere /\ u.form = "signingout" /\ u.page = tab[t].page
        /\ u.fresh = tab[t].fresh
    BY <2>1, <2>2 DEF TabRow, Forms
  <2>4. tab' \in [Tabs -> TabRow] /\ tab'[t] = u
        /\ \A s \in Tabs \ {t} : tab'[s] = Unaware({t})[s]
    BY <1>9, <2>2, <2>3, UnawareTabs DEF Logout
  <2>5. \A s \in Tabs \ {t} : TabOf(tab[s]) /\ tab'[s].elsewhere /\ tab'[s].page = tab[s].page
          /\ tab'[s].form = tab[s].form /\ tab'[s].fresh = tab[s].fresh
    <3>. TAKE s \in Tabs \ {t}
    <3>1. TabOf(tab[s])
      BY DEF ShownInv
    <3>2. /\ Unaware({t})[s].elsewhere /\ Unaware({t})[s].page = tab[s].page
          /\ Unaware({t})[s].form = tab[s].form /\ Unaware({t})[s].fresh = tab[s].fresh
      BY UnawareTabs
    <3>. QED
      BY <2>4, <3>1, <3>2
  <2>6. ShownInv'
    BY <2>1, <2>3, <2>4, <2>5 DEF ShownInv, TabOf
  <2>. QED
    BY <1>9, <2>4, <2>6 DEF Logout, AuthTypeOK, AnyUser
<1>10. ASSUME NEW t \in Tabs, LogoutDone(t)
       PROVE  AuthTypeOK' /\ ShownInv'
  <2>1. "login" \in PublicPages \cup AppPages
    BY DEF PublicPages
  <2>2. PICK g \in PublicPages \cup AppPages, w \in PublicPages \cup AppPages :
          tab' = [tab EXCEPT ![t].data = NoData, ![t].fresh = FALSE, ![t].elsewhere = FALSE,
                             ![t].page = g, ![t].wanted = w, ![t].form = "idle"]
    BY <1>10, <2>1, MiddlewarePage DEF LogoutDone
  <2>3. AuthTypeOK'
    BY <1>10, <2>2 DEF LogoutDone, AuthTypeOK, TabRow, Forms
  <2>4. ShownInv'
    BY <1>10, <2>2 DEF LogoutDone, AuthTypeOK, ShownInv, TabOf, TabRow
  <2>. QED
    BY <2>3, <2>4
<1>. QED
  BY <1>1, <1>2, <1>3, <1>4, <1>5, <1>6, <1>7, <1>8, <1>9, <1>10 DEF AuthNext

\* However many tabs share the cookie and whatever answers are lost, a page shows the
\* signed-in user, or waits for a refetch, or has not been told of a change that another
\* tab made (use-session.ts, sidebar.tsx).
THEOREM PagesShowTheUser == AuthSpec => []ShownUserIsSignedIn
<1>1. AuthInit => AuthTypeOK /\ ShownInv
  <2>1. "login" \in PublicPages \cup AppPages /\ "home" \in PublicPages \cup AppPages
    BY DEF PublicPages, AppPages
  <2>. QED
    BY <2>1, LoadedPage DEF AuthInit, AuthTypeOK, ShownInv, TabOf, AnyUser
<1>2. ShownInv => ShownUserIsSignedIn
  BY DEF ShownInv, TabOf, ShownUserIsSignedIn
<1>. QED
  BY <1>1, <1>2, AuthStep, PTL DEF AuthSpec

-----------------------------------------------------------------------------
(* The editing dialogs: what every page shares.                            *)

ConsoleShape ==
  /\ DOMAIN server = {"own", "integrations", "projects"}
  /\ DOMAIN seen = {"own", "integrations", "projects", "fetched"}
  /\ server.integrations \subseteq Integrations /\ seen.integrations \subseteq Integrations
  /\ IsOpen => DOMAIN dialog = {"mode", "row", "form", "excused"} /\ dialog.mode \in {"create", "edit"}
  /\ IsSaving => /\ DOMAIN saving = {"mode", "row", "payload", "excused", "served"}
                 /\ saving.mode \in {"create", "edit"}

LEMMA ViewFixed == [ConsoleNext]_consoleVars => view' = view
BY DEF ConsoleNext, consoleVars, Fetch, OpenCreate, OpenEdit, Open, Edit, Cancel, Submit, Serve,
   Saved, SaveFailed, OtherListChange, OtherProjectChange, OtherMovesIntegration, OtherDeletes

\* What a fetch brings, and what it does to an open dialog.
LEMMA FetchedLists ==
  ASSUME ConsoleShape, NEW l \in PageLists, Fetch(l)
  PROVE  /\ DOMAIN seen' = DOMAIN seen
         /\ seen'.own \in {seen.own, server.own}
         /\ seen'.integrations \in {seen.integrations, server.integrations}
         /\ ~IsOpen => dialog' = dialog
         /\ IsOpen => /\ DOMAIN dialog' = DOMAIN dialog
                      /\ dialog'.mode = dialog.mode /\ dialog'.row = dialog.row
                      /\ (\A m \in ResetLists : m \in seen.fetched /\ seen'[m] = seen[m])
                           => dialog'.form = Settled(seen', dialog.form, dialog.form, dialog.mode)
                      /\ \E f : /\ \/ f = Fresh(seen', dialog.mode, dialog.row)
                                   \/ f = dialog.form /\ \A m \in ResetLists :
                                        m \in seen.fetched /\ seen'[m] = seen[m]
                                /\ dialog'.form = Settled(seen', f, f, dialog.mode)
                                /\ ~dialog'.excused =>
                                     /\ ~Unlisted(seen', dialog.mode, dialog.row)
                                     /\ ~dialog.excused \/ f = Fresh(seen', dialog.mode, dialog.row)
<1>1. l \in {"own", "integrations", "projects"}
  BY DEF PageLists
<1>2. /\ DOMAIN seen' = DOMAIN seen
      /\ seen'.own \in {seen.own, server.own}
      /\ seen'.integrations \in {seen.integrations, server.integrations}
  BY <1>1 DEF ConsoleShape, Fetch
<1>3. ~IsOpen => dialog' = dialog
  BY DEF Fetch
<1>. DEFINE reset == \E m \in ResetLists : m \notin seen.fetched \/ seen'[m] # seen[m]
            form  == IF reset THEN Fresh(seen', dialog.mode, dialog.row) ELSE dialog.form
<1>4. IsOpen => dialog' = [dialog EXCEPT
                   !.form = Settled(seen', form, form, dialog.mode),
                   !.excused = (@ /\ ~reset) \/ Unlisted(seen', dialog.mode, dialog.row)]
  BY DEF Fetch
<1>5. ASSUME IsOpen
      PROVE  /\ DOMAIN dialog' = DOMAIN dialog
             /\ dialog'.mode = dialog.mode /\ dialog'.row = dialog.row
             /\ dialog'.form = Settled(seen', form, form, dialog.mode)
             /\ ~dialog'.excused => /\ ~Unlisted(seen', dialog.mode, dialog.row)
                                    /\ ~dialog.excused \/ reset
  <2>. HIDE DEF reset, form
  <2>. QED
    BY <1>4, <1>5 DEF ConsoleShape
<1>6. /\ reset => form = Fresh(seen', dialog.mode, dialog.row)
      /\ ~reset => form = dialog.form /\ \A m \in ResetLists : m \in seen.fetched /\ seen'[m] = seen[m]
      /\ (\A m \in ResetLists : m \in seen.fetched /\ seen'[m] = seen[m]) => ~reset
  OBVIOUS
<1>. HIDE DEF reset, form
<1>. QED
  BY <1>2, <1>3, <1>5, <1>6

\* A closed dialog, or no save, has a mode of its own.
LEMMA OpenModes ==
  /\ Closed.mode = "closed" /\ NoSave.mode = "none"
BY DEF Closed, NoSave

LEMMA ShapeStep == ConsoleShape /\ [ConsoleNext]_consoleVars => ConsoleShape'
<1>. SUFFICES ASSUME ConsoleShape, [ConsoleNext]_consoleVars PROVE ConsoleShape'
  OBVIOUS
<1>1. CASE UNCHANGED consoleVars
  BY <1>1 DEF consoleVars, ConsoleShape, IsOpen, IsSaving
<1>2. ASSUME NEW l \in PageLists, Fetch(l) PROVE ConsoleShape'
  BY <1>2, FetchedLists, OpenModes DEF Fetch, ConsoleShape, IsOpen, IsSaving
<1>3. CASE OpenCreate \/ OpenEdit
  BY <1>3, OpenModes DEF OpenCreate, OpenEdit, Open, ConsoleShape, IsOpen, IsSaving
<1>4. ASSUME NEW control, Edit(control) PROVE ConsoleShape'
  BY <1>4, OpenModes DEF Edit, ConsoleShape, IsOpen, IsSaving
<1>5. CASE Cancel \/ Saved \/ SaveFailed
  BY <1>5 DEF Cancel, Saved, SaveFailed, ConsoleShape, IsOpen, IsSaving
<1>6. CASE Submit
  BY <1>6, OpenModes DEF Submit, ConsoleShape, IsOpen, IsSaving
<1>7. CASE Serve
  <2>1. DOMAIN server' = DOMAIN server /\ server'.integrations = server.integrations
    BY <1>7 DEF Serve, ConsoleShape
  <2>2. DOMAIN saving' = DOMAIN saving /\ saving'.mode = saving.mode
    BY <1>7 DEF Serve, ConsoleShape
  <2>. QED
    BY <1>7, <2>1, <2>2 DEF Serve, ConsoleShape, IsOpen, IsSaving
<1>8. CASE OtherListChange \/ OtherProjectChange \/ OtherMovesIntegration \/ OtherDeletes
  <2>1. DOMAIN server' = DOMAIN server /\ server'.integrations \subseteq Integrations
    <3>1. CASE OtherListChange
      BY <3>1 DEF OtherListChange, ConsoleShape
    <3>2. CASE OtherProjectChange \/ OtherMovesIntegration \/ OtherDeletes
      BY <3>2 DEF OtherProjectChange, OtherMovesIntegration, OtherDeletes, ConsoleShape
    <3>. QED
      BY <1>8, <3>1, <3>2
  <2>. QED
    BY <1>8, <2>1 DEF OtherListChange, OtherProjectChange, OtherMovesIntegration, OtherDeletes,
       ConsoleShape, IsOpen, IsSaving
<1>. QED
  BY <1>1, <1>2, <1>3, <1>4, <1>5, <1>6, <1>7, <1>8 DEF ConsoleNext

\* A fetch in the background takes nothing back from what was typed (repo-dialog.tsx:144-188,
\* project-drawer.tsx:218-285: the dependencies of the reset effects).
THEOREM FetchKeepsInput == ConsoleSpec => TypedInputKept
<1>. DEFINE NoReset == \A l \in ResetLists : l \in seen.fetched /\ seen'[l] = seen[l]
            Kept == \A field \in DOMAIN dialog.form \ {"integration"} :
                      dialog'.form[field] = dialog.form[field]
<1>1. ASSUME ConsoleShape, [ConsoleNext]_consoleVars, seen' # seen, IsOpen, NoReset
      PROVE  Kept
  <2>1. PICK l \in PageLists : Fetch(l)
    BY <1>1 DEF ConsoleNext, consoleVars, OpenCreate, OpenEdit, Open, Edit, Cancel, Submit, Serve,
       Saved, SaveFailed, OtherListChange, OtherProjectChange, OtherMovesIntegration, OtherDeletes
  <2>2. dialog'.form = Settled(seen', dialog.form, dialog.form, dialog.mode)
    BY <1>1, <2>1, FetchedLists
  <2>3. \A f, mode, integrations : \A field \in DOMAIN f \ {"integration"} :
          RepoSettled(f, mode, integrations)[field] = f[field]
    BY DEF RepoSettled
  <2>4. \A f, mode, kind : ProjectSettled(f, f, mode, kind) = f
    BY DEF ProjectSettled
  <2>. QED
    BY <2>2, <2>3, <2>4 DEF Settled
<1>2. ConsoleInit => ConsoleShape
  BY OpenModes DEF ConsoleInit, ConsoleShape, IsOpen, IsSaving
<1>3. ConsoleShape /\ [ConsoleNext]_consoleVars
        => (seen' # seen /\ IsOpen /\ NoReset => Kept)
  BY <1>1
<1>4. ConsoleShape /\ [ConsoleNext]_consoleVars => [seen' # seen /\ IsOpen /\ NoReset => Kept]_consoleVars
  BY <1>3
<1>. QED
  BY <1>2, <1>4, ShapeStep, PTL DEF ConsoleSpec, TypedInputKept

-----------------------------------------------------------------------------
(* Integrations: the dialog's checks and the API's.                        *)

\* What the dialog lets pass the API accepts.
LEMMA ChecksOfCreate ==
  ASSUME NEW form, NEW row, ~IntegrationRefused(form, "create", row)
  PROVE  IntegrationCreateAccepted(IntegrationPayload(form))
<1>. DEFINE payload == IntegrationPayload(form)
<1>1. /\ payload.kind = form.kind /\ payload.name = form.name /\ payload.secret = form.secret
      /\ payload.url = IF form.kind \in BaseUrlKinds THEN form.url ELSE ""
      /\ payload.email = IF form.kind = "jira" /\ form.secret # "" THEN form.email ELSE ""
      /\ payload.isDefault => form.kind \in SourceKinds
  BY DEF IntegrationPayload
<1>2. /\ form.name # "" /\ (form.kind \in BaseUrlKinds => form.url # "")
      /\ form.kind = "jira" => form.email # ""
      /\ form.kind \notin TokenOptionalKinds => form.secret # ""
  BY DEF IntegrationRefused, SecretRequired
<1>3. "jira" \notin TokenOptionalKinds
  BY DEF TokenOptionalKinds
<1>. HIDE DEF payload
<1>4. ValidBaseUrl(payload.kind, payload.url)
  BY <1>1, <1>2 DEF ValidBaseUrl
<1>5. ValidSecret(payload) /\ ValidDefaultFlag(payload)
  BY <1>1, <1>2, <1>3 DEF ValidSecret, ValidDefaultFlag
<1>6. IntegrationCreateAccepted(payload)
  BY <1>1, <1>2, <1>4, <1>5 DEF IntegrationCreateAccepted
<1>. QED
  BY <1>6 DEF payload

LEMMA ChecksOfPatch ==
  ASSUME NEW form, NEW row, ~IntegrationRefused(form, "edit", row), form.kind = row.kind,
         ValidBaseUrl(row.kind, row.url)
  PROVE  IntegrationPatchAccepted(IntegrationPayload(form), row)
BY DEF IntegrationRefused, IntegrationPatchAccepted, IntegrationPayload, ValidBaseUrl, ValidSecret,
   ValidDefaultFlag, BaseUrlKinds

IntegrationSound(r) ==
  /\ {"id", "kind", "url", "hasSecret", "isDefault", "secretFor"} \subseteq DOMAIN r
  /\ ValidBaseUrl(r.kind, r.url) /\ r.secretFor \in {"", r.url}

\* The rows stay as the API checks them, their ids apart; a dialog edits a row of its own
\* kind; a save was let pass by the dialog.
IntegrationsInv ==
  view = "integrations" =>
    /\ \A r \in server.own : IntegrationSound(r)
    /\ \A r, s \in server.own : r.id = s.id => r = s
    /\ IsOpen => /\ "kind" \in DOMAIN dialog.form
                 /\ dialog.mode = "edit" => dialog.form.kind = dialog.row.kind
    /\ IsSaving /\ saving.mode = "create" => IntegrationCreateAccepted(saving.payload)
    /\ IsSaving /\ saving.mode = "edit" /\ ValidBaseUrl(saving.row.kind, saving.row.url)
         => IntegrationPatchAccepted(saving.payload, saving.row)

LEMMA WithSoundRow ==
  ASSUME view = "integrations", NEW rows, NEW row, IntegrationSound(row),
         \A r \in rows : IntegrationSound(r),
         \A r, s \in rows : r.id = s.id => r = s
  PROVE  /\ \A r \in WithRow(rows, row) : IntegrationSound(r)
         /\ \A r, s \in WithRow(rows, row) : r.id = s.id => r = s
<1>. DEFINE cleared(r) == IF row.isDefault /\ r.kind = row.kind THEN [r EXCEPT !.isDefault = FALSE]
                          ELSE r
<1>1. ASSUME NEW r \in rows PROVE IntegrationSound(cleared(r)) /\ cleared(r).id = r.id
  BY DEF IntegrationSound
<1>2. WithRow(rows, row) = {cleared(r) : r \in {q \in rows : q.id # row.id}} \cup {row}
  BY DEF WithRow
<1>. HIDE DEF cleared
<1>. QED
  BY <1>1, <1>2

\* The row a served save leaves.
LEMMA SavedIntegration ==
  ASSUME view = "integrations", NEW save, NEW old, ValidBaseUrl(old.kind, old.url),
         old.secretFor \in {"", old.url}, IntegrationPatchAccepted(save.payload, old)
  PROVE  IntegrationSound(IntegrationRow(save, old)) /\ IntegrationRow(save, old).id = old.id
BY DEF IntegrationSound, IntegrationRow, IntegrationPatchAccepted

LEMMA NewIntegrationRow ==
  ASSUME view = "integrations", NEW save, IntegrationCreateAccepted(save.payload)
  PROVE  IntegrationSound(NewRow(save))
BY DEF IntegrationSound, NewRow, IntegrationRow, IntegrationCreateAccepted

LEMMA IntegrationsStep ==
  ConsoleShape /\ IntegrationsInv /\ [ConsoleNext]_consoleVars => IntegrationsInv'
<1>. SUFFICES ASSUME ConsoleShape, IntegrationsInv, [ConsoleNext]_consoleVars,
                     view = "integrations"
              PROVE  IntegrationsInv'
  BY ViewFixed DEF IntegrationsInv
<1>1. CASE UNCHANGED consoleVars
  BY <1>1 DEF consoleVars, IntegrationsInv, IsOpen, IsSaving
<1>2. ASSUME NEW l \in PageLists, Fetch(l) PROVE IntegrationsInv'
  <2>1. IsOpen => /\ "kind" \in DOMAIN dialog'.form
                  /\ dialog'.mode = "edit" => dialog'.form.kind = dialog'.row.kind
    BY <1>2, FetchedLists DEF ResetLists, Settled, IntegrationsInv
  <2>2. ~IsOpen => dialog' = dialog
    BY <1>2, FetchedLists
  <2>. QED
    BY <1>2, <2>1, <2>2 DEF Fetch, IntegrationsInv, IsOpen, IsSaving
<1>3. CASE OpenCreate \/ OpenEdit
  <2>1. PICK mode, row : Open(mode, row) /\ mode \in {"create", "edit"}
    BY <1>3 DEF OpenCreate, OpenEdit
  <2>2. /\ "kind" \in DOMAIN Fresh(seen, mode, row)
        /\ mode = "edit" => Fresh(seen, mode, row).kind = row.kind
    BY DEF Fresh, Loaded, Blank, IntegrationLoaded, IntegrationBlank
  <2>3. dialog'.form = Fresh(seen, mode, row) /\ dialog'.mode = mode /\ dialog'.row = row
    BY <2>1 DEF Open, Settled
  <2>. QED
    BY <2>1, <2>2, <2>3 DEF Open, IntegrationsInv, IsOpen, IsSaving
<1>4. ASSUME NEW control, Edit(control) PROVE IntegrationsInv'
  <2>1. PICK value \in Controls[control] :
          dialog' = [dialog EXCEPT
                       !.form = Settled(seen, Edited(control, value), dialog.form, dialog.mode),
                       !.excused = @ \/ (view = "repos" /\ control \in {"kind", "integration"})]
    BY <1>4 DEF Edit
  <2>2. dialog'.form = [dialog.form EXCEPT ![control] = value]
        /\ dialog'.mode = dialog.mode /\ dialog'.row = dialog.row
    BY <1>4, <2>1 DEF Edit, Settled, Edited, ConsoleShape
  <2>3. dialog.mode = "edit" => control # "kind"
    <3>1. Controls = IntegrationControls(dialog.form, dialog.mode, Kinds[view], Addresses)
      BY DEF Controls
    <3>2. dialog.mode = "edit" => Controls["kind"] = {}
      BY <3>1 DEF IntegrationControls
    <3>. QED
      BY <2>1, <3>2
  <2>4. /\ "kind" \in DOMAIN dialog'.form
        /\ dialog'.mode = "edit" => dialog'.form.kind = dialog'.row.kind
    BY <1>4, <2>2, <2>3 DEF Edit, IntegrationsInv
  <2>. QED
    BY <1>4, <2>4 DEF Edit, IntegrationsInv, IsOpen, IsSaving
<1>5. CASE Cancel \/ Saved \/ SaveFailed
  BY <1>5 DEF Cancel, Saved, SaveFailed, IntegrationsInv, IsOpen, IsSaving
<1>6. CASE Submit
  <2>1. /\ ~IntegrationRefused(dialog.form, dialog.mode, dialog.row)
        /\ saving' = [mode |-> dialog.mode, row |-> dialog.row,
                      payload |-> IntegrationPayload(dialog.form),
                      excused |-> dialog.excused, served |-> "no"]
    BY <1>6 DEF Submit, Refused, Payload
  <2>2. dialog.mode = "create" => IntegrationCreateAccepted(saving'.payload)
    BY <2>1, ChecksOfCreate
  <2>3. dialog.mode = "edit" /\ ValidBaseUrl(dialog.row.kind, dialog.row.url)
          => IntegrationPatchAccepted(saving'.payload, dialog.row)
    BY <1>6, <2>1, ChecksOfPatch DEF IntegrationsInv, Submit
  <2>. QED
    BY <1>6, <2>1, <2>2, <2>3 DEF Submit, IntegrationsInv, IsOpen, IsSaving
<1>7. CASE Serve
  <2>1. UNCHANGED <<view, dialog>> /\ saving'.mode = saving.mode /\ saving'.row = saving.row
        /\ saving'.payload = saving.payload /\ IsSaving
    BY <1>7 DEF Serve, ConsoleShape
  <2>2. /\ \A r \in server'.own : IntegrationSound(r)
        /\ \A r, s \in server'.own : r.id = s.id => r = s
    <3>1. CASE ~Accepted(saving)
      BY <1>7, <3>1 DEF Serve, IntegrationsInv
    <3>2. CASE Accepted(saving) /\ saving.mode = "create"
      <4>1. server'.own = WithRow(server.own, NewRow(saving))
        BY <1>7, <3>2 DEF Serve, ConsoleShape
      <4>2. IntegrationSound(NewRow(saving))
        BY <2>1, <3>2, NewIntegrationRow DEF IntegrationsInv
      <4>. QED
        BY <4>1, <4>2, WithSoundRow DEF IntegrationsInv
    <3>3. CASE Accepted(saving) /\ saving.mode # "create"
      <4>1. PICK old \in Stored(saving.row.id) :
              server'.own = WithRow(server.own, PatchedRow(saving, old))
        BY <1>7, <3>3 DEF Serve, ConsoleShape
      <4>2. IntegrationPatchAccepted(saving.payload, old) /\ old \in server.own
        BY <3>3, <4>1 DEF Accepted, Stored
      <4>3. PatchedRow(saving, old) = IntegrationRow(saving, old)
        BY DEF PatchedRow
      <4>4. IntegrationSound(IntegrationRow(saving, old))
        BY <4>2, SavedIntegration DEF IntegrationsInv, IntegrationSound
      <4>. QED
        BY <4>1, <4>3, <4>4, WithSoundRow DEF IntegrationsInv
    <3>. QED
      BY <3>1, <3>2, <3>3
  <2>. QED
    BY <2>1, <2>2 DEF IntegrationsInv, IsOpen, IsSaving
<1>8. CASE OtherMovesIntegration
  <2>1. PICK r \in server.own, url \in Addresses \ {""} :
          /\ r.kind \in BaseUrlKinds
          /\ server' = [server EXCEPT !.own = WithRow(server.own,
                          [r EXCEPT !.url = url, !.secretFor = url, !.hasSecret = TRUE])]
    BY <1>8 DEF OtherMovesIntegration
  <2>5. PICK moved : moved = [r EXCEPT !.url = url, !.secretFor = url, !.hasSecret = TRUE]
    OBVIOUS
  <2>2. IntegrationSound(moved)
    BY <2>1, <2>5 DEF IntegrationsInv, IntegrationSound, ValidBaseUrl
  <2>6. view = "integrations"
    BY <1>8 DEF OtherMovesIntegration
  <2>3. server'.own = WithRow(server.own, moved)
    BY <2>1, <2>5 DEF ConsoleShape
  <2>4. /\ \A q \in server'.own : IntegrationSound(q)
        /\ \A q, s \in server'.own : q.id = s.id => q = s
    <3>1. /\ \A q \in server.own : IntegrationSound(q)
          /\ \A q, s \in server.own : q.id = s.id => q = s
      BY DEF IntegrationsInv
    <3>2. PICK rows : rows = WithRow(server.own, moved)
      OBVIOUS
    <3>3. /\ \A q \in rows : IntegrationSound(q)
          /\ \A q, s \in rows : q.id = s.id => q = s
      BY <2>2, <2>6, <3>1, <3>2, WithSoundRow
    <3>4. server'.own = rows
      BY <2>3, <3>2
    <3>. QED
      BY <3>3, <3>4
  <2>. QED
    BY <1>8, <2>4 DEF OtherMovesIntegration, IntegrationsInv, IsOpen, IsSaving
<1>9. CASE OtherListChange \/ OtherProjectChange \/ OtherDeletes
  <2>1. server'.own \subseteq server.own
    BY <1>9 DEF OtherListChange, OtherProjectChange, OtherDeletes, ConsoleShape
  <2>. QED
    BY <1>9, <2>1 DEF OtherListChange, OtherProjectChange, OtherDeletes, IntegrationsInv, IsOpen,
       IsSaving
<1>. QED
  BY <1>1, <1>2, <1>3, <1>4, <1>5, <1>6, <1>7, <1>8, <1>9 DEF ConsoleNext

LEMMA IntegrationsInitially == ConsoleInit => ConsoleShape /\ IntegrationsInv
<1>1. ConsoleInit => ConsoleShape
  BY DEF ConsoleInit, ConsoleShape, IsOpen, IsSaving
<1>2. ConsoleInit /\ view = "integrations" => server.own = Rows["integrations"] /\ view \in Views
  BY DEF ConsoleInit
<1>3. ConsoleInit => ~IsOpen /\ ~IsSaving
  BY DEF ConsoleInit, IsOpen, IsSaving
<1>. QED
  BY <1>1, <1>2, <1>3, RowsAssumption DEF IntegrationsInv, IntegrationSound

\* A stored credential is only ever used with the address it was entered for, although the
\* dialog decides from a row that may be out of date whether to ask for it again
\* (integration-drawer.tsx:174, internal/api/handlers/integrations.go:207).
THEOREM CredentialStaysAtItsAddress == ConsoleSpec => []SecretKeepsItsAddress
<1>1. IntegrationsInv => SecretKeepsItsAddress
  BY DEF IntegrationsInv, IntegrationSound, SecretKeepsItsAddress
<1>. QED
  BY <1>1, IntegrationsInitially, ShapeStep, IntegrationsStep, PTL DEF ConsoleSpec

\* The API refuses no save that the integration or the notification dialog let pass, unless
\* the row was changed or deleted meanwhile: the checks in TypeScript imply those in Go.
THEOREM DialogChecksSuffice == ConsoleSpec => RefusedOnlyWhenOvertaken
<1>. DEFINE Refusal == /\ IsSaving /\ saving' # NoSave /\ saving'.served = "refused"
                       /\ saving.served = "no" /\ view \in {"integrations", "notifications"}
            Overtaken == saving.mode = "edit" /\ saving.row \notin server.own
<1>1. ASSUME ConsoleShape, IntegrationsInv, [ConsoleNext]_consoleVars, Refusal
      PROVE  Overtaken
  <2>1. Serve /\ ~Accepted(saving)
    <3>1. saving' # saving /\ saving' # NoSave /\ IsSaving
      BY <1>1
    <3>2. Serve
      <4>1. /\ ~(UNCHANGED consoleVars) /\ ~(\E l \in PageLists : Fetch(l))
            /\ ~OpenCreate /\ ~OpenEdit /\ ~Cancel
        BY <3>1 DEF consoleVars, Fetch, OpenCreate, OpenEdit, Open, Cancel
      <4>2. ~(\E control : Edit(control)) /\ ~Submit /\ ~Saved /\ ~SaveFailed
        BY <3>1 DEF Edit, Submit, CanSubmit, Saved, SaveFailed
      <4>3. /\ ~OtherListChange /\ ~OtherProjectChange /\ ~OtherMovesIntegration
            /\ ~OtherDeletes
        BY <3>1 DEF OtherListChange, OtherProjectChange, OtherMovesIntegration, OtherDeletes
      <4>. QED
        BY <1>1, <4>1, <4>2, <4>3 DEF ConsoleNext
    <3>. QED
      BY <1>1, <3>2 DEF Serve, ConsoleShape
  <2>2. saving.mode \in {"create", "edit"}
    BY <1>1 DEF ConsoleShape
  <2>3. CASE view = "notifications"
    <3>1. saving.mode = "edit" /\ Stored(saving.row.id) = {}
      BY <2>1, <2>2, <2>3 DEF Accepted
    <3>. QED
      BY <3>1 DEF Stored
  <2>4. CASE view = "integrations"
    <3>1. saving.mode = "edit"
      BY <1>1, <2>1, <2>2, <2>4 DEF Accepted, IntegrationsInv
    <3>2. ASSUME saving.row \in server.own PROVE FALSE
      <4>1. Stored(saving.row.id) = {saving.row}
        BY <1>1, <2>4, <3>2 DEF Stored, IntegrationsInv
      <4>2. IntegrationPatchAccepted(saving.payload, saving.row)
        BY <1>1, <2>4, <3>1, <3>2 DEF IntegrationsInv, IntegrationSound
      <4>. QED
        BY <2>1, <2>4, <3>1, <4>1, <4>2 DEF Accepted
    <3>. QED
      BY <3>1, <3>2
  <2>. QED
    BY <1>1, <2>3, <2>4
<1>2. ConsoleShape /\ IntegrationsInv /\ [ConsoleNext]_consoleVars
        => [Refusal => Overtaken]_consoleVars
  BY <1>1
<1>. QED
  BY <1>2, IntegrationsInitially, ShapeStep, IntegrationsStep, PTL
     DEF ConsoleSpec, RefusedOnlyWhenOvertaken

-----------------------------------------------------------------------------
(* Lists of integrations.                                                  *)

\* Induction on natural numbers, as the least member of a set of them.
LEMMA LeastNat ==
  ASSUME NEW T \in SUBSET Nat, T # {}
  PROVE  \E x \in T : \A y \in T : x <= y
<1>. DEFINE R == {ss \in Nat \X Nat : ss[1] < ss[2]}
<1>1. IsWellFoundedOn(R, Nat)
  BY NatLessThanWellFounded DEF OpToRel
<1>2. PICK x \in T : \A y \in T : <<y, x>> \notin R
  <2>. HIDE DEF R
  <2>. QED
    BY <1>1, WFMin
<1>3. ASSUME NEW y \in T PROVE x <= y
  <2>1. <<y, x>> \in Nat \X Nat /\ ~(<<y, x>>[1] < <<y, x>>[2])
    BY <1>2
  <2>. QED
    BY <2>1
<1>. QED
  BY <1>3

LEMMA FirstIsListed ==
  ASSUME NEW rows \in SUBSET Integrations
  PROVE  FirstId(rows) = "" \/ \E r \in rows : FirstId(rows) = r.id
<1>. SUFFICES ASSUME rows # {} PROVE \E r \in rows : FirstId(rows) = r.id
  BY DEF FirstId
<1>1. \A r \in rows : r.at \in Nat
  BY ListAssumption
<1>2. PICK T : T = {r.at : r \in rows}
  OBVIOUS
<1>3. T \in SUBSET Nat /\ T # {}
  BY <1>1, <1>2
<1>4. PICK n \in T : \A m \in T : n <= m
  BY <1>3, LeastNat
<1>5. \E r \in rows : \A q \in rows : r.at <= q.at
  BY <1>2, <1>4
<1>. QED
  BY <1>5 DEF FirstId

LEMMA KindOfListed ==
  ASSUME NEW rows \in SUBSET Integrations, NEW i \in rows
  PROVE  KindOf(rows, i.id) = i.kind
<1>1. \A j \in rows : j.id = i.id => j = i
  BY ListAssumption
<1>. QED
  BY <1>1 DEF KindOf, Listed

-----------------------------------------------------------------------------
(* Repositories: the credential.                                           *)

CredentialFits(f) == f.integration # "" => KindOf(Integrations, f.integration) = f.kind

\* Whatever the effects start from, they leave a credential of the selected kind or none.
LEMMA SettledFits ==
  ASSUME NEW rows \in SUBSET Integrations, NEW f, NEW mode, {"kind", "integration"} \subseteq DOMAIN f
  PROVE  /\ CredentialFits(RepoSettled(f, mode, rows))
         /\ DOMAIN RepoSettled(f, mode, rows) = DOMAIN f
         /\ RepoSettled(f, mode, rows).kind = f.kind
<1>. DEFINE offered == IntegrationsOfKind(rows, f.kind)
            id == RepoSettled(f, mode, rows).integration
<1>1. /\ DOMAIN RepoSettled(f, mode, rows) = DOMAIN f
      /\ RepoSettled(f, mode, rows).kind = f.kind
      /\ \/ id = DefaultIntegration(rows, f.kind)
         \/ id = IF Listed(offered, f.integration) THEN f.integration ELSE ""
  BY DEF RepoSettled
<1>2. offered \subseteq Integrations /\ \A i \in offered : i.kind = f.kind
  BY DEF IntegrationsOfKind
<1>3. id = "" \/ \E i \in offered : id = i.id
  <2>1. CASE id = DefaultIntegration(rows, f.kind)
    <3>. DEFINE defaults == {i \in offered : i.isDefault}
    <3>1. id = FirstId(defaults)
      BY <2>1 DEF DefaultIntegration
    <3>2. defaults \in SUBSET Integrations /\ defaults \subseteq offered
      BY <1>2
    <3>. HIDE DEF defaults, offered, id
    <3>. QED
      BY <3>1, <3>2, FirstIsListed
  <2>2. CASE id = IF Listed(offered, f.integration) THEN f.integration ELSE ""
    BY <2>2 DEF Listed
  <2>. QED
    BY <1>1, <2>1, <2>2
<1>4. \A i \in offered : KindOf(Integrations, i.id) = f.kind
  BY <1>2, KindOfListed
<1>. QED
  BY <1>1, <1>3, <1>4 DEF CredentialFits

\* The list lacks the row's credential.
Lacks(rows, row) ==
  row.integration # "" /\ ~Listed(IntegrationsOfKind(rows, row.kind), row.integration)

LEMMA UnlistedIsLacking ==
  ASSUME view = "repos", NEW s, NEW row
  PROVE  Unlisted(s, "edit", row) <=> Lacks(s.integrations, row)
BY DEF Unlisted, Lacks

\* A listed credential survives the effects of an edit.
LEMMA SettledKeeps ==
  ASSUME NEW rows, NEW row, ~Lacks(rows, row), NEW f, "integration" \in DOMAIN f,
         f.kind = row.kind, f.integration = row.integration
  PROVE  RepoSettled(f, "edit", rows).integration = row.integration
BY DEF Lacks, RepoSettled

RepoFields == {"kind", "path", "project", "integration", "chosen", "other"}

ReposInv ==
  view = "repos" =>
    /\ \A r \in server.own : CredentialFits(r)
    /\ IsOpen =>
         /\ DOMAIN dialog.form = RepoFields /\ CredentialFits(dialog.form)
         /\ dialog.mode = "edit" /\ ~dialog.excused =>
              /\ dialog.form.kind = dialog.row.kind
              /\ dialog.form.integration = dialog.row.integration
              /\ ~Lacks(seen.integrations, dialog.row)
    /\ IsSaving =>
         /\ {"kind", "integration"} \subseteq DOMAIN saving.payload
         /\ CredentialFits(saving.payload)
         /\ saving.mode = "edit" /\ ~saving.excused =>
              saving.payload.integration = saving.row.integration

LEMMA FreshRepo ==
  ASSUME view = "repos", NEW s, NEW mode, NEW row
  PROVE  /\ DOMAIN Fresh(s, mode, row) = RepoFields
         /\ mode = "edit" => /\ Fresh(s, mode, row).kind = row.kind
                             /\ Fresh(s, mode, row).integration = row.integration
BY DEF Fresh, Loaded, Blank, RepoLoaded, RepoBlank, RepoFields

LEMMA ReposStep == ConsoleShape /\ ReposInv /\ [ConsoleNext]_consoleVars => ReposInv'
<1>. SUFFICES ASSUME ConsoleShape, ReposInv, [ConsoleNext]_consoleVars, view = "repos"
              PROVE  ReposInv'
  BY ViewFixed DEF ReposInv
<1>1. CASE UNCHANGED consoleVars
  BY <1>1 DEF consoleVars, ReposInv, IsOpen, IsSaving
<1>2. ASSUME NEW l \in PageLists, Fetch(l) PROVE ReposInv'
  <2>1. ASSUME IsOpen
        PROVE  /\ DOMAIN dialog'.form = RepoFields /\ CredentialFits(dialog'.form)
               /\ dialog'.mode = "edit" /\ ~dialog'.excused =>
                    /\ dialog'.form.kind = dialog'.row.kind
                    /\ dialog'.form.integration = dialog'.row.integration
                    /\ ~Lacks(seen'.integrations, dialog'.row)
    <3>1. seen'.integrations \in SUBSET Integrations
      BY <1>2, FetchedLists DEF ConsoleShape
    <3>2. PICK f : /\ f = Fresh(seen', dialog.mode, dialog.row) \/ f = dialog.form
                   /\ dialog'.form = Settled(seen', f, f, dialog.mode)
                   /\ ~dialog'.excused =>
                        /\ ~Unlisted(seen', dialog.mode, dialog.row)
                        /\ ~dialog.excused \/ f = Fresh(seen', dialog.mode, dialog.row)
      BY <1>2, <2>1, FetchedLists
    <3>3. dialog'.mode = dialog.mode /\ dialog'.row = dialog.row
      BY <1>2, <2>1, FetchedLists
    <3>4. dialog'.form = RepoSettled(f, dialog.mode, seen'.integrations)
      BY <3>2 DEF Settled
    <3>5. DOMAIN f = RepoFields
      BY <2>1, <3>2, FreshRepo DEF ReposInv
    <3>6. /\ DOMAIN dialog'.form = RepoFields /\ CredentialFits(dialog'.form)
          /\ dialog'.form.kind = f.kind
      BY <3>1, <3>4, <3>5, SettledFits DEF RepoFields
    <3>7. ASSUME dialog.mode = "edit", ~dialog'.excused
          PROVE  /\ f.kind = dialog.row.kind /\ f.integration = dialog.row.integration
                 /\ ~Lacks(seen'.integrations, dialog.row)
      BY <2>1, <3>2, <3>7, FreshRepo, UnlistedIsLacking DEF ReposInv
    <3>8. ASSUME dialog.mode = "edit", ~dialog'.excused
          PROVE  dialog'.form.integration = dialog.row.integration
      BY <3>4, <3>5, <3>7, <3>8, SettledKeeps DEF RepoFields
    <3>. QED
      BY <3>3, <3>6, <3>7, <3>8
  <2>2. ~IsOpen => dialog' = dialog
    BY <1>2, FetchedLists
  <2>. QED
    BY <1>2, <2>1, <2>2 DEF Fetch, ReposInv, IsOpen, IsSaving
<1>3. CASE OpenCreate \/ OpenEdit
  <2>1. PICK mode \in {"create", "edit"}, row \in {NoRow} \cup seen.own : Open(mode, row)
    BY <1>3 DEF OpenCreate, OpenEdit
  <2>5. PICK f : f = Fresh(seen, mode, row)
    OBVIOUS
  <2>2. /\ dialog'.form = RepoSettled(f, mode, seen.integrations)
        /\ dialog'.mode = mode /\ dialog'.row = row
        /\ ~dialog'.excused => ~Unlisted(seen, mode, row)
    BY <2>1, <2>5 DEF Open, Settled
  <2>6. DOMAIN f = RepoFields
    BY <2>5, FreshRepo
  <2>3. /\ DOMAIN dialog'.form = RepoFields /\ CredentialFits(dialog'.form)
        /\ dialog'.form.kind = f.kind
    BY <2>2, <2>6, SettledFits DEF RepoFields, ConsoleShape
  <2>4. ASSUME mode = "edit", ~dialog'.excused
        PROVE  /\ dialog'.form.kind = row.kind /\ dialog'.form.integration = row.integration
               /\ ~Lacks(seen.integrations, row)
    <3>1. f.kind = row.kind /\ f.integration = row.integration
      BY <2>4, <2>5, FreshRepo
    <3>2. ~Lacks(seen.integrations, row)
      BY <2>2, <2>4, UnlistedIsLacking
    <3>. QED
      BY <2>2, <2>3, <2>4, <2>6, <3>1, <3>2, SettledKeeps DEF RepoFields
  <2>. QED
    BY <2>1, <2>2, <2>3, <2>4 DEF Open, ReposInv, IsOpen, IsSaving
<1>4. ASSUME NEW control, Edit(control) PROVE ReposInv'
  <2>1. PICK value \in Controls[control] :
          dialog' = [dialog EXCEPT
                       !.form = Settled(seen, RepoEdited(dialog.form, control, value), dialog.form,
                                        dialog.mode),
                       !.excused = @ \/ (view = "repos" /\ control \in {"kind", "integration"})]
    BY <1>4 DEF Edit, Edited
  <2>7. PICK f : f = RepoEdited(dialog.form, control, value)
    OBVIOUS
  <2>2. /\ dialog'.form = RepoSettled(f, dialog.mode, seen.integrations)
        /\ dialog'.mode = dialog.mode /\ dialog'.row = dialog.row
        /\ ~dialog'.excused => ~dialog.excused /\ control \notin {"kind", "integration"}
    BY <1>4, <2>1, <2>7 DEF Edit, Settled, ConsoleShape
  <2>3. DOMAIN f = RepoFields
    BY <1>4, <2>7 DEF RepoEdited, Edit, ReposInv
  <2>4. /\ DOMAIN dialog'.form = RepoFields /\ CredentialFits(dialog'.form)
        /\ dialog'.form.kind = f.kind
    BY <2>2, <2>3, SettledFits DEF RepoFields, ConsoleShape
  <2>5. ASSUME dialog.mode = "edit", ~dialog'.excused
        PROVE  /\ f.kind = dialog.row.kind /\ f.integration = dialog.row.integration
               /\ ~Lacks(seen.integrations, dialog.row)
    <3>1. ~dialog.excused /\ control # "kind" /\ control # "integration"
      BY <2>2, <2>5
    <3>2. f = [dialog.form EXCEPT ![control] = value]
      BY <2>7, <3>1 DEF RepoEdited
    <3>. QED
      BY <1>4, <2>5, <3>1, <3>2 DEF Edit, ReposInv, RepoFields
  <2>6. ASSUME dialog.mode = "edit", ~dialog'.excused
        PROVE  dialog'.form.integration = dialog.row.integration
    BY <2>2, <2>3, <2>5, <2>6, SettledKeeps DEF RepoFields
  <2>. QED
    BY <1>4, <2>2, <2>4, <2>5, <2>6 DEF Edit, ReposInv, IsOpen, IsSaving
<1>5. CASE Cancel \/ Saved \/ SaveFailed
  BY <1>5 DEF Cancel, Saved, SaveFailed, ReposInv, IsOpen, IsSaving
<1>6. CASE Submit
  <2>1. saving' = [mode |-> dialog.mode, row |-> dialog.row, payload |-> RepoPayload(dialog.form),
                   excused |-> dialog.excused, served |-> "no"]
    BY <1>6 DEF Submit, Payload
  <2>2. /\ {"kind", "integration"} \subseteq DOMAIN RepoPayload(dialog.form)
        /\ RepoPayload(dialog.form).kind = dialog.form.kind
        /\ RepoPayload(dialog.form).integration = dialog.form.integration
    BY DEF RepoPayload
  <2>3. CredentialFits(RepoPayload(dialog.form))
    BY <1>6, <2>2 DEF Submit, ReposInv, CredentialFits
  <2>4. UNCHANGED <<view, server, seen, dialog>> /\ IsOpen
    BY <1>6 DEF Submit
  <2>. QED
    BY <2>1, <2>2, <2>3, <2>4 DEF ReposInv, IsOpen, IsSaving
<1>7. CASE Serve
  <2>1. UNCHANGED <<view, seen, dialog>> /\ saving'.mode = saving.mode /\ saving'.row = saving.row
        /\ saving'.payload = saving.payload /\ saving'.excused = saving.excused /\ IsSaving
    BY <1>7 DEF Serve, ConsoleShape
  <2>2. \A r \in server'.own : CredentialFits(r)
    <3>1. ASSUME NEW id PROVE CredentialFits(Identified(saving.payload, id))
      <4>1. /\ Identified(saving.payload, id).kind = saving.payload.kind
            /\ Identified(saving.payload, id).integration = saving.payload.integration
        BY <2>1 DEF ReposInv, Identified
      <4>. QED
        BY <2>1, <4>1 DEF ReposInv, CredentialFits
    <3>2. \A row : WithRow(server.own, row) \subseteq server.own \cup {row}
      BY DEF WithRow
    <3>3. \/ server'.own = server.own
          \/ \E id : server'.own = WithRow(server.own, Identified(saving.payload, id))
      BY <1>7 DEF Serve, ConsoleShape, NewRow, PatchedRow
    <3>. QED
      <4>1. CASE server'.own = server.own
        BY <4>1 DEF ReposInv
      <4>2. ASSUME NEW id, server'.own = WithRow(server.own, Identified(saving.payload, id))
            PROVE  \A r \in server'.own : CredentialFits(r)
        BY <3>1, <3>2, <4>2 DEF ReposInv
      <4>. QED
        BY <3>3, <4>1, <4>2
  <2>. QED
    BY <2>1, <2>2 DEF ReposInv, IsOpen, IsSaving
<1>8. CASE OtherListChange \/ OtherProjectChange \/ OtherMovesIntegration \/ OtherDeletes
  <2>1. server'.own \subseteq server.own
    BY <1>8 DEF OtherListChange, OtherProjectChange, OtherMovesIntegration, OtherDeletes, ConsoleShape
  <2>. QED
    BY <1>8, <2>1 DEF OtherListChange, OtherProjectChange, OtherMovesIntegration, OtherDeletes,
       ReposInv, IsOpen, IsSaving
<1>. QED
  BY <1>1, <1>2, <1>3, <1>4, <1>5, <1>6, <1>7, <1>8 DEF ConsoleNext

LEMMA ReposInitially == ConsoleInit => ConsoleShape /\ ReposInv
<1>1. ConsoleInit => ConsoleShape /\ ~IsOpen /\ ~IsSaving
  BY IntegrationsInitially DEF ConsoleInit, IsOpen, IsSaving
<1>2. ConsoleInit /\ view = "repos" => server.own = Rows["repos"] /\ view \in Views
  BY DEF ConsoleInit
<1>. QED
  BY <1>1, <1>2, RowsAssumption DEF ReposInv, CredentialFits

\* Through every change of the kind, of the list and of the row, a repository gets no
\* credential of another kind than its own, which the API does not check.
THEOREM CredentialsFitTheirKind == ConsoleSpec => []CredentialOfItsKind
<1>1. ReposInv => CredentialOfItsKind
  BY DEF ReposInv, CredentialFits, CredentialOfItsKind
<1>. QED
  BY <1>1, ReposInitially, ShapeStep, ReposStep, PTL DEF ConsoleSpec

\* A save keeps the credential of its row unless somebody picked another one or the page's
\* list lacked it (repos.test.tsx:502).
THEOREM SaveKeepsCredential == ConsoleSpec => []CredentialKept
<1>1. ReposInv => CredentialKept
  BY DEF ReposInv, CredentialKept
<1>. QED
  BY <1>1, ReposInitially, ShapeStep, ReposStep, PTL DEF ConsoleSpec

-----------------------------------------------------------------------------
(* Ticket projects: what was picked for another one.                       *)

ProjectFields == {"integration", "space", "project", "name", "config", "mapping", "other"}

\* A row that the page has fetched or a dialog was opened with: whatever became of it since,
\* its id stands for the same external project.
KnownProject(r) ==
  /\ r.mapping = r.project /\ "kind" \in DOMAIN r.config
  /\ r.id = NewId => Stored(NewId) # {}
  /\ \A s \in server.own : s.id = r.id => s.integration = r.integration /\ s.project = r.project

\* The form: columns of the selected external project or none; while a project is added, an
\* integration that is listed or none; afterwards that of the row.
ProjectFormOK(form, mode, row, integrations) ==
  /\ DOMAIN form = ProjectFields /\ "kind" \in DOMAIN form.config
  /\ form.mapping \in {"", form.project}
  /\ mode = "create" => \/ form.integration = ""
                        \/ Listed(TicketIntegrations(integrations), form.integration)
  /\ mode = "edit" => form.integration = row.integration /\ form.project = row.project

ProjectsInv ==
  view = "projects" =>
    /\ \A r \in server.own : KnownProject(r) /\ r.config.kind = KindOf(Integrations, r.integration)
    /\ \A r \in seen.own : KnownProject(r)
    /\ IsOpen => /\ ProjectFormOK(dialog.form, dialog.mode, dialog.row, seen.integrations)
                 /\ dialog.mode = "edit" => KnownProject(dialog.row)
    /\ IsSaving =>
         /\ {"integration", "project", "mapping", "config"} \subseteq DOMAIN saving.payload
         /\ "kind" \in DOMAIN saving.payload.config
         /\ saving.payload.mapping = saving.payload.project
         /\ saving.payload.config.kind = KindOf(Integrations, saving.payload.integration)
         /\ saving.mode = "edit" => /\ saving.payload.integration = saving.row.integration
                                    /\ saving.payload.project = saving.row.project
                                    /\ KnownProject(saving.row)

\* A kind that a list gives is the kind of the integration.
LEMMA KindOfPart ==
  ASSUME NEW rows \in SUBSET Integrations, NEW id, KindOf(rows, id) # ""
  PROVE  KindOf(rows, id) = KindOf(Integrations, id)
<1>1. PICK i \in rows : i.id = id
  BY DEF KindOf, Listed
<1>. QED
  BY <1>1, KindOfListed

LEMMA TicketKindListed ==
  ASSUME NEW rows \in SUBSET Integrations, NEW id, Listed(TicketIntegrations(rows), id)
  PROVE  KindOf(TicketIntegrations(rows), id) # ""
<1>1. PICK i \in TicketIntegrations(rows) : i.id = id
  BY DEF Listed
<1>2. TicketIntegrations(rows) \in SUBSET Integrations /\ i.kind # ""
  BY <1>1 DEF TicketIntegrations, TicketKinds
<1>. QED
  BY <1>1, <1>2, KindOfListed

LEMMA DefaultConfigKind == \A kind : "kind" \in DOMAIN DefaultConfig(kind)
BY DEF DefaultConfig

LEMMA FreshProject ==
  ASSUME view = "projects", NEW s, s.integrations \in SUBSET Integrations, NEW mode, NEW row,
         mode \in {"create", "edit"}, mode = "edit" => row.mapping = row.project /\ "kind" \in DOMAIN row.config
  PROVE  ProjectFormOK(Fresh(s, mode, row), mode, row, s.integrations)
<1>1. CASE mode = "create"
  <2>1. PICK f : f = Fresh(s, mode, row)
    OBVIOUS
  <2>4. /\ DOMAIN f = ProjectFields /\ f.mapping = ""
        /\ f.integration = FirstId(TicketIntegrations(s.integrations))
        /\ f.config = DefaultConfig(KindOf(s.integrations, f.integration))
    BY <1>1, <2>1 DEF Fresh, Blank, ProjectBlank, ProjectFields
  <2>2. TicketIntegrations(s.integrations) \in SUBSET Integrations
    BY DEF TicketIntegrations
  <2>3. \/ FirstId(TicketIntegrations(s.integrations)) = ""
        \/ Listed(TicketIntegrations(s.integrations), FirstId(TicketIntegrations(s.integrations)))
    BY <2>2, FirstIsListed DEF Listed
  <2>. QED
    <3>1. "kind" \in DOMAIN f.config
      BY <2>4, DefaultConfigKind
    <3>. QED
      BY <1>1, <2>1, <2>3, <2>4, <3>1 DEF ProjectFormOK
<1>2. CASE mode = "edit"
  <2>1. PICK f : f = Fresh(s, mode, row)
    OBVIOUS
  <2>2. /\ DOMAIN f = ProjectFields /\ f.mapping = row.mapping /\ f.project = row.project
        /\ f.integration = row.integration
        /\ f.config = ConfigLoaded(KindOf(s.integrations, row.integration), row.config)
    BY <1>2, <2>1 DEF Fresh, Loaded, ProjectLoaded, ProjectFields
  <2>3. "kind" \in DOMAIN f.config
    BY <1>2, <2>2 DEF ConfigLoaded
  <2>. QED
    BY <1>2, <2>1, <2>2, <2>3 DEF ProjectFormOK
<1>. QED
  BY <1>1, <1>2

\* Whatever is edited, the effects leave nothing picked for another project.
LEMMA EditedProject ==
  ASSUME NEW form, NEW mode \in {"create", "edit"}, NEW row, NEW rows \in SUBSET Integrations,
         ProjectFormOK(form, mode, row, rows),
         NEW kind, kind = ActiveKind(form, mode, rows),
         NEW control \in ProjectFields,
         NEW value \in ProjectControls(form, mode, kind, rows, Home)[control],
         form[control] # value,
         NEW g, g = [form EXCEPT ![control] = value]
  PROVE  ProjectFormOK(ProjectSettled(g, form, mode, ActiveKind(g, mode, rows)), mode, row, rows)
<1>. DEFINE kindNow == ActiveKind(g, mode, rows)
            h == ProjectSettled(g, form, mode, kindNow)
<1>1. DOMAIN g = ProjectFields /\ g[control] = value
      /\ \A c \in ProjectFields \ {control} : g[c] = form[c]
  BY DEF ProjectFormOK
<1>2. \/ h = g
      \/ h = [g EXCEPT !.space = "", !.project = "", !.config = DefaultConfig(kindNow), !.mapping = ""]
      \/ h = [g EXCEPT !.config = DefaultConfig(kindNow), !.mapping = ""]
  BY DEF ProjectSettled
<1>3. CASE control \in {"space", "name", "other"}
  <2>1. /\ g.integration = form.integration /\ g.project = form.project
        /\ g.mapping = form.mapping /\ g.config = form.config
    BY <1>1, <1>3 DEF ProjectFields
  <2>2. h = g
    BY <2>1 DEF ProjectSettled
  <2>. QED
    BY <1>1, <2>1, <2>2 DEF ProjectFormOK
<1>4. CASE control = "config"
  <2>1. /\ g.integration = form.integration /\ g.project = form.project
        /\ g.mapping = form.mapping /\ g.config = value
    BY <1>1, <1>4 DEF ProjectFields
  <2>2. h = g
    BY <2>1 DEF ProjectSettled
  <2>3. value = [form.config EXCEPT !.filled = TRUE]
    BY <1>4 DEF ProjectControls, ConfigControls
  <2>4. "kind" \in DOMAIN g.config
    BY <2>1, <2>3 DEF ProjectFormOK
  <2>. QED
    BY <1>1, <2>1, <2>2, <2>4 DEF ProjectFormOK
<1>5. CASE control = "mapping"
  <2>1. /\ g.integration = form.integration /\ g.project = form.project
        /\ g.mapping = value /\ g.config = form.config
    BY <1>1, <1>5 DEF ProjectFields
  <2>2. h = g
    BY <2>1 DEF ProjectSettled
  <2>3. value \in {"", form.project}
    BY <1>5 DEF ProjectControls, MappingControls
  <2>. QED
    BY <1>1, <2>1, <2>2, <2>3 DEF ProjectFormOK
<1>6. CASE control = "integration"
  <2>1. mode = "create" /\ Listed(TicketIntegrations(rows), value)
    BY <1>6 DEF ProjectControls, Listed
  <2>2. g.integration = value /\ value # form.integration
    BY <1>1, <1>6
  <2>3. kindNow # ""
    BY <2>1, <2>2, TicketKindListed DEF ActiveKind
  <2>4. h = [g EXCEPT !.space = "", !.project = "", !.config = DefaultConfig(kindNow), !.mapping = ""]
    BY <2>1, <2>2, <2>3 DEF ProjectSettled
  <2>5. /\ DOMAIN h = ProjectFields /\ h.mapping = "" /\ h.integration = value
        /\ h.config = DefaultConfig(kindNow)
    BY <1>1, <2>2, <2>4 DEF ProjectFields
  <2>. QED
    BY <2>1, <2>5 DEF ProjectFormOK, DefaultConfig
<1>7. CASE control = "project"
  <2>1. mode = "create" /\ form.integration # ""
    BY <1>7 DEF ProjectControls, SelectItems
  <2>2. g.integration = form.integration /\ g.project # form.project
    BY <1>1, <1>7 DEF ProjectFields
  <2>3. kindNow # ""
    BY <2>1, <2>2, TicketKindListed DEF ActiveKind, ProjectFormOK
  <2>4. h = [g EXCEPT !.config = DefaultConfig(kindNow), !.mapping = ""]
    BY <2>1, <2>2, <2>3 DEF ProjectSettled
  <2>5. /\ DOMAIN h = ProjectFields /\ h.mapping = "" /\ h.integration = form.integration
        /\ h.config = DefaultConfig(kindNow)
    BY <1>1, <2>2, <2>4 DEF ProjectFields
  <2>. QED
    BY <2>1, <2>5 DEF ProjectFormOK, DefaultConfig
<1>. QED
  BY <1>3, <1>4, <1>5, <1>6, <1>7 DEF ProjectFields

LEMMA SentConfig ==
  ASSUME NEW kind, NEW config, NEW space, "kind" \in DOMAIN config
  PROVE  ConfigSent(kind, config, space).kind = kind /\ "kind" \in DOMAIN ConfigSent(kind, config, space)
BY DEF ConfigSent

\* What is known of a row stays true while the database keeps, per id, what a row is for and
\* the one new row.
LEMMA StillKnown ==
  ASSUME NEW r, KnownProject(r),
         \A s \in server'.own : \/ s.id = NewId /\ Stored(NewId) = {}
                                \/ \E q \in server.own : /\ q.id = s.id /\ q.project = s.project
                                                         /\ q.integration = s.integration,
         Stored(NewId) # {} => Stored(NewId)' # {}
  PROVE  KnownProject(r)'
BY DEF KnownProject

LEMMA ProjectsStep == ConsoleShape /\ ProjectsInv /\ [ConsoleNext]_consoleVars => ProjectsInv'
<1>. SUFFICES ASSUME ConsoleShape, ProjectsInv, [ConsoleNext]_consoleVars, view = "projects"
              PROVE  ProjectsInv'
  BY ViewFixed DEF ProjectsInv
<1>. DEFINE SameRows == \A r : KnownProject(r) => KnownProject(r)'
<1>0. UNCHANGED server => SameRows
  BY DEF KnownProject, Stored
<1>. HIDE DEF SameRows
<1>1. CASE UNCHANGED consoleVars
  BY <1>0, <1>1 DEF consoleVars, ProjectsInv, IsOpen, IsSaving, SameRows
<1>2. ASSUME NEW l \in PageLists, Fetch(l) PROVE ProjectsInv'
  <2>1. ASSUME IsOpen
        PROVE  /\ ProjectFormOK(dialog'.form, dialog'.mode, dialog'.row, seen'.integrations)
               /\ dialog'.mode = dialog.mode /\ dialog'.row = dialog.row
    <3>1. seen'.integrations \in SUBSET Integrations
      BY <1>2, FetchedLists DEF ConsoleShape
    <3>2. PICK f : /\ \/ f = Fresh(seen', dialog.mode, dialog.row)
                      \/ f = dialog.form /\ \A m \in ResetLists :
                            m \in seen.fetched /\ seen'[m] = seen[m]
                   /\ dialog'.form = Settled(seen', f, f, dialog.mode)
      BY <1>2, <2>1, FetchedLists
    <3>3. dialog'.mode = dialog.mode /\ dialog'.row = dialog.row
      BY <1>2, <2>1, FetchedLists
    <3>4. dialog'.form = f
      BY <3>2 DEF Settled, ProjectSettled
    <3>5. CASE f = Fresh(seen', dialog.mode, dialog.row)
      BY <2>1, <3>1, <3>3, <3>4, <3>5, FreshProject DEF ProjectsInv, KnownProject, ConsoleShape
    <3>6. CASE f = dialog.form /\ \A m \in ResetLists : m \in seen.fetched /\ seen'[m] = seen[m]
      <4>1. seen'.integrations = seen.integrations
        BY <3>6 DEF ResetLists
      <4>. QED
        BY <2>1, <3>3, <3>4, <3>6, <4>1 DEF ProjectsInv
    <3>. QED
      BY <3>2, <3>3, <3>5, <3>6
  <2>2. ~IsOpen => dialog' = dialog
    BY <1>2, FetchedLists
  <2>3. \A r \in seen'.own : KnownProject(r)
    BY <1>2, FetchedLists DEF ProjectsInv
  <2>4. UNCHANGED <<view, server, saving>>
    BY <1>2 DEF Fetch
  <2>. QED
    BY <1>0, <2>1, <2>2, <2>3, <2>4 DEF ProjectsInv, IsOpen, IsSaving, SameRows
<1>3. CASE OpenCreate \/ OpenEdit
  <2>1. PICK mode \in {"create", "edit"}, row \in {NoRow} \cup seen.own :
          Open(mode, row) /\ (mode = "edit" => row \in seen.own)
    BY <1>3 DEF OpenCreate, OpenEdit
  <2>2. dialog'.form = Fresh(seen, mode, row) /\ dialog'.mode = mode /\ dialog'.row = row
    BY <2>1 DEF Open, Settled, ProjectSettled
  <2>3. mode = "edit" => KnownProject(row)
    BY <2>1 DEF ProjectsInv
  <2>4. ProjectFormOK(Fresh(seen, mode, row), mode, row, seen.integrations)
    BY <2>3, FreshProject DEF KnownProject, ConsoleShape
  <2>5. UNCHANGED <<view, server, seen, saving>>
    BY <2>1 DEF Open
  <2>. QED
    BY <1>0, <2>2, <2>3, <2>4, <2>5 DEF ProjectsInv, IsOpen, IsSaving, SameRows
<1>4. ASSUME NEW control, Edit(control) PROVE ProjectsInv'
  <2>1. PICK kind : kind = ActiveKind(dialog.form, dialog.mode, seen.integrations)
    OBVIOUS
  <2>2. Controls = ProjectControls(dialog.form, dialog.mode, kind, seen.integrations, Home)
    BY <2>1 DEF Controls, TicketKind
  <2>3. control \in ProjectFields
    BY <1>4, <2>2 DEF Edit, ProjectControls, ProjectFields
  <2>4. PICK value \in Controls[control] :
          /\ dialog.form[control] # value
          /\ dialog' = [dialog EXCEPT
                       !.form = Settled(seen, Edited(control, value), dialog.form, dialog.mode),
                       !.excused = @ \/ (view = "repos" /\ control \in {"kind", "integration"})]
    BY <1>4 DEF Edit
  <2>5. PICK g : g = [dialog.form EXCEPT ![control] = value]
    OBVIOUS
  <2>6. /\ dialog'.form = ProjectSettled(g, dialog.form, dialog.mode,
                                        ActiveKind(g, dialog.mode, seen.integrations))
        /\ dialog'.mode = dialog.mode /\ dialog'.row = dialog.row
    BY <1>4, <2>4, <2>5 DEF Edit, Settled, Edited, TicketKind, ConsoleShape
  <2>7. /\ ProjectFormOK(dialog.form, dialog.mode, dialog.row, seen.integrations)
        /\ dialog.mode = "edit" => KnownProject(dialog.row)
        /\ dialog.mode \in {"create", "edit"} /\ seen.integrations \in SUBSET Integrations
    BY <1>4 DEF Edit, ProjectsInv, ConsoleShape
  <2>8. ProjectFormOK(dialog'.form, dialog.mode, dialog.row, seen.integrations)
    BY <2>1, <2>2, <2>3, <2>4, <2>5, <2>6, <2>7, EditedProject
  <2>9. UNCHANGED <<view, server, seen, saving>>
    BY <1>4 DEF Edit
  <2>. QED
    BY <1>0, <2>6, <2>7, <2>8, <2>9 DEF ProjectsInv, IsOpen, IsSaving, SameRows
<1>5. CASE Cancel \/ Saved \/ SaveFailed
  <2>1. UNCHANGED <<view, server, seen>> /\ dialog' \in {dialog, Closed} /\ saving' \in {saving, NoSave}
    BY <1>5 DEF Cancel, Saved, SaveFailed
  <2>. QED
    BY <1>0, <2>1 DEF ProjectsInv, IsOpen, IsSaving, SameRows
<1>6. CASE Submit
  <2>1. PICK kind : kind = ActiveKind(dialog.form, dialog.mode, seen.integrations)
    OBVIOUS
  <2>2. PICK sent : sent = ProjectPayload(dialog.form, dialog.mode, kind)
    OBVIOUS
  <2>3. saving' = [mode |-> dialog.mode, row |-> dialog.row, payload |-> sent,
                   excused |-> dialog.excused, served |-> "no"]
    BY <1>6, <2>1, <2>2 DEF Submit, Payload, TicketKind
  <2>4. InvalidTabs(dialog.form, dialog.mode, kind) = {}
    BY <1>6, <2>1 DEF Submit, Refused, TicketKind
  <2>5. kind # "" /\ dialog.form.mapping # ""
    BY <2>4 DEF InvalidTabs
  <2>6. ProjectFormOK(dialog.form, dialog.mode, dialog.row, seen.integrations)
        /\ (dialog.mode = "edit" => KnownProject(dialog.row))
        /\ dialog.mode \in {"create", "edit"} /\ seen.integrations \in SUBSET Integrations
    BY <1>6 DEF Submit, ProjectsInv, ConsoleShape
  <2>7. kind = KindOf(Integrations, dialog.form.integration)
    BY <2>1, <2>5, <2>6, KindOfPart DEF ActiveKind, TicketIntegrations
  <2>13. PICK space : space = IF dialog.mode = "create" THEN dialog.form.space ELSE ""
    OBVIOUS
  <2>8. /\ DOMAIN sent = {"integration", "project", "name", "config", "mapping", "other"}
        /\ sent.integration = dialog.form.integration /\ sent.project = dialog.form.project
        /\ sent.mapping = dialog.form.mapping
        /\ sent.config = ConfigSent(kind, dialog.form.config, space)
    BY <2>2, <2>13 DEF ProjectPayload
  <2>9. sent.config.kind = kind /\ "kind" \in DOMAIN sent.config
    <3>1. "kind" \in DOMAIN dialog.form.config
      BY <2>6 DEF ProjectFormOK
    <3>2. sent.config = ConfigSent(kind, dialog.form.config, space)
      BY <2>8
    <3>. QED
      BY <3>1, <3>2, SentConfig
  <2>10. sent.mapping = sent.project
    BY <2>5, <2>6, <2>8 DEF ProjectFormOK
  <2>11. dialog.mode = "edit" => /\ sent.integration = dialog.row.integration
                                /\ sent.project = dialog.row.project
    BY <2>6, <2>8 DEF ProjectFormOK
  <2>12. UNCHANGED <<view, server, seen, dialog>>
    BY <1>6 DEF Submit
  <2>. QED
    BY <1>0, <2>3, <2>6, <2>7, <2>8, <2>9, <2>10, <2>11, <2>12
       DEF ProjectsInv, IsOpen, IsSaving, SameRows
<1>7. CASE Serve
  <2>1. UNCHANGED <<view, seen, dialog>> /\ saving'.mode = saving.mode /\ saving'.row = saving.row
        /\ saving'.payload = saving.payload /\ IsSaving /\ saving.mode \in {"create", "edit"}
    BY <1>7 DEF Serve, ConsoleShape
  <2>2. CASE ~Accepted(saving)
    BY <1>0, <1>7, <2>1, <2>2 DEF Serve, ProjectsInv, IsOpen, IsSaving, SameRows
  <2>3. CASE Accepted(saving)
    <3>1. PICK row : /\ server'.own = {q \in server.own : q.id # row.id} \cup {row}
                     /\ \/ /\ saving.mode = "create" /\ Stored(NewId) = {}
                           /\ row = NewRow(saving)
                        \/ /\ saving.mode = "edit"
                           /\ \E old \in Stored(saving.row.id) : row = PatchedRow(saving, old)
      BY <1>7, <2>1, <2>3 DEF Serve, ConsoleShape, WithRow
    <3>2. /\ {"integration", "project", "mapping", "config"} \subseteq DOMAIN saving.payload
          /\ "kind" \in DOMAIN saving.payload.config
          /\ saving.payload.mapping = saving.payload.project
          /\ saving.payload.config.kind = KindOf(Integrations, saving.payload.integration)
      BY <2>1 DEF ProjectsInv
    <3>3. /\ row.mapping = saving.payload.mapping /\ row.config = saving.payload.config
          /\ row.integration = saving.payload.integration /\ row.project = saving.payload.project
          /\ \/ row.id = NewId /\ Stored(NewId) = {}
             \/ \E q \in server.own : /\ q.id = row.id /\ q.project = row.project
                                      /\ q.integration = row.integration
      <4>1. CASE saving.mode = "create"
        <5>1. row = Identified(saving.payload, NewId) /\ Stored(NewId) = {}
          BY <3>1, <4>1 DEF NewRow
        <5>. QED
          BY <3>2, <5>1 DEF Identified
      <4>2. CASE saving.mode = "edit"
        <5>1. PICK old \in Stored(saving.row.id) :
                row = [Identified(saving.payload, old.id) EXCEPT !.integration = old.integration,
                                                                 !.project = old.project]
          BY <3>1, <4>2 DEF PatchedRow
        <5>2. PICK sent : sent = Identified(saving.payload, old.id)
          OBVIOUS
        <5>3. /\ {"id", "integration", "project", "mapping", "config"} \subseteq DOMAIN sent
              /\ sent.id = old.id /\ sent.mapping = saving.payload.mapping
              /\ sent.config = saving.payload.config
          BY <3>2, <5>2 DEF Identified
        <5>4. /\ row.id = old.id /\ row.mapping = saving.payload.mapping
              /\ row.config = saving.payload.config
              /\ row.integration = old.integration /\ row.project = old.project
          BY <5>1, <5>2, <5>3
        <5>5. /\ old \in server.own /\ old.integration = saving.row.integration
              /\ old.project = saving.row.project
              /\ saving.payload.integration = saving.row.integration
              /\ saving.payload.project = saving.row.project
          BY <2>1, <4>2 DEF ProjectsInv, KnownProject, Stored
        <5>. QED
          BY <5>4, <5>5
      <4>. QED
        BY <2>1, <4>1, <4>2
    <3>4. /\ \A s \in server'.own :
               \/ s.id = NewId /\ Stored(NewId) = {}
               \/ \E q \in server.own : /\ q.id = s.id /\ q.project = s.project
                                        /\ q.integration = s.integration
          /\ Stored(NewId) # {} => Stored(NewId)' # {}
      BY <3>1, <3>3 DEF Stored
    <3>5. SameRows
      BY <3>4, StillKnown DEF SameRows
    <3>6. KnownProject(row)'
      <4>1. \A s \in server'.own : s.id = row.id => s = row
        BY <3>1
      <4>2. row.id = NewId => Stored(NewId)' # {}
        BY <3>1 DEF Stored
      <4>. QED
        BY <3>2, <3>3, <4>1, <4>2 DEF KnownProject
    <3>7. \A r \in server'.own : KnownProject(r)' /\ r.config.kind = KindOf(Integrations, r.integration)
      BY <3>1, <3>2, <3>3, <3>5, <3>6 DEF ProjectsInv, SameRows
    <3>. QED
      BY <2>1, <3>5, <3>7 DEF ProjectsInv, IsOpen, IsSaving, SameRows
  <2>. QED
    BY <2>2, <2>3
<1>8. CASE OtherListChange \/ OtherMovesIntegration \/ OtherProjectChange \/ OtherDeletes
  <2>1. /\ server'.own \subseteq server.own
        /\ \A r \in server.own : r.id = NewId => r \in server'.own
    BY <1>8 DEF OtherListChange, OtherProjectChange, OtherMovesIntegration, OtherDeletes, ConsoleShape
  <2>2. UNCHANGED <<view, seen, dialog, saving>>
    BY <1>8 DEF OtherListChange, OtherProjectChange, OtherMovesIntegration, OtherDeletes
  <2>3. SameRows
    BY <2>1, StillKnown DEF SameRows, Stored
  <2>. QED
    BY <2>1, <2>2, <2>3 DEF ProjectsInv, IsOpen, IsSaving, SameRows
<1>. QED
  BY <1>1, <1>2, <1>3, <1>4, <1>5, <1>6, <1>7, <1>8 DEF ConsoleNext

LEMMA ProjectsInitially == ConsoleInit => ConsoleShape /\ ProjectsInv
<1>1. ConsoleInit => ConsoleShape /\ ~IsOpen /\ ~IsSaving /\ seen.own = {}
  BY IntegrationsInitially DEF ConsoleInit, IsOpen, IsSaving
<1>2. ConsoleInit /\ view = "projects" => server.own = Rows["projects"] /\ view \in Views
  BY DEF ConsoleInit
<1>3. ConsoleInit /\ view = "projects" =>
        \A r \in server.own : KnownProject(r) /\ r.config.kind = KindOf(Integrations, r.integration)
  <2>. SUFFICES ASSUME ConsoleInit, view = "projects", NEW r \in server.own
                PROVE  KnownProject(r) /\ r.config.kind = KindOf(Integrations, r.integration)
    OBVIOUS
  <2>1. /\ "kind" \in DOMAIN r.config /\ r.mapping = r.project
        /\ r.config.kind = KindOf(Integrations, r.integration)
        /\ \A s \in server.own : s.id = r.id => s = r
    BY <1>2, RowsAssumption
  <2>2. r.id = NewId => Stored(NewId) # {}
    BY DEF Stored
  <2>. QED
    BY <2>1, <2>2 DEF KnownProject
<1>. QED
  BY <1>1, <1>3 DEF ProjectsInv

\* Whatever was selected in between, a saved ticket project's status mapping and create config
\* were picked for its own external project and its integration's kind (project-drawer.tsx:267-285).
THEOREM MappingsFitTheirProject == ConsoleSpec => []MappingOfItsProject
<1>1. ProjectsInv => MappingOfItsProject
  BY DEF ProjectsInv, KnownProject, MappingOfItsProject
<1>. QED
  BY <1>1, ProjectsInitially, ShapeStep, ProjectsStep, PTL DEF ConsoleSpec

=============================================================================
