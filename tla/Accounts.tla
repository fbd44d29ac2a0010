------------------------------ MODULE Accounts ------------------------------
(***************************************************************************)
(* Users, sessions and one-time tokens of the API.  A request runs a       *)
(* program: the database statements of its handler, in their order.  There *)
(* is one database connection and no transaction spans two statements, so  *)
(* concurrent requests interleave between the statements, and a request    *)
(* can fail before each of them with what it has done so far left behind.  *)
(*                                                                         *)
(* Addresses are normalized.  A password is the name of the request that   *)
(* set it.  What a request creates (a user, a session, a token) has the    *)
(* request's name as its id.                                               *)
(***************************************************************************)
EXTENDS Naturals, Sequences, FiniteSets

CONSTANTS Requests,      \* the requests that may be made
          Operations,    \* the handlers of this instance
          Addresses,     \* the addresses of users and of invited people
          FirstUsers,    \* set of [id, email, password]
          FirstSessions, \* set of [id, user]
          FirstTokens    \* set of [id, kind, email, newEmail, used, expired]

VARIABLES users, sessions, tokens, request

accountVars == <<users, sessions, tokens, request>>

None == "none"
Idle == [op |-> None]

(***************************************************************************)
(* The handlers.                                                           *)
(***************************************************************************)
Login == <<"find", "renew", "session">>
Logout == <<"renew">>
AcceptInvitation == <<"validate", "free", "consume", "create", "renew", "session">>
ConfirmEmailChange ==
  <<"validate", "find", "free", "consume", "email", "revoke", "renew", "session">>
ForgotPassword == <<"find", "invalidate", "insert">>

\* Mutant: a reset leaves the other sessions.
ResetPasswordOnly == <<"validate", "consume", "find", "password", "renew", "session">>

ResetPassword ==
  <<"validate", "consume", "find", "password", "revoke", "renew", "session">>
DeleteUser == <<"count", "find", "revoke", "delete">>
EmailChangeRequest == <<"find", "free", "invalidate", "insert", "mail">>
PasswordChange == <<"find", "password", "revoke", "renew", "session">>
CreateInvitation == <<"free", "uninvited", "insert">>

\* Mutant: the old invitation is taken back before the new one is mailed.
SendInvitationAfterReplacing == <<"lookup", "insert", "replace", "mail">>

SendInvitation == <<"lookup", "insert", "mail", "replace">>
RevokeInvitation == <<"replace">>

Program ==
  [login |-> Login, logout |-> Logout, accept |-> AcceptInvitation,
   confirm |-> ConfirmEmailChange, forgot |-> ForgotPassword, reset |-> ResetPassword,
   remove |-> DeleteUser, askEmail |-> EmailChangeRequest, change |-> PasswordChange,
   invite |-> CreateInvitation, resend |-> SendInvitation, unlist |-> RevokeInvitation]

TokenKind ==
  [accept |-> "invitation", invite |-> "invitation", resend |-> "invitation",
   unlist |-> "invitation", confirm |-> "email_change", askEmail |-> "email_change",
   reset |-> "password_reset", forgot |-> "password_reset"]

\* What the instance starts from.  Ids are unique in a table, and those that the
\* requests give out are new.
ASSUME OperationsAssumption == Operations \subseteq DOMAIN Program
ASSUME NamesAssumption == Requests \subseteq STRING /\ Addresses \subseteq STRING
ASSUME RowsAssumption ==
  /\ FirstUsers \subseteq [id : STRING, email : STRING, password : STRING]
  /\ FirstSessions \subseteq [id : STRING, user : STRING]
  /\ FirstTokens \subseteq
       [id : STRING, kind : {"invitation", "email_change", "password_reset"},
        email : STRING, newEmail : STRING \cup {None}, used : BOOLEAN, expired : BOOLEAN]
ASSUME IdsAssumption ==
  /\ None \notin Requests
  /\ \A u \in FirstUsers : u.id \notin Requests
  /\ \A u, v \in FirstUsers : u.id = v.id => u = v
  /\ \A t \in FirstTokens : t.id \notin Requests \cup {None}
  /\ \A t, u \in FirstTokens : t.id = u.id => t = u

UserBy(email) == {u \in users : u.email = email}
UserOf(id)    == {u \in users : u.id = id}
TokenOf(id)   == {t \in tokens : t.id = id}

Pending(t) == t.kind = "invitation" /\ ~t.used

(***************************************************************************)
(* What can be asked of the API: with an address, with the link of a       *)
(* token, with the cookie of a session.  A password is the right one at    *)
(* the moment it is typed.                                                 *)
(***************************************************************************)
Asked(op, cookie, token, email, user, password) ==
  [op |-> op, cookie |-> cookie, token |-> token, email |-> email, newEmail |-> email,
   user |-> user, password |-> password, at |-> 1, answer |-> None]

WithAddress ==
  {Asked("login", None, None, u.email, None, u.password) : u \in users} \cup
  {Asked("forgot", None, None, u.email, None, None) : u \in users}

WithLink ==
  {Asked(op, None, t.id, None, None, None) : op \in {"accept", "reset"}, t \in tokens} \cup
  {Asked("confirm", c, t.id, None, None, None) :
     c \in {s.id : s \in sessions} \cup {None}, t \in tokens}

\* Behind RequireSession, which reads the session before the handler runs.
WithSession(s) ==
  {Asked("logout", s.id, None, None, None, None)} \cup
  {Asked("remove", s.id, None, None, u.id, None) : u \in users \ UserOf(s.user)} \cup
  {Asked("change", s.id, None, None, u.id, u.password) : u \in UserOf(s.user)} \cup
  {Asked("askEmail", s.id, None, e, u.id, u.password) :
     e \in Addresses, u \in UserOf(s.user)} \cup
  {Asked("invite", s.id, None, e, None, None) : e \in Addresses} \cup
  {Asked(op, s.id, t.id, None, None, None) :
     op \in {"resend", "unlist"}, t \in {t \in tokens : Pending(t)}}

Askable ==
  {r \in WithAddress \cup WithLink \cup UNION {WithSession(s) : s \in sessions} :
     /\ r.op \in Operations
     /\ \A t \in TokenOf(r.token) : t.kind = TokenKind[r.op]}

(***************************************************************************)
(* The progress of a request: `at' is the statement it runs next, one past *)
(* the last when it has answered with success.                             *)
(***************************************************************************)
Statement(q, i) == Program[request[q].op][i]
Active(q) == request[q] # Idle /\ request[q].answer = None
At(q, step) == Active(q) /\ Statement(q, request[q].at) = step
Passed(q, step) == request[q] # Idle /\ \E i \in 1..(request[q].at - 1) : Statement(q, i) = step

\* What the request has learned is r, and it runs its next statement or answers.
Further(q, r) ==
  request' = [request EXCEPT ![q] =
    [r EXCEPT !.at = @ + 1, !.answer = IF r.at = Len(Program[r.op]) THEN "ok" ELSE None]]

Advance(q) == Further(q, request[q])
End(q, answer) == request' = [request EXCEPT ![q].answer = answer]

-----------------------------------------------------------------------------
AccountsInit ==
  /\ users = FirstUsers
  /\ sessions = FirstSessions
  /\ tokens = FirstTokens
  /\ request = [q \in Requests |-> Idle]

Ask(q) ==
  /\ request[q] = Idle
  /\ \E r \in Askable : request' = [request EXCEPT ![q] = r]
  /\ UNCHANGED <<users, sessions, tokens>>

\* TokenService.Validate, and what the handler takes from the row.
Validate(q) ==
  /\ At(q, "validate")
  /\ LET valid == {t \in TokenOf(request[q].token) : ~t.used /\ ~t.expired}
     IN  \/ \E t \in valid :
              Further(q, [request[q] EXCEPT !.email = t.email, !.newEmail = t.newEmail])
         \/ valid = {} /\ End(q, "refused")
  /\ UNCHANGED <<users, sessions, tokens>>

\* By id for the signed-in user or the user to delete, else by address; the
\* password is compared where one was typed.  An address that nobody has ends a
\* forgotten-password request too, although with the same friendly answer.
Find(q) ==
  /\ At(q, "find")
  /\ LET r == request[q]
         found == {u \in IF r.user # None THEN UserOf(r.user) ELSE UserBy(r.email) :
                     r.password \in {None, u.password}}
     IN  \/ \E u \in found :
              Further(q, [r EXCEPT !.user = u.id,
                                   !.email = IF r.op = "askEmail" THEN u.email ELSE @])
         \/ found = {} /\ End(q, "refused")
  /\ UNCHANGED <<users, sessions, tokens>>

\* Nobody has the address that is asked for.
Free(q) ==
  /\ At(q, "free")
  /\ LET r == request[q]
         wanted == IF r.op \in {"confirm", "askEmail"} THEN r.newEmail ELSE r.email
     IN  IF UserBy(wanted) = {} THEN Advance(q) ELSE End(q, "refused")
  /\ UNCHANGED <<users, sessions, tokens>>

Uninvited(q) ==
  /\ At(q, "uninvited")
  /\ IF \E t \in tokens : Pending(t) /\ ~t.expired /\ t.email = request[q].email
     THEN End(q, "refused") ELSE Advance(q)
  /\ UNCHANGED <<users, sessions, tokens>>

\* Mutant: used_at IS NULL is left out of the update.
ConsumeAgain(q) ==
  /\ At(q, "consume")
  /\ Advance(q)
  /\ tokens' = {IF t.id = request[q].token THEN [t EXCEPT !.used = TRUE] ELSE t : t \in tokens}
  /\ UNCHANGED <<users, sessions>>

\* UPDATE ... WHERE id = ? AND used_at IS NULL: no row, no success.
Consume(q) ==
  /\ At(q, "consume")
  /\ LET unused == {t \in TokenOf(request[q].token) : ~t.used}
     IN  IF unused = {} THEN End(q, "refused") /\ UNCHANGED tokens
         ELSE /\ Advance(q)
              /\ tokens' = (tokens \ unused) \cup {[t EXCEPT !.used = TRUE] : t \in unused}
  /\ UNCHANGED <<users, sessions>>

\* The address column is unique.
CreateUser(q) ==
  /\ At(q, "create")
  /\ LET r == request[q]
     IN  IF UserBy(r.email) # {} THEN End(q, "failed") /\ UNCHANGED users
         ELSE /\ Further(q, [r EXCEPT !.user = q])
              /\ users' = users \cup {[id |-> q, email |-> r.email, password |-> q]}
  /\ UNCHANGED <<sessions, tokens>>

UpdateEmail(q) ==
  /\ At(q, "email")
  /\ LET r == request[q]
     IN  IF UserOf(r.user) = {} \/ UserBy(r.newEmail) # {}
         THEN End(q, "failed") /\ UNCHANGED users
         ELSE /\ Advance(q)
              /\ users' = {IF u.id = r.user THEN [u EXCEPT !.email = r.newEmail] ELSE u :
                             u \in users}
  /\ UNCHANGED <<sessions, tokens>>

UpdatePassword(q) ==
  /\ At(q, "password")
  /\ IF UserOf(request[q].user) = {} THEN End(q, "failed") /\ UNCHANGED users
     ELSE /\ Advance(q)
          /\ users' = {IF u.id = request[q].user THEN [u EXCEPT !.password = q] ELSE u :
                         u \in users}
  /\ UNCHANGED <<sessions, tokens>>

\* All sessions of the user, except the one the request came with when the
\* user stays signed in.
RevokeSessions(q) ==
  /\ At(q, "revoke")
  /\ Advance(q)
  /\ sessions' = {s \in sessions :
                    \/ s.user # request[q].user
                    \/ request[q].op \in {"change", "confirm"} /\ s.id = request[q].cookie}
  /\ UNCHANGED <<users, tokens>>

\* RenewToken and Destroy delete the session the request came with.
RenewToken(q) ==
  /\ At(q, "renew")
  /\ Advance(q)
  /\ sessions' = {s \in sessions : s.id # request[q].cookie}
  /\ UNCHANGED <<users, tokens>>

\* The session is stored when the response is written; it references its user.
CommitSession(q) ==
  /\ At(q, "session")
  /\ IF UserOf(request[q].user) = {} THEN End(q, "failed") /\ UNCHANGED sessions
     ELSE /\ Advance(q)
          /\ sessions' = sessions \cup {[id |-> q, user |-> request[q].user]}
  /\ UNCHANGED <<users, tokens>>

CountUsers(q) ==
  /\ At(q, "count")
  /\ IF Cardinality(users) <= 1 THEN End(q, "refused") ELSE Advance(q)
  /\ UNCHANGED <<users, sessions, tokens>>

\* A user with sessions cannot be deleted: they reference the user.
DeleteRow(q) ==
  /\ At(q, "delete")
  /\ IF \E s \in sessions : s.user = request[q].user
     THEN End(q, "failed") /\ UNCHANGED users
     ELSE /\ Advance(q)
          /\ users' = users \ UserOf(request[q].user)
  /\ UNCHANGED <<sessions, tokens>>

\* The older links of the kind stop working.
Invalidate(q) ==
  /\ At(q, "invalidate")
  /\ Advance(q)
  /\ LET older == {t \in tokens : /\ t.kind = TokenKind[request[q].op]
                                  /\ t.email = request[q].email /\ ~t.used}
     IN  tokens' = (tokens \ older) \cup {[t EXCEPT !.used = TRUE] : t \in older}
  /\ UNCHANGED <<users, sessions>>

CreateToken(q) ==
  /\ At(q, "insert")
  /\ Advance(q)
  /\ tokens' = tokens \cup
       {[id |-> q, kind |-> TokenKind[request[q].op], email |-> request[q].email,
         newEmail |-> IF request[q].op = "askEmail" THEN request[q].newEmail ELSE None,
         used |-> FALSE, expired |-> FALSE]}
  /\ UNCHANGED <<users, sessions>>

Lookup(q) ==
  /\ At(q, "lookup")
  /\ LET listed == {t \in TokenOf(request[q].token) : Pending(t) /\ ~t.expired}
     IN  \/ \E t \in listed : Further(q, [request[q] EXCEPT !.email = t.email])
         \/ listed = {} /\ End(q, "refused")
  /\ UNCHANGED <<users, sessions, tokens>>

\* An invitation that could not be mailed is taken back.
Mail(q) ==
  /\ At(q, "mail")
  /\ \/ Advance(q) /\ UNCHANGED tokens
     \/ /\ End(q, "failed")
        /\ tokens' = {t \in tokens : ~(Pending(t) /\ t.id = q)}
  /\ UNCHANGED <<users, sessions>>

\* DeletePendingInvitation.  Only a revocation looks at the number of rows.
DeletePending(q) ==
  /\ At(q, "replace")
  /\ tokens' = {t \in tokens : ~(Pending(t) /\ t.id = request[q].token)}
  /\ IF request[q].op = "unlist" /\ tokens' = tokens THEN End(q, "refused") ELSE Advance(q)
  /\ UNCHANGED <<users, sessions>>

\* A statement fails or the process dies.
RequestFails(q) ==
  /\ Active(q)
  /\ End(q, "failed")
  /\ UNCHANGED <<users, sessions, tokens>>

Expire ==
  /\ \E t \in tokens : /\ ~t.expired
                       /\ tokens' = (tokens \ {t}) \cup {[t EXCEPT !.expired = TRUE]}
  /\ UNCHANGED <<users, sessions, request>>

AccountsNext ==
  \/ \E q \in Requests :
       \/ Ask(q) \/ Validate(q) \/ Find(q) \/ Free(q) \/ Uninvited(q) \/ Consume(q)
       \/ CreateUser(q) \/ UpdateEmail(q) \/ UpdatePassword(q) \/ RevokeSessions(q)
       \/ RenewToken(q) \/ CommitSession(q) \/ CountUsers(q) \/ DeleteRow(q)
       \/ Invalidate(q) \/ CreateToken(q) \/ Lookup(q) \/ Mail(q) \/ DeletePending(q)
       \/ RequestFails(q)
  \/ Expire

AccountsSpec == AccountsInit /\ [][AccountsNext]_accountVars

-----------------------------------------------------------------------------
(* Properties *)

\* "Consume before any side effect so a concurrent request with the same token
\* fails" (auth/handlers.go:153): of all the requests that were made with one
\* link only one gets past its consumption, although each of them validates the
\* token in a statement of its own.
TokenSpentOnce ==
  \A p, q \in Requests :
    /\ p # q
    /\ Passed(p, "consume") /\ Passed(q, "consume")
    => request[p].token # request[q].token

\* A reset, an email change or a password change that answers with success has
\* signed the user out everywhere else, whatever failed on the way
\* (auth/password_reset.go:168, auth/handlers.go:249, users.go:243).
SuccessSignsOutOthers ==
  \A q \in Requests : \A s \in sessions :
    /\ request[q] # Idle /\ request[q].op \in {"reset", "confirm", "change"}
    /\ request[q].answer = "ok" /\ s.user = request[q].user
    => s.id \in Requests

\* Whoever is invited keeps a link that was given to them: sending the mail
\* again replaces the link only after the new one was mailed, however several
\* such requests overlap or break off (invitations.go:186-212).
Given(t) == t.id \in Requests => Passed(t.id, IF request[t.id].op = "resend" THEN "mail" ELSE "insert")

InvitationKeepsALink ==
  \A t \in FirstTokens :
    /\ Pending(t)
    /\ \A q \in Requests : request[q] # Idle =>
         /\ request[q].op # "unlist"
         /\ request[q].op = "accept" => ~Passed(q, "consume")
    => \E u \in tokens : Pending(u) /\ u.email = t.email /\ Given(u)

\* "cannot delete the last user" (handlers/users.go:81).
SomeUserRemains == users # {}

=============================================================================
