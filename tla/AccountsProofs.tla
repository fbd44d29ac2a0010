--------------------------- MODULE AccountsProofs ---------------------------
(***************************************************************************)
(* What holds of the requests, the one-time tokens and the sessions in     *)
(* every instance: a token is spent once, a success signs the user out     *)
(* everywhere else, and an invitation keeps a link.                        *)
(***************************************************************************)
EXTENDS Accounts, FiniteSetTheorems, TLAPS

-----------------------------------------------------------------------------
(* The handlers' programs.                                                 *)

AllOperations == {"login", "logout", "accept", "confirm", "forgot", "reset", "remove",
                  "askEmail", "change", "invite", "resend", "unlist"}

LEMMA Handlers == DOMAIN Program = AllOperations
BY DEF Program, AllOperations

\* Which handlers have a statement.
Owned(op, step) ==
  /\ step = "consume" => op \in {"accept", "confirm", "reset"}
  /\ step = "insert" => op \in {"forgot", "askEmail", "invite", "resend"}
  /\ step = "invalidate" => op \in {"forgot", "askEmail"}
  /\ step = "mail" => op \in {"askEmail", "resend"}
  /\ step = "replace" => op \in {"resend", "unlist"}
  /\ step = "lookup" => op = "resend"
  /\ step = "delete" => op = "remove"

\* What a handler learns of its user and of the address, it learns before it
\* signs the user out and before it inserts a token.
Ordered(op, i, j) ==
  /\ Program[op][i] = "insert" /\ Program[op][j] \in {"validate", "find", "lookup"} => j < i
  /\ /\ op \in {"reset", "confirm", "change"}
     /\ Program[op][i] = "revoke" /\ Program[op][j] \in {"find", "create"}
     => j < i
  /\ /\ op \in {"reset", "confirm", "change"}
     /\ Program[op][i] = "renew" /\ Program[op][j] = "revoke"
     => j < i

\* Every handler has a statement to run, and runs none of them twice.
LEMMA Handler ==
  ASSUME NEW op \in DOMAIN Program
  PROVE  /\ Len(Program[op]) \in Nat \ {0}
         /\ \A i \in 1..Len(Program[op]) : Owned(op, Program[op][i])
         /\ \A i, j \in 1..Len(Program[op]) :
              /\ Program[op][i] = Program[op][j] => i = j
              /\ Ordered(op, i, j)
<1>1. CASE op = "login"
  BY <1>1 DEF Program, Login, Owned, Ordered
<1>2. CASE op = "logout"
  BY <1>2 DEF Program, Logout, Owned, Ordered
<1>3. CASE op = "accept"
  BY <1>3 DEF Program, AcceptInvitation, Owned, Ordered
<1>4. CASE op = "confirm"
  BY <1>4 DEF Program, ConfirmEmailChange, Owned, Ordered
<1>5. CASE op = "forgot"
  BY <1>5 DEF Program, ForgotPassword, Owned, Ordered
<1>6. CASE op = "reset"
  BY <1>6 DEF Program, ResetPassword, Owned, Ordered
<1>7. CASE op = "remove"
  BY <1>7 DEF Program, DeleteUser, Owned, Ordered
<1>8. CASE op = "askEmail"
  BY <1>8 DEF Program, EmailChangeRequest, Owned, Ordered
<1>9. CASE op = "change"
  BY <1>9 DEF Program, PasswordChange, Owned, Ordered
<1>10. CASE op = "invite"
  BY <1>10 DEF Program, CreateInvitation, Owned, Ordered
<1>11. CASE op = "resend"
  BY <1>11 DEF Program, SendInvitation, Owned, Ordered
<1>12. CASE op = "unlist"
  BY <1>12 DEF Program, RevokeInvitation, Owned, Ordered
<1> QED
  BY <1>1, <1>2, <1>3, <1>4, <1>5, <1>6, <1>7, <1>8, <1>9, <1>10, <1>11, <1>12, Handlers
     DEF AllOperations

\* The statements that the theorems are about.
LEMMA Steps ==
  /\ \A op \in {"reset", "confirm", "change"} :
       /\ \E i \in 1..Len(Program[op]) : Program[op][i] = "revoke"
       /\ op \in {"change", "confirm"} => \E i \in 1..Len(Program[op]) : Program[op][i] = "renew"
  /\ Program["resend"] = <<"lookup", "insert", "mail", "replace">>
  /\ Program["invite"] = <<"free", "uninvited", "insert">>
  /\ Program["remove"] = <<"count", "find", "revoke", "delete">>
<1>1. Program["reset"][5] = "revoke" /\ 5 \in 1..Len(Program["reset"])
  BY DEF Program, ResetPassword
<1>2. /\ Program["confirm"][6] = "revoke" /\ 6 \in 1..Len(Program["confirm"])
      /\ Program["confirm"][7] = "renew" /\ 7 \in 1..Len(Program["confirm"])
  BY DEF Program, ConfirmEmailChange
<1>3. /\ Program["change"][3] = "revoke" /\ 3 \in 1..Len(Program["change"])
      /\ Program["change"][4] = "renew" /\ 4 \in 1..Len(Program["change"])
  BY DEF Program, PasswordChange
<1>4. Program["resend"] = <<"lookup", "insert", "mail", "replace">>
  BY DEF Program, SendInvitation
<1>5. Program["invite"] = <<"free", "uninvited", "insert">>
  BY DEF Program, CreateInvitation
<1>6. Program["remove"] = <<"count", "find", "revoke", "delete">>
  BY DEF Program, DeleteUser
<1> QED
  BY <1>1, <1>2, <1>3, <1>4, <1>5, <1>6

-----------------------------------------------------------------------------
(* Typing.                                                                 *)

\* None is a string too, which the provers are not told.
Name == STRING \cup {None}
Kinds == {"invitation", "email_change", "password_reset"}
Answers == {None, "ok", "refused", "failed"}
Asking ==
  [op : DOMAIN Program, cookie : Name, token : Name, email : Name, newEmail : Name,
   user : Name, password : Name, at : Nat \ {0}, answer : Answers]

UserRows == [id : Name, email : Name, password : Name]
SessionRows == [id : Name, user : Name]
TokenRows == [id : Name, kind : Kinds, email : Name, newEmail : Name,
              used : BOOLEAN, expired : BOOLEAN]

\* A request that has no answer has a statement to run, one that has succeeded
\* has run them all.
InProgram(r) ==
  /\ r.at <= Len(Program[r.op]) + 1
  /\ r.answer = None => r.at <= Len(Program[r.op])
  /\ r.answer = "ok" => r.at = Len(Program[r.op]) + 1

\* The type invariant.
AccountsTypeOK ==
  /\ users \subseteq UserRows
  /\ sessions \subseteq SessionRows
  /\ tokens \subseteq TokenRows
  /\ request \in [Requests -> {Idle} \cup Asking]
  /\ \A q \in Requests : request[q] # Idle => InProgram(request[q])

LEMMA IdleIsNotAsking == Idle \notin Asking
BY Handlers DEF Idle, None, Asking, AllOperations

\* What can be asked is a request at its first statement, with the link of a
\* token that is there or none.
LEMMA AskableIsAsking ==
  ASSUME AccountsTypeOK, NEW r \in Askable
  PROVE  /\ r \in Asking /\ InProgram(r) /\ r.at = 1 /\ r.answer = None
         /\ r.op \in DOMAIN Program
         /\ r.token = None \/ \E t \in tokens : t.id = r.token
         /\ \A t \in TokenOf(r.token) : t.kind = TokenKind[r.op]
         /\ r.op = "resend" => \E t \in tokens : t.id = r.token /\ Pending(t)
<1>1. /\ r.op \in Operations
      /\ \A t \in TokenOf(r.token) : t.kind = TokenKind[r.op]
      /\ r \in WithAddress \cup WithLink \cup UNION {WithSession(s) : s \in sessions}
  BY DEF Askable
<1>2. r.op \in DOMAIN Program
  BY <1>1, OperationsAssumption
<1>3. ASSUME NEW op, NEW c \in Name, NEW t \in Name, NEW e \in Name,
             NEW u \in Name, NEW w \in Name, r = Asked(op, c, t, e, u, w)
      PROVE  /\ r \in Asking /\ r.at = 1 /\ r.answer = None /\ r.token = t /\ r.op = op
  <2>1. r.op = op
    BY <1>3 DEF Asked
  <2>2. op \in DOMAIN Program
    BY <1>2, <2>1
  <2> QED
    BY <1>3, <2>1, <2>2 DEF Asked, Asking, Answers
<1>4. None \in Name
  BY DEF Name
<1>5. /\ r \in Asking /\ r.at = 1 /\ r.answer = None
      /\ r.token = None \/ \E t \in tokens : t.id = r.token
      /\ r.op = "resend" => \E t \in tokens : t.id = r.token /\ Pending(t)
  <2>1. CASE r \in WithAddress
    <3>1. PICK u \in users : \/ r = Asked("login", None, None, u.email, None, u.password)
                             \/ r = Asked("forgot", None, None, u.email, None, None)
      BY <2>1 DEF WithAddress
    <3>2. u.email \in Name /\ u.password \in Name
      BY DEF AccountsTypeOK, UserRows
    <3> QED
      BY <3>1, <3>2, <1>3, <1>4
  <2>2. CASE r \in WithLink
    <3>1. PICK t \in tokens :
            \/ \E op \in {"accept", "reset"} : r = Asked(op, None, t.id, None, None, None)
            \/ \E c \in {s.id : s \in sessions} \cup {None} :
                 r = Asked("confirm", c, t.id, None, None, None)
      BY <2>2 DEF WithLink
    <3>2. t.id \in Name /\ \A c \in {s.id : s \in sessions} \cup {None} : c \in Name
      BY <1>4 DEF AccountsTypeOK, TokenRows, SessionRows
    <3> QED
      BY <3>1, <3>2, <1>3, <1>4
  <2>3. ASSUME NEW s \in sessions, r \in WithSession(s)
        PROVE  /\ r \in Asking /\ r.at = 1 /\ r.answer = None
               /\ r.token = None \/ \E t \in tokens : t.id = r.token
               /\ r.op = "resend" => \E t \in tokens : t.id = r.token /\ Pending(t)
    <3>1. s.id \in Name
      BY DEF AccountsTypeOK, SessionRows
    <3>2. CASE r = Asked("logout", s.id, None, None, None, None)
      BY <3>1, <3>2, <1>3, <1>4
    <3>3. CASE \E u \in users : \/ r = Asked("remove", s.id, None, None, u.id, None)
                                \/ r = Asked("change", s.id, None, None, u.id, u.password)
      <4>1. PICK u \in users : \/ r = Asked("remove", s.id, None, None, u.id, None)
                               \/ r = Asked("change", s.id, None, None, u.id, u.password)
        BY <3>3
      <4>2. u.id \in Name /\ u.password \in Name
        BY DEF AccountsTypeOK, UserRows
      <4> QED
        BY <4>1, <4>2, <3>1, <1>3, <1>4
    <3>4. CASE \E e \in Addresses, u \in users :
                 r = Asked("askEmail", s.id, None, e, u.id, u.password)
      <4>1. PICK e \in Addresses, u \in users :
              r = Asked("askEmail", s.id, None, e, u.id, u.password)
        BY <3>4
      <4>2. e \in Name /\ u.id \in Name /\ u.password \in Name
        BY NamesAssumption DEF Name, AccountsTypeOK, UserRows
      <4> QED
        BY <4>1, <4>2, <3>1, <1>3, <1>4
    <3>5. CASE \E e \in Addresses : r = Asked("invite", s.id, None, e, None, None)
      <4>1. \A e \in Addresses : e \in Name
        BY NamesAssumption DEF Name
      <4> QED
        BY <4>1, <3>5, <3>1, <1>3, <1>4
    <3>6. CASE \E t \in tokens : Pending(t) /\ \E op \in {"resend", "unlist"} :
                 r = Asked(op, s.id, t.id, None, None, None)
      <4>1. PICK t \in tokens : Pending(t) /\ \E op \in {"resend", "unlist"} :
              r = Asked(op, s.id, t.id, None, None, None)
        BY <3>6
      <4>2. t.id \in Name
        BY DEF AccountsTypeOK, TokenRows
      <4> QED
        BY <4>1, <4>2, <3>1, <1>3, <1>4
    <3> QED
      BY <2>3, <3>2, <3>3, <3>4, <3>5, <3>6 DEF WithSession, UserOf
  <2> QED
    BY <1>1, <2>1, <2>2, <2>3
<1>6. InProgram(r)
  BY <1>2, <1>5, Handler DEF InProgram, None
<1> QED
  BY <1>1, <1>2, <1>5, <1>6

-----------------------------------------------------------------------------
(* The steps of a request.                                                 *)

Keeps(q)  == request'[q] = request[q]
Starts(q) == request[q] = Idle /\ request'[q] \in Askable
Ends(q)   ==
  Active(q) /\ \E a \in {"refused", "failed"} : request'[q] = [request[q] EXCEPT !.answer = a]
Moves(q)  ==
  /\ Active(q)
  /\ request'[q] \in Asking
  /\ request'[q].op = request[q].op
  /\ request'[q].cookie = request[q].cookie
  /\ request'[q].token = request[q].token
  /\ request'[q].at = request[q].at + 1
  /\ request'[q].answer = IF request[q].at = Len(Program[request[q].op]) THEN "ok" ELSE None
  /\ request'[q].user # request[q].user => At(q, "find") \/ At(q, "create")
  /\ request'[q].email # request[q].email => At(q, "validate") \/ At(q, "find") \/ At(q, "lookup")

OneStep(p) ==
  /\ request' \in [Requests -> {Idle} \cup Asking]
  /\ Starts(p) \/ Ends(p) \/ Moves(p)
  /\ \A q \in Requests \ {p} : Keeps(q)

LEMMA ActiveAsks ==
  ASSUME AccountsTypeOK, NEW q \in Requests, Active(q)
  PROVE  request[q] \in Asking
BY DEF AccountsTypeOK, Active

LEMMA FurtherMoves ==
  ASSUME AccountsTypeOK, NEW p \in Requests, Active(p), NEW r \in Asking, Further(p, r),
         r.op = request[p].op, r.cookie = request[p].cookie, r.token = request[p].token,
         r.at = request[p].at,
         r.user # request[p].user => At(p, "find") \/ At(p, "create"),
         r.email # request[p].email => At(p, "validate") \/ At(p, "find") \/ At(p, "lookup")
  PROVE  OneStep(p) /\ Moves(p)
<1> DEFINE s == [r EXCEPT !.at = @ + 1, !.answer = IF r.at = Len(Program[r.op]) THEN "ok" ELSE None]
<1>1. request' = [request EXCEPT ![p] = s]
  BY DEF Further
<1> DEFINE a == IF r.at = Len(Program[r.op]) THEN "ok" ELSE None
<1>a. r.at + 1 \in Nat \ {0} /\ a \in Answers
  BY DEF Asking, Answers
<1>b. [r EXCEPT !.at = r.at + 1] \in Asking
  BY <1>a DEF Asking
<1>2. /\ s \in Asking
      /\ s.op = r.op /\ s.cookie = r.cookie /\ s.token = r.token /\ s.at = r.at + 1
      /\ s.user = r.user /\ s.email = r.email
      /\ s.answer = a
  <2> DEFINE m == [r EXCEPT !.at = r.at + 1]
  <2>1. /\ m \in Asking
        /\ m.op = r.op /\ m.cookie = r.cookie /\ m.token = r.token /\ m.at = r.at + 1
        /\ m.user = r.user /\ m.email = r.email
    BY <1>b DEF Asking
  <2>2. s = [m EXCEPT !.answer = a]
    OBVIOUS
  <2> HIDE DEF s, m, a
  <2> QED
    BY <1>a, <2>1, <2>2 DEF Asking
<1> HIDE DEF s
<1>3. /\ request' \in [Requests -> {Idle} \cup Asking]
      /\ request'[p] = s /\ \A q \in Requests \ {p} : request'[q] = request[q]
  BY <1>1, <1>2 DEF AccountsTypeOK
<1>4. Moves(p)
  BY <1>2, <1>3 DEF Moves
<1> QED
  BY <1>3, <1>4 DEF OneStep, Keeps

LEMMA AdvanceMoves ==
  ASSUME AccountsTypeOK, NEW p \in Requests, Active(p), Advance(p)
  PROVE  OneStep(p) /\ Moves(p)
BY ActiveAsks, FurtherMoves DEF Advance

LEMMA EndEnds ==
  ASSUME AccountsTypeOK, NEW p \in Requests, Active(p), NEW a \in {"refused", "failed"}, End(p, a)
  PROVE  OneStep(p) /\ Ends(p)
<1>1. request[p] \in Asking
  BY ActiveAsks
<1>2. [request[p] EXCEPT !.answer = a] \in Asking
  BY <1>1 DEF Asking, Answers
<1>3. /\ request' \in [Requests -> {Idle} \cup Asking]
      /\ request'[p] = [request[p] EXCEPT !.answer = a]
      /\ \A q \in Requests \ {p} : request'[q] = request[q]
  BY <1>2 DEF AccountsTypeOK, End
<1> QED
  BY <1>3 DEF OneStep, Ends, Keeps

\* A step is one request's, or it is an expiry.
LEMMA RequestStep ==
  ASSUME AccountsTypeOK, NEW p \in Requests,
         \/ Ask(p) \/ Validate(p) \/ Find(p) \/ Free(p) \/ Uninvited(p) \/ Consume(p)
         \/ CreateUser(p) \/ UpdateEmail(p) \/ UpdatePassword(p) \/ RevokeSessions(p)
         \/ RenewToken(p) \/ CommitSession(p) \/ CountUsers(p) \/ DeleteRow(p)
         \/ Invalidate(p) \/ CreateToken(p) \/ Lookup(p) \/ Mail(p) \/ DeletePending(p)
         \/ RequestFails(p)
  PROVE  OneStep(p)
<1> DEFINE r == request[p]
<1>a. ASSUME NEW step, At(p, step) PROVE Active(p) /\ r \in Asking
  BY <1>a, ActiveAsks DEF At
<1>1. CASE Ask(p)
  <2>1. PICK s \in Askable : request' = [request EXCEPT ![p] = s]
    BY <1>1 DEF Ask
  <2>2. s \in Asking
    BY <2>1, AskableIsAsking
  <2> QED
    BY <1>1, <2>1, <2>2 DEF Ask, OneStep, Starts, Keeps, AccountsTypeOK
<1>2. CASE Validate(p)
  <2>1. Active(p) /\ r \in Asking /\ At(p, "validate")
    BY <1>2, <1>a DEF Validate
  <2>2. ASSUME NEW t \in tokens, Further(p, [r EXCEPT !.email = t.email, !.newEmail = t.newEmail])
        PROVE  OneStep(p)
    <3>1. t.email \in Name /\ t.newEmail \in Name
      BY DEF AccountsTypeOK, TokenRows
    <3>2. [r EXCEPT !.email = t.email, !.newEmail = t.newEmail] \in Asking
      BY <2>1, <3>1 DEF Asking
    <3> QED
      BY <2>1, <2>2, <3>2, FurtherMoves DEF Asking
  <2> QED
    BY <1>2, <2>1, <2>2, EndEnds DEF Validate, TokenOf
<1>3. CASE Find(p)
  <2>1. Active(p) /\ r \in Asking /\ At(p, "find")
    BY <1>3, <1>a DEF Find
  <2>2. ASSUME NEW u \in users,
               Further(p, [r EXCEPT !.user = u.id, !.email = IF r.op = "askEmail" THEN u.email ELSE @])
        PROVE  OneStep(p)
    <3>1. u.email \in Name /\ u.id \in Name
      BY DEF AccountsTypeOK, UserRows
    <3>2. [r EXCEPT !.user = u.id, !.email = IF r.op = "askEmail" THEN u.email ELSE @] \in Asking
      BY <2>1, <3>1 DEF Asking
    <3> QED
      BY <2>1, <2>2, <3>2, FurtherMoves DEF Asking
  <2> QED
    BY <1>3, <2>1, <2>2, EndEnds DEF Find, UserOf, UserBy
<1>4. CASE Free(p)
  BY <1>4, <1>a, AdvanceMoves, EndEnds DEF Free
<1>5. CASE Uninvited(p)
  BY <1>5, <1>a, AdvanceMoves, EndEnds DEF Uninvited
<1>6. CASE Consume(p)
  BY <1>6, <1>a, AdvanceMoves, EndEnds DEF Consume
<1>7. CASE CreateUser(p)
  <2>1. Active(p) /\ r \in Asking /\ At(p, "create")
    BY <1>7, <1>a DEF CreateUser
  <2>2. CASE Further(p, [r EXCEPT !.user = p])
    <3>1. p \in Name
      BY NamesAssumption DEF Name
    <3>2. [r EXCEPT !.user = p] \in Asking
      BY <2>1, <3>1 DEF Asking
    <3> QED
      BY <2>1, <2>2, <3>2, FurtherMoves DEF Asking
  <2> QED
    BY <1>7, <2>1, <2>2, EndEnds DEF CreateUser
<1>8. CASE UpdateEmail(p)
  BY <1>8, <1>a, AdvanceMoves, EndEnds DEF UpdateEmail
<1>9. CASE UpdatePassword(p)
  BY <1>9, <1>a, AdvanceMoves, EndEnds DEF UpdatePassword
<1>10. CASE RevokeSessions(p) \/ RenewToken(p)
  BY <1>10, <1>a, AdvanceMoves DEF RevokeSessions, RenewToken
<1>11. CASE CommitSession(p)
  BY <1>11, <1>a, AdvanceMoves, EndEnds DEF CommitSession
<1>12. CASE CountUsers(p)
  BY <1>12, <1>a, AdvanceMoves, EndEnds DEF CountUsers
<1>13. CASE DeleteRow(p)
  BY <1>13, <1>a, AdvanceMoves, EndEnds DEF DeleteRow
<1>14. CASE Invalidate(p) \/ CreateToken(p)
  BY <1>14, <1>a, AdvanceMoves DEF Invalidate, CreateToken
<1>15. CASE Lookup(p)
  <2>1. Active(p) /\ r \in Asking /\ At(p, "lookup")
    BY <1>15, <1>a DEF Lookup
  <2>2. ASSUME NEW t \in tokens, Further(p, [r EXCEPT !.email = t.email])
        PROVE  OneStep(p)
    <3>1. t.email \in Name
      BY DEF AccountsTypeOK, TokenRows
    <3>2. [r EXCEPT !.email = t.email] \in Asking
      BY <2>1, <3>1 DEF Asking
    <3> QED
      BY <2>1, <2>2, <3>2, FurtherMoves DEF Asking
  <2> QED
    BY <1>15, <2>1, <2>2, EndEnds DEF Lookup, TokenOf
<1>16. CASE Mail(p)
  BY <1>16, <1>a, AdvanceMoves, EndEnds DEF Mail
<1>17. CASE DeletePending(p)
  BY <1>17, <1>a, AdvanceMoves, EndEnds DEF DeletePending
<1>18. CASE RequestFails(p)
  BY <1>18, EndEnds DEF RequestFails
<1> QED
  BY <1>1, <1>2, <1>3, <1>4, <1>5, <1>6, <1>7, <1>8, <1>9, <1>10, <1>11, <1>12, <1>13, <1>14,
     <1>15, <1>16, <1>17, <1>18

\* A step is a request's first, an active request's, or an expiry.
LEMMA ActorIsActive ==
  ASSUME AccountsTypeOK, AccountsNext, ~Expire
  PROVE  \E p \in Requests : OneStep(p) /\ (Ask(p) \/ Active(p))
<1>1. PICK p \in Requests :
        \/ Ask(p) \/ Validate(p) \/ Find(p) \/ Free(p) \/ Uninvited(p) \/ Consume(p)
        \/ CreateUser(p) \/ UpdateEmail(p) \/ UpdatePassword(p) \/ RevokeSessions(p)
        \/ RenewToken(p) \/ CommitSession(p) \/ CountUsers(p) \/ DeleteRow(p)
        \/ Invalidate(p) \/ CreateToken(p) \/ Lookup(p) \/ Mail(p) \/ DeletePending(p)
        \/ RequestFails(p)
  BY DEF AccountsNext
<1>2. OneStep(p)
  BY <1>1, RequestStep
<1>a. ASSUME NEW step, At(p, step) PROVE Active(p)
  BY <1>a DEF At
<1>3. CASE Ask(p)
  BY <1>2, <1>3
<1>4. CASE Validate(p) \/ Find(p) \/ Free(p) \/ Uninvited(p) \/ Consume(p)
  <2>1. Active(p)
    BY <1>4, <1>a DEF Validate, Find, Free, Uninvited, Consume
  <2>. QED
    BY <1>2, <2>1
<1>5. CASE CreateUser(p) \/ UpdateEmail(p) \/ UpdatePassword(p) \/ RevokeSessions(p)
  <2>1. Active(p)
    BY <1>5, <1>a DEF CreateUser, UpdateEmail, UpdatePassword, RevokeSessions
  <2>. QED
    BY <1>2, <2>1
<1>6. CASE RenewToken(p) \/ CommitSession(p) \/ CountUsers(p) \/ DeleteRow(p)
  <2>1. Active(p)
    BY <1>6, <1>a DEF RenewToken, CommitSession, CountUsers, DeleteRow
  <2>. QED
    BY <1>2, <2>1
<1>7. CASE Invalidate(p) \/ CreateToken(p) \/ Lookup(p) \/ Mail(p) \/ DeletePending(p)
  <2>1. Active(p)
    BY <1>7, <1>a DEF Invalidate, CreateToken, Lookup, Mail, DeletePending
  <2>. QED
    BY <1>2, <2>1
<1>8. CASE RequestFails(p)
  BY <1>2, <1>8 DEF RequestFails
<1>. QED
  BY <1>1, <1>3, <1>4, <1>5, <1>6, <1>7, <1>8

LEMMA EachRequest ==
  ASSUME AccountsTypeOK, AccountsNext, NEW q \in Requests
  PROVE  Keeps(q) \/ Starts(q) \/ Ends(q) \/ Moves(q)
<1>1. CASE Expire
  BY <1>1 DEF Expire, Keeps
<1>2. CASE \E p \in Requests : OneStep(p)
  BY <1>2 DEF OneStep
<1> QED
  BY <1>1, <1>2, RequestStep DEF AccountsNext

LEMMA RequestsTyped ==
  ASSUME AccountsTypeOK, AccountsNext
  PROVE  /\ request' \in [Requests -> {Idle} \cup Asking]
         /\ \A q \in Requests : request'[q] # Idle => InProgram(request'[q])
<1>1. request' \in [Requests -> {Idle} \cup Asking]
  <2>1. CASE Expire
    BY <2>1 DEF Expire, AccountsTypeOK
  <2>2. CASE \E p \in Requests : OneStep(p)
    BY <2>2 DEF OneStep
  <2> QED
    BY <2>1, <2>2, RequestStep DEF AccountsNext
<1>2. ASSUME NEW q \in Requests, request'[q] # Idle
      PROVE  InProgram(request'[q])
  <2>1. CASE Keeps(q)
    BY <2>1, <1>2 DEF Keeps, AccountsTypeOK
  <2>2. CASE Starts(q)
    BY <2>2, AskableIsAsking DEF Starts
  <2>3. CASE Ends(q)
    <3>1. request[q] \in Asking /\ InProgram(request[q])
      BY <2>3, ActiveAsks DEF Ends, Active, AccountsTypeOK
    <3> QED
      BY <2>3, <3>1 DEF Ends, Asking, InProgram, None
  <2>4. CASE Moves(q)
    <3>1. request[q] \in Asking /\ InProgram(request[q]) /\ request[q].answer = None
      BY <2>4, ActiveAsks DEF Moves, Active, AccountsTypeOK
    <3>2. Len(Program[request[q].op]) \in Nat
      BY <3>1, Handler DEF Asking
    <3> QED
      BY <2>4, <3>1, <3>2 DEF Moves, InProgram, Asking, None
  <2> QED
    BY <2>1, <2>2, <2>3, <2>4, EachRequest
<1> QED
  BY <1>1, <1>2

\* A token that a step leaves behind was there before, with the same id, kind
\* and address, or it is the one that a request inserts.
Descends(u, t) ==
  u.id = t.id /\ u.kind = t.kind /\ u.email = t.email /\ (t.used => u.used)

LEMMA TokenStep ==
  ASSUME AccountsTypeOK, AccountsNext, NEW u \in tokens'
  PROVE  \/ \E t \in tokens : Descends(u, t)
         \/ \E q \in Requests :
              /\ CreateToken(q) /\ u.id = q /\ ~u.used
              /\ u.kind = TokenKind[request[q].op] /\ u.email = request[q].email
PROOF
<1>0. \A t \in tokens : Descends(t, t)
  BY DEF Descends
<1>1. CASE Expire
  BY <1>1 DEF Expire, Descends, AccountsTypeOK, TokenRows
<1>2. ASSUME NEW q \in Requests, Consume(q) \/ Invalidate(q)
      PROVE  \E t \in tokens : Descends(u, t)
  BY <1>2 DEF Consume, Invalidate, TokenOf, Descends, AccountsTypeOK, TokenRows
<1>3. ASSUME NEW q \in Requests, CreateToken(q), u \notin tokens
      PROVE  /\ u.id = q /\ ~u.used
             /\ u.kind = TokenKind[request[q].op] /\ u.email = request[q].email
  BY <1>3 DEF CreateToken
<1>4. ASSUME NEW q \in Requests, Mail(q) \/ DeletePending(q)
      PROVE  u \in tokens
  BY <1>4 DEF Mail, DeletePending
<1> QED
  BY <1>0, <1>1, <1>2, <1>3, <1>4
  DEF AccountsNext, Ask, Validate, Find, Free, Uninvited, CreateUser, UpdateEmail,
      UpdatePassword, RevokeSessions, RenewToken, CommitSession, CountUsers, DeleteRow,
      Lookup, RequestFails

LEMMA KindOfInsert ==
  ASSUME AccountsTypeOK, NEW q \in Requests, At(q, "insert")
  PROVE  request[q].op \in {"forgot", "askEmail", "invite", "resend"}
<1>1. request[q] \in Asking /\ InProgram(request[q]) /\ request[q].answer = None
  BY ActiveAsks DEF At, Active, AccountsTypeOK
<1>2. request[q].at \in 1..Len(Program[request[q].op])
  BY <1>1, Handler DEF Asking, InProgram
<1> QED
  BY <1>1, <1>2, Handler DEF At, Statement, Asking, Owned

LEMMA RowsTyped ==
  ASSUME AccountsTypeOK, AccountsNext
  PROVE  users' \subseteq UserRows /\ sessions' \subseteq SessionRows /\ tokens' \subseteq TokenRows
<1>0. \A q \in Requests : q \in Name
  BY NamesAssumption DEF Name
<1>1. users' \subseteq UserRows
  <2>1. ASSUME NEW q \in Requests, CreateUser(q) \/ UpdateEmail(q) \/ UpdatePassword(q)
        PROVE  users' \subseteq UserRows
    <3>1. request[q] \in Asking
      BY <2>1, ActiveAsks DEF CreateUser, UpdateEmail, UpdatePassword, At
    <3>2. CASE CreateUser(q)
      BY <3>1, <3>2, <1>0 DEF CreateUser, AccountsTypeOK, UserRows, Asking
    <3>3. CASE UpdateEmail(q)
      BY <3>1, <3>3 DEF UpdateEmail, AccountsTypeOK, UserRows, Asking
    <3>4. CASE UpdatePassword(q)
      BY <3>1, <3>4, <1>0 DEF UpdatePassword, AccountsTypeOK, UserRows, Asking
    <3> QED
      BY <2>1, <3>2, <3>3, <3>4
  <2>2. ASSUME NEW q \in Requests, DeleteRow(q)
        PROVE  users' \subseteq UserRows
    BY <2>2 DEF DeleteRow, AccountsTypeOK
  <2> QED
    BY <2>1, <2>2
    DEF AccountsNext, Ask, Validate, Find, Free, Uninvited, Consume, RevokeSessions, RenewToken,
        CommitSession, CountUsers, Invalidate, CreateToken, Lookup, Mail, DeletePending,
        RequestFails, Expire, AccountsTypeOK
<1>2. sessions' \subseteq SessionRows
  <2>1. ASSUME NEW q \in Requests, CommitSession(q)
        PROVE  sessions' \subseteq SessionRows
    <3>1. request[q] \in Asking
      BY <2>1, ActiveAsks DEF CommitSession, At
    <3> QED
      BY <2>1, <3>1, <1>0 DEF CommitSession, AccountsTypeOK, SessionRows, Asking
  <2>2. ASSUME NEW q \in Requests, RevokeSessions(q) \/ RenewToken(q)
        PROVE  sessions' \subseteq SessionRows
    BY <2>2 DEF RevokeSessions, RenewToken, AccountsTypeOK
  <2> QED
    BY <2>1, <2>2
    DEF AccountsNext, Ask, Validate, Find, Free, Uninvited, Consume, CreateUser, UpdateEmail,
        UpdatePassword, CountUsers, DeleteRow, Invalidate, CreateToken, Lookup, Mail,
        DeletePending, RequestFails, Expire, AccountsTypeOK
<1>3. tokens' \subseteq TokenRows
  <2>1. ASSUME NEW q \in Requests, CreateToken(q)
        PROVE  tokens' \subseteq TokenRows
    <3>1. request[q] \in Asking /\ request[q].op \in {"forgot", "askEmail", "invite", "resend"}
      BY <2>1, ActiveAsks, KindOfInsert DEF CreateToken, At
    <3>2. TokenKind[request[q].op] \in Kinds
      BY <3>1 DEF TokenKind, Kinds
    <3>3. /\ request[q].email \in Name
          /\ (IF request[q].op = "askEmail" THEN request[q].newEmail ELSE None) \in Name
      BY <3>1 DEF Asking, Name
    <3>4. [id |-> q, kind |-> TokenKind[request[q].op], email |-> request[q].email,
           newEmail |-> IF request[q].op = "askEmail" THEN request[q].newEmail ELSE None,
           used |-> FALSE, expired |-> FALSE] \in TokenRows
      BY <3>2, <3>3, <1>0 DEF TokenRows
    <3> QED
      BY <2>1, <3>4 DEF CreateToken, AccountsTypeOK
  <2>2. ASSUME NEW q \in Requests, Consume(q) \/ Invalidate(q)
        PROVE  tokens' \subseteq TokenRows
    <3>1. \A t \in tokens : [t EXCEPT !.used = TRUE] \in TokenRows
      BY DEF AccountsTypeOK, TokenRows
    <3> QED
      BY <2>2, <3>1 DEF Consume, Invalidate, TokenOf, AccountsTypeOK
  <2>3. ASSUME NEW q \in Requests, Mail(q) \/ DeletePending(q)
        PROVE  tokens' \subseteq TokenRows
    BY <2>3 DEF Mail, DeletePending, AccountsTypeOK
  <2>4. CASE Expire
    BY <2>4 DEF Expire, AccountsTypeOK, TokenRows
  <2> QED
    BY <2>1, <2>2, <2>3, <2>4
    DEF AccountsNext, Ask, Validate, Find, Free, Uninvited, CreateUser, UpdateEmail,
        UpdatePassword, RevokeSessions, RenewToken, CommitSession, CountUsers, DeleteRow,
        Lookup, RequestFails, AccountsTypeOK
<1> QED
  BY <1>1, <1>2, <1>3

LEMMA TypeInit == AccountsInit => AccountsTypeOK
<1>1. ASSUME AccountsInit PROVE AccountsTypeOK
  <2>1. users \subseteq UserRows
    BY <1>1, RowsAssumption DEF AccountsInit, UserRows, Name
  <2>2. sessions \subseteq SessionRows
    BY <1>1, RowsAssumption DEF AccountsInit, SessionRows, Name
  <2>3. tokens \subseteq TokenRows
    BY <1>1, RowsAssumption DEF AccountsInit, TokenRows, Name, Kinds
  <2> QED
    BY <1>1, <2>1, <2>2, <2>3 DEF AccountsInit, AccountsTypeOK
<1> QED
  BY <1>1

LEMMA TypeStep == AccountsTypeOK /\ [AccountsNext]_accountVars => AccountsTypeOK'
<1>1. ASSUME AccountsTypeOK, AccountsNext PROVE AccountsTypeOK'
  BY <1>1, RequestsTyped, RowsTyped DEF AccountsTypeOK
<1>2. ASSUME AccountsTypeOK, UNCHANGED accountVars PROVE AccountsTypeOK'
  BY <1>2 DEF AccountsTypeOK, accountVars
<1> QED
  BY <1>1, <1>2

\* The rows keep their shape, and a request is always inside its handler's
\* program: what has no answer has a statement left, what succeeded ran them all.
THEOREM AccountsTyping == AccountsSpec => []AccountsTypeOK
BY TypeInit, TypeStep, PTL DEF AccountsSpec

-----------------------------------------------------------------------------
(* The statements that a request has passed.                               *)

LEMMA PassedStep ==
  ASSUME AccountsTypeOK, AccountsNext, NEW q \in Requests, NEW step
  PROVE  /\ Passed(q, step) => Passed(q, step)'
         /\ Passed(q, step)' /\ ~Passed(q, step) => Moves(q) /\ At(q, step)
         /\ Moves(q) /\ At(q, step) => Passed(q, step)'
<1>1. CASE Keeps(q)
  BY <1>1 DEF Keeps, Passed, Statement, Moves, Asking, Active, AccountsTypeOK
<1>2. CASE Starts(q)
  <2>1. request'[q].at = 1
    BY <1>2, AskableIsAsking DEF Starts
  <2> QED
    BY <1>2, <2>1 DEF Starts, Passed, Moves, Active
<1>3. CASE Ends(q)
  <2>1. request[q] \in Asking
    BY <1>3, ActiveAsks DEF Ends
  <2>2. /\ request'[q].op = request[q].op /\ request'[q].at = request[q].at
        /\ request[q] # Idle /\ request'[q] \in Asking
    BY <1>3, <2>1 DEF Ends, Asking, Active, Answers
  <2>3. ~Moves(q)
    BY <2>1, <2>2 DEF Moves, Asking
  <2> QED
    BY <2>2, <2>3, IdleIsNotAsking DEF Passed, Statement
<1>4. CASE Moves(q)
  <2>1. request[q] \in Asking /\ request'[q] \in Asking /\ request[q] # Idle
    BY <1>4, ActiveAsks DEF Moves, Active
  <2>2. /\ request'[q] # Idle
        /\ request'[q].op = request[q].op /\ request'[q].at = request[q].at + 1
        /\ request[q].at \in Nat \ {0}
    BY <1>4, <2>1, IdleIsNotAsking DEF Moves, Asking
  <2>3. 1..request[q].at = 1..(request[q].at - 1) \cup {request[q].at}
    BY <2>2
  <2>4. Passed(q, step)' <=> \E i \in 1..request[q].at : Statement(q, i) = step
    BY <2>2 DEF Passed, Statement
  <2> QED
    BY <1>4, <2>1, <2>3, <2>4 DEF Passed, At, Moves
<1> QED
  BY <1>1, <1>2, <1>3, <1>4, EachRequest

\* A request runs inside its program, so no statement is run again.
LEMMA NotYet ==
  ASSUME AccountsTypeOK, NEW q \in Requests, NEW step, At(q, step)
  PROVE  /\ request[q] \in Asking /\ request[q] # Idle /\ request[q].op \in DOMAIN Program
         /\ request[q].at \in 1..Len(Program[request[q].op])
         /\ Program[request[q].op][request[q].at] = step
         /\ Owned(request[q].op, step)
         /\ ~Passed(q, step)
<1>1. /\ request[q] \in Asking /\ InProgram(request[q]) /\ request[q].answer = None
      /\ request[q] # Idle
  BY ActiveAsks DEF At, Active, AccountsTypeOK
<1>2. request[q].op \in DOMAIN Program /\ request[q].at \in Nat \ {0}
  BY <1>1 DEF Asking
<1>3. request[q].at \in 1..Len(Program[request[q].op])
  BY <1>1, <1>2, Handler DEF InProgram
<1>4. Program[request[q].op][request[q].at] = step
  BY DEF At, Statement
<1> QED
  BY <1>1, <1>2, <1>3, <1>4, Handler DEF Passed, Statement

\* What has been passed is a statement of the program.
LEMMA PassedIsOwned ==
  ASSUME AccountsTypeOK, NEW q \in Requests, NEW step, Passed(q, step)
  PROVE  /\ request[q] \in Asking /\ request[q] # Idle /\ request[q].op \in DOMAIN Program
         /\ Owned(request[q].op, step)
         /\ \E i \in 1..Len(Program[request[q].op]) :
              i < request[q].at /\ Program[request[q].op][i] = step
<1>1. request[q] # Idle /\ request[q] \in Asking /\ InProgram(request[q])
  BY DEF Passed, AccountsTypeOK
<1>2. /\ request[q].op \in DOMAIN Program /\ request[q].at \in Nat \ {0}
      /\ request[q].at <= Len(Program[request[q].op]) + 1
  BY <1>1 DEF Asking, InProgram
<1>3. PICK i \in 1..(request[q].at - 1) : Program[request[q].op][i] = step
  BY DEF Passed, Statement
<1>4. i \in 1..Len(Program[request[q].op]) /\ i < request[q].at
  BY <1>2, Handler
<1> QED
  BY <1>1, <1>2, <1>3, <1>4, Handler

\* A statement that has been passed leaves behind what comes before it.
LEMMA NoLonger ==
  ASSUME AccountsTypeOK, NEW q \in Requests
  PROVE  /\ Passed(q, "insert") =>
              ~At(q, "validate") /\ ~At(q, "find") /\ ~At(q, "lookup")
         /\ Passed(q, "revoke") /\ request[q].op \in {"reset", "confirm", "change"} =>
              ~At(q, "find") /\ ~At(q, "create")
         /\ Passed(q, "renew") /\ request[q].op \in {"reset", "confirm", "change"} =>
              ~At(q, "revoke")
<1>1. ASSUME NEW step, NEW early, Passed(q, step), At(q, early),
             \A i, j \in 1..Len(Program[request[q].op]) :
               Program[request[q].op][i] = step /\ Program[request[q].op][j] = early => j < i
      PROVE  FALSE
  <2>1. PICK i \in 1..Len(Program[request[q].op]) :
          i < request[q].at /\ Program[request[q].op][i] = step
    BY <1>1, PassedIsOwned
  <2>2. /\ request[q].at \in 1..Len(Program[request[q].op])
        /\ Program[request[q].op][request[q].at] = early
        /\ request[q].op \in DOMAIN Program
    BY <1>1, NotYet
  <2>3. request[q].at < i
    BY <1>1, <2>1, <2>2
  <2>4. Len(Program[request[q].op]) \in Nat
    BY <2>2, Handler
  <2> QED
    BY <2>1, <2>2, <2>3, <2>4
<1>2. ASSUME NEW step, Passed(q, step) PROVE request[q].op \in DOMAIN Program
  BY <1>2, PassedIsOwned
<1>3. ASSUME Passed(q, "insert"), NEW early \in {"validate", "find", "lookup"}
      PROVE  ~At(q, early)
  BY <1>1, <1>2, <1>3, Handler DEF Ordered
<1>4. ASSUME Passed(q, "revoke"), request[q].op \in {"reset", "confirm", "change"},
             NEW early \in {"find", "create"}
      PROVE  ~At(q, early)
  BY <1>1, <1>2, <1>4, Handler DEF Ordered
<1>5. ASSUME Passed(q, "renew"), request[q].op \in {"reset", "confirm", "change"}
      PROVE  ~At(q, "revoke")
  BY <1>1, <1>2, <1>5, Handler DEF Ordered
<1> QED
  BY <1>3, <1>4, <1>5

\* A request that moves runs the statement that it is at, and nobody else moves.
LEMMA MoverActs ==
  ASSUME AccountsTypeOK, AccountsNext, NEW p \in Requests, Moves(p)
  PROVE  /\ ~Ends(p) /\ ~Keeps(p) /\ ~Starts(p)
         /\ \A q \in Requests \ {p} : Keeps(q)
         /\ At(p, "consume") => Consume(p)
         /\ At(p, "revoke") => RevokeSessions(p)
         /\ At(p, "renew") => RenewToken(p)
         /\ At(p, "insert") => CreateToken(p)
         /\ At(p, "mail") => Mail(p)
         /\ At(p, "replace") => DeletePending(p)
         /\ At(p, "lookup") => Lookup(p)
         /\ At(p, "count") => CountUsers(p)
<1>1. ~Ends(p) /\ ~Keeps(p) /\ ~Starts(p)
  BY DEF Ends, Keeps, Starts, Moves, Asking, Active
<1>2. ~Expire
  BY <1>1 DEF Expire, Keeps
<1>3. ASSUME NEW q \in Requests, OneStep(q)
      PROVE  q = p /\ \A o \in Requests \ {p} : Keeps(o)
  BY <1>1, <1>3 DEF OneStep
<1>4. ~RequestFails(p)
  BY <1>1, EndEnds DEF RequestFails
<1>5. ~Ask(p)
  BY DEF Ask, Moves, Active
<1>6. PICK q \in Requests :
        \/ Ask(q) \/ Validate(q) \/ Find(q) \/ Free(q) \/ Uninvited(q) \/ Consume(q)
        \/ CreateUser(q) \/ UpdateEmail(q) \/ UpdatePassword(q) \/ RevokeSessions(q)
        \/ RenewToken(q) \/ CommitSession(q) \/ CountUsers(q) \/ DeleteRow(q)
        \/ Invalidate(q) \/ CreateToken(q) \/ Lookup(q) \/ Mail(q) \/ DeletePending(q)
        \/ RequestFails(q)
  BY <1>2 DEF AccountsNext
<1>7. q = p /\ \A o \in Requests \ {p} : Keeps(o)
  BY <1>3, <1>6, RequestStep
<1>8. /\ At(p, "consume") => Consume(p)
      /\ At(p, "revoke") => RevokeSessions(p)
      /\ At(p, "renew") => RenewToken(p)
      /\ At(p, "insert") => CreateToken(p)
      /\ At(p, "mail") => Mail(p)
      /\ At(p, "replace") => DeletePending(p)
      /\ At(p, "lookup") => Lookup(p)
      /\ At(p, "count") => CountUsers(p)
  <2>1. ASSUME NEW a, NEW b, At(p, a), At(p, b) PROVE a = b
    BY <2>1 DEF At
  <2>2. /\ Validate(p) => At(p, "validate")
        /\ Find(p) => At(p, "find")
        /\ Free(p) => At(p, "free")
        /\ Uninvited(p) => At(p, "uninvited")
        /\ Consume(p) => At(p, "consume")
        /\ CreateUser(p) => At(p, "create")
        /\ UpdateEmail(p) => At(p, "email")
        /\ UpdatePassword(p) => At(p, "password")
        /\ RevokeSessions(p) => At(p, "revoke")
        /\ RenewToken(p) => At(p, "renew")
        /\ CommitSession(p) => At(p, "session")
        /\ CountUsers(p) => At(p, "count")
        /\ DeleteRow(p) => At(p, "delete")
        /\ Invalidate(p) => At(p, "invalidate")
        /\ CreateToken(p) => At(p, "insert")
        /\ Lookup(p) => At(p, "lookup")
        /\ Mail(p) => At(p, "mail")
        /\ DeletePending(p) => At(p, "replace")
    BY DEF Validate, Find, Free, Uninvited, Consume, CreateUser, UpdateEmail, UpdatePassword,
           RevokeSessions, RenewToken, CommitSession, CountUsers, DeleteRow, Invalidate,
           CreateToken, Lookup, Mail, DeletePending
  <2> QED
    BY <1>4, <1>5, <1>6, <1>7, <2>1, <2>2
<1> QED
  BY <1>1, <1>7, <1>8

-----------------------------------------------------------------------------
(* Ids.                                                                    *)

\* A token that has the name of a request was inserted by it, and nobody is
\* asked to use one before.  Ids are unique.
FreshInv ==
  /\ \A t \in tokens : t.id # None /\ (t.id \in Requests => Passed(t.id, "insert"))
  /\ \A q, x \in Requests : request[q] # Idle /\ request[q].token = x => Passed(x, "insert")
  /\ \A t, u \in tokens : t.id = u.id => t = u

\* An insert is the only one of its request.
LEMMA InsertStep ==
  ASSUME AccountsTypeOK, FreshInv, AccountsNext, NEW q \in Requests, CreateToken(q)
  PROVE  /\ At(q, "insert") /\ Moves(q) /\ ~Passed(q, "insert") /\ Passed(q, "insert")'
         /\ \A t \in tokens : t.id # q
         /\ \A p \in Requests : request[p] # Idle => request[p].token # q
<1>1. At(q, "insert") /\ Moves(q)
  BY AdvanceMoves DEF CreateToken, At
<1>2. ~Passed(q, "insert") /\ Passed(q, "insert")'
  BY <1>1, NotYet, PassedStep
<1> QED
  BY <1>1, <1>2 DEF FreshInv

LEMMA FreshInit == AccountsInit => FreshInv
BY IdsAssumption DEF AccountsInit, FreshInv

LEMMA FreshStep ==
  ASSUME AccountsTypeOK, FreshInv, AccountsNext
  PROVE  FreshInv'
<1>1. ASSUME NEW u \in tokens'
      PROVE  u.id # None /\ (u.id \in Requests => Passed(u.id, "insert")')
  <2>1. CASE \E t \in tokens : Descends(u, t)
    BY <2>1, PassedStep DEF Descends, FreshInv
  <2>2. CASE \E q \in Requests : CreateToken(q) /\ u.id = q
    BY <2>2, InsertStep, IdsAssumption
  <2> QED
    BY <2>1, <2>2, TokenStep
<1>2. ASSUME NEW q \in Requests, NEW x \in Requests, request'[q] # Idle, request'[q].token = x
      PROVE  Passed(x, "insert")'
  <2>1. CASE Keeps(q) \/ Ends(q) \/ Moves(q)
    <3>1. request[q] # Idle /\ request'[q].token = request[q].token
      BY <2>1, <1>2, ActiveAsks DEF Keeps, Ends, Moves, Active, Asking
    <3> QED
      BY <3>1, <1>2, PassedStep DEF FreshInv
  <2>2. CASE Starts(q)
    <3>1. \E t \in tokens : t.id = request'[q].token
      BY <2>2, <1>2, AskableIsAsking, IdsAssumption DEF Starts
    <3> QED
      BY <3>1, <1>2, PassedStep DEF FreshInv
  <2> QED
    BY <2>1, <2>2, EachRequest
<1>3. ASSUME NEW u \in tokens', NEW v \in tokens', u.id = v.id
      PROVE  u = v
  <2>1. CASE Expire
    <3>1. PICK t \in tokens : tokens' = (tokens \ {t}) \cup {[t EXCEPT !.expired = TRUE]}
      BY <2>1 DEF Expire
    <3>2. [t EXCEPT !.expired = TRUE].id = t.id
      BY DEF AccountsTypeOK, TokenRows
    <3> QED
      BY <3>1, <3>2, <1>3 DEF FreshInv
  <2>2. ASSUME NEW q \in Requests, Consume(q) \/ Invalidate(q)
        PROVE  u = v
    <3>1. \A t \in tokens : [t EXCEPT !.used = TRUE].id = t.id
      BY DEF AccountsTypeOK, TokenRows
    <3>2. PICK some \in SUBSET tokens :
            tokens' = (tokens \ some) \cup {[t EXCEPT !.used = TRUE] : t \in some}
      BY <2>2 DEF Consume, Invalidate, TokenOf
    <3>3. ASSUME NEW w \in tokens'
          PROVE  \E t \in tokens :
                   w.id = t.id /\ w = IF t \in some THEN [t EXCEPT !.used = TRUE] ELSE t
      BY <3>1, <3>2
    <3>4. PICK t \in tokens : u.id = t.id /\ u = IF t \in some THEN [t EXCEPT !.used = TRUE] ELSE t
      BY <3>3
    <3>5. PICK t2 \in tokens :
            v.id = t2.id /\ v = IF t2 \in some THEN [t2 EXCEPT !.used = TRUE] ELSE t2
      BY <3>3
    <3>6. t = t2
      BY <3>4, <3>5, <1>3 DEF FreshInv
    <3> QED
      BY <3>4, <3>5, <3>6
  <2>3. ASSUME NEW q \in Requests, CreateToken(q)
        PROVE  u = v
    <3> DEFINE r == request[q]
               n == [id |-> q, kind |-> TokenKind[r.op], email |-> r.email,
                     newEmail |-> IF r.op = "askEmail" THEN r.newEmail ELSE None,
                     used |-> FALSE, expired |-> FALSE]
    <3>1. tokens' = tokens \cup {n} /\ n.id = q
      BY <2>3 DEF CreateToken
    <3> HIDE DEF n
    <3> QED
      BY <2>3, <3>1, <1>3, InsertStep DEF FreshInv
  <2>4. CASE tokens' \subseteq tokens
    BY <2>4, <1>3 DEF FreshInv
  <2> QED
    BY <2>1, <2>2, <2>3, <2>4
    DEF AccountsNext, Ask, Validate, Find, Free, Uninvited, CreateUser, UpdateEmail,
        UpdatePassword, RevokeSessions, RenewToken, CommitSession, CountUsers, DeleteRow,
        Lookup, Mail, DeletePending, RequestFails
<1> QED
  BY <1>1, <1>2, <1>3 DEF FreshInv

-----------------------------------------------------------------------------
(* A token is spent once.                                                  *)

SpentInv ==
  \A p \in Requests : Passed(p, "consume") => \A t \in TokenOf(request[p].token) : t.used

\* The request whose link was stored keeps it.
LEMMA LinkStays ==
  ASSUME AccountsTypeOK, AccountsNext, NEW q \in Requests, request[q] # Idle
  PROVE  /\ request'[q] # Idle /\ request'[q].op = request[q].op
         /\ request'[q].token = request[q].token /\ request'[q].cookie = request[q].cookie
<1>1. request[q] \in Asking
  BY DEF AccountsTypeOK
<1>2. CASE Keeps(q)
  BY <1>1, <1>2 DEF Keeps
<1>3. CASE Ends(q)
  <2>1. PICK a \in {"refused", "failed"} : request'[q] = [request[q] EXCEPT !.answer = a]
    BY <1>3 DEF Ends
  <2>2. [request[q] EXCEPT !.answer = a] \in Asking
    BY <1>1 DEF Asking, Answers
  <2> QED
    BY <1>1, <2>1, <2>2, IdleIsNotAsking DEF Asking
<1>4. CASE Moves(q)
  BY <1>4, IdleIsNotAsking DEF Moves
<1> QED
  BY <1>2, <1>3, <1>4, EachRequest DEF Starts

\* Only a token that is unused lets a request past its consumption.
LEMMA ConsumeStep ==
  ASSUME AccountsTypeOK, AccountsNext, NEW p \in Requests,
         ~Passed(p, "consume"), Passed(p, "consume")'
  PROVE  /\ Consume(p)
         /\ \E t \in TokenOf(request[p].token) : ~t.used
         /\ \A u \in tokens' : u.id = request[p].token => u.used
<1>1. Moves(p) /\ At(p, "consume")
  BY PassedStep
<1>2. ~Ends(p) /\ Consume(p)
  BY <1>1, MoverActs
<1>3. \E t \in TokenOf(request[p].token) : ~t.used
  BY <1>2, EndEnds DEF Consume, At
<1> QED
  BY <1>2, <1>3 DEF Consume, TokenOf, AccountsTypeOK, TokenRows

LEMMA SpentStep ==
  ASSUME AccountsTypeOK, FreshInv, SpentInv, AccountsNext
  PROVE  SpentInv' /\ (TokenSpentOnce => TokenSpentOnce')
<1>0. \A p \in Requests : Passed(p, "consume") =>
        request[p] # Idle /\ Passed(p, "consume")' /\ request'[p].token = request[p].token
  BY PassedStep, LinkStays DEF Passed
<1>1. ASSUME NEW p \in Requests, Passed(p, "consume")', NEW u \in tokens', u.id = request'[p].token
      PROVE  u.used
  <2>1. CASE ~Passed(p, "consume")
    BY <2>1, <1>1, ConsumeStep, LinkStays, PassedStep DEF Moves, Active
  <2>2. CASE Passed(p, "consume")
    <3>1. CASE \E t \in tokens : Descends(u, t)
      BY <3>1, <2>2, <1>0, <1>1 DEF SpentInv, TokenOf, Descends
    <3>2. CASE \E q \in Requests : CreateToken(q) /\ u.id = q
      BY <3>2, <2>2, <1>0, <1>1, InsertStep
    <3> QED
      BY <3>1, <3>2, TokenStep
  <2> QED
    BY <2>1, <2>2
<1>2. ASSUME TokenSpentOnce, NEW p \in Requests, NEW q \in Requests, p # q,
             Passed(p, "consume")', Passed(q, "consume")'
      PROVE  request'[p].token # request'[q].token
  <2>1. ASSUME NEW a \in Requests, NEW b \in Requests, Passed(a, "consume"), ~Passed(b, "consume"),
               Passed(b, "consume")'
        PROVE  request'[a].token # request'[b].token
    <3>1. request'[b].token = request[b].token
      BY <2>1, PassedStep, LinkStays DEF Moves, Active
    <3> QED
      BY <2>1, <3>1, <1>0, ConsumeStep DEF SpentInv
  <2>2. CASE ~Passed(p, "consume") /\ ~Passed(q, "consume")
    <3>1. Consume(p) /\ Moves(q)
      BY <2>2, <1>2, ConsumeStep, PassedStep
    <3>2. Keeps(q)
      BY <3>1, <1>2, RequestStep DEF OneStep
    <3> QED
      BY <3>1, <3>2 DEF Keeps, Moves, Asking, Active
  <2> QED
    BY <1>0, <1>2, <2>1, <2>2 DEF TokenSpentOnce
<1> QED
  BY <1>1, <1>2 DEF SpentInv, TokenOf, TokenSpentOnce

-----------------------------------------------------------------------------
(* A success signs the user out everywhere else.                           *)

SignsOut == {"reset", "confirm", "change"}

\* Past its revocation a request has left the user only sessions that requests
\* began, and until it renews its own the one that it came with.
SignedOutInv ==
  \A q \in Requests : \A s \in sessions :
    /\ Passed(q, "revoke") /\ request[q].op \in SignsOut /\ s.user = request[q].user
    => \/ s.id \in Requests
       \/ /\ request[q].op \in {"change", "confirm"}
          /\ s.id = request[q].cookie /\ ~Passed(q, "renew")

LEMMA SessionStep ==
  ASSUME AccountsNext, NEW s \in sessions'
  PROVE  s \in sessions \/ s.id \in Requests
<1>1. ASSUME NEW q \in Requests, CommitSession(q)
      PROVE  s \in sessions \/ s.id \in Requests
  BY <1>1 DEF CommitSession
<1>2. ASSUME NEW q \in Requests, RevokeSessions(q) \/ RenewToken(q)
      PROVE  s \in sessions
  BY <1>2 DEF RevokeSessions, RenewToken
<1> QED
  BY <1>1, <1>2
  DEF AccountsNext, Ask, Validate, Find, Free, Uninvited, Consume, CreateUser, UpdateEmail,
      UpdatePassword, CountUsers, DeleteRow, Invalidate, CreateToken, Lookup, Mail,
      DeletePending, RequestFails, Expire

LEMMA SignedOutStep ==
  ASSUME AccountsTypeOK, SignedOutInv, AccountsNext
  PROVE  SignedOutInv'
<1> SUFFICES ASSUME NEW q \in Requests, NEW s \in sessions', Passed(q, "revoke")',
                    request'[q].op \in SignsOut, s.user = request'[q].user, s.id \notin Requests
             PROVE  /\ request'[q].op \in {"change", "confirm"}
                    /\ s.id = request'[q].cookie /\ ~Passed(q, "renew")'
  BY DEF SignedOutInv
<1>1. s \in sessions
  BY SessionStep
<1>2. CASE Passed(q, "revoke")
  <2>1. /\ request[q] # Idle /\ request'[q].op = request[q].op
        /\ request'[q].cookie = request[q].cookie
    BY <1>2, LinkStays DEF Passed
  <2>2. request'[q].user = request[q].user
    <3>1. ~At(q, "find") /\ ~At(q, "create")
      BY <1>2, <2>1, NoLonger DEF SignsOut
    <3> QED
      BY <2>1, <3>1, ActiveAsks, EachRequest DEF Keeps, Starts, Ends, Moves, Asking
  <2>3. /\ request[q].op \in {"change", "confirm"}
        /\ s.id = request[q].cookie /\ ~Passed(q, "renew")
    BY <1>1, <1>2, <2>1, <2>2 DEF SignedOutInv
  <2>4. ~Passed(q, "renew")'
    <3>1. ASSUME Passed(q, "renew")' PROVE RenewToken(q)
      BY <2>3, <3>1, PassedStep, MoverActs
    <3> QED
      BY <2>3, <3>1 DEF RenewToken
  <2> QED
    BY <2>1, <2>3, <2>4
<1>3. CASE ~Passed(q, "revoke")
  <2>1. Moves(q) /\ At(q, "revoke") /\ RevokeSessions(q)
    BY <1>3, PassedStep, MoverActs
  <2>2. request'[q].op = request[q].op /\ request'[q].cookie = request[q].cookie
    BY <2>1 DEF Moves
  <2>3. request'[q].user = request[q].user
    BY <2>1 DEF Moves, At
  <2>4. request[q].op \in {"change", "confirm"} /\ s.id = request[q].cookie
    BY <2>1, <2>2, <2>3 DEF RevokeSessions
  <2>5. ~Passed(q, "renew")
    BY <2>1, <2>4, NoLonger
  <2>6. ~Passed(q, "renew")'
    BY <2>1, <2>5, PassedStep DEF At
  <2> QED
    BY <2>2, <2>4, <2>6
<1> QED
  BY <1>2, <1>3

\* Success comes after every statement.
LEMMA SuccessPassed ==
  ASSUME AccountsTypeOK, NEW q \in Requests, request[q] # Idle, request[q].answer = "ok",
         NEW i \in 1..Len(Program[request[q].op])
  PROVE  Passed(q, Program[request[q].op][i])
<1>1. request[q] \in Asking /\ InProgram(request[q])
  BY DEF AccountsTypeOK
<1>2. request[q].at = Len(Program[request[q].op]) + 1
  BY <1>1 DEF InProgram
<1>3. Len(Program[request[q].op]) \in Nat
  BY <1>1, Handler DEF Asking
<1>4. i \in 1..(request[q].at - 1)
  BY <1>2, <1>3
<1> QED
  BY <1>4 DEF Passed, Statement

LEMMA SignedOutImplies ==
  ASSUME AccountsTypeOK, SignedOutInv
  PROVE  SuccessSignsOutOthers
<1> SUFFICES ASSUME NEW q \in Requests, NEW s \in sessions,
                    request[q] # Idle, request[q].op \in SignsOut, request[q].answer = "ok",
                    s.user = request[q].user
             PROVE  s.id \in Requests
  BY DEF SuccessSignsOutOthers, SignsOut
<1>1. Passed(q, "revoke")
  BY Steps, SuccessPassed DEF SignsOut
<1>2. request[q].op \in {"change", "confirm"} => Passed(q, "renew")
  BY Steps, SuccessPassed
<1> QED
  BY <1>1, <1>2 DEF SignedOutInv

-----------------------------------------------------------------------------
(* An invitation keeps a link.                                             *)

\* A token has the kind that the request that inserted it gives out, and its
\* address; a link that is used has the kind that its handler asks for, and
\* whoever sends an invitation again sends it to the address of the old one.
LinkInv ==
  /\ \A t \in tokens, q \in Requests : t.id = q =>
       t.kind = TokenKind[request[q].op] /\ t.email = request[q].email
  /\ \A q \in Requests : request[q] # Idle =>
       \A t \in TokenOf(request[q].token) :
         /\ t.kind = TokenKind[request[q].op]
         /\ request[q].op = "resend" /\ Passed(q, "lookup") => t.email = request[q].email

\* Nobody takes an invitation back, and nobody has accepted one.
Undisturbed ==
  \A q \in Requests : request[q] # Idle =>
    request[q].op # "unlist" /\ (request[q].op = "accept" => ~Passed(q, "consume"))

\* The request has given out an invitation.
Gave(x) ==
  /\ request[x] # Idle /\ request[x].op \in {"invite", "resend"}
  /\ Passed(x, IF request[x].op = "resend" THEN "mail" ELSE "insert")

\* f numbers the requests so that a link has a higher number than the link it
\* was sent in place of.
Rank(f, id) == IF id \in Requests THEN f[id] ELSE 0

Resends(q) == request[q] # Idle /\ request[q].op = "resend"

Higher(f) ==
  \A q \in Requests : Resends(q) /\ Passed(q, "insert") => f[q] > Rank(f, request[q].token)

\* What is about to be mailed is still there, or a higher one was given out.
Mailable(f) ==
  \A q \in Requests : Resends(q) /\ At(q, "mail") =>
    \/ \E u \in tokens : u.id = q /\ Pending(u)
    \/ \E x \in Requests : Gave(x) /\ request[x].email = request[q].email /\ f[x] > f[q]

\* The highest link that was given out for an address is one that still works.
Highest(f, e) ==
  \E v \in tokens :
    /\ Pending(v) /\ v.email = e /\ Given(v)
    /\ \A x \in Requests : Gave(x) /\ request[x].email = e => f[x] <= Rank(f, v.id)

Numbered(f) ==
  Higher(f) /\ Mailable(f) /\ \A t \in FirstTokens : Pending(t) => Highest(f, t.email)

KeepsLinkInv == Undisturbed => \E f \in [Requests -> Nat] : Numbered(f)

\* How far a request has come that sends an invitation, again or for the first
\* time.
LEMMA Sending ==
  ASSUME AccountsTypeOK, NEW q \in Requests, request[q] # Idle
  PROVE  /\ request[q].op = "resend" =>
              /\ Passed(q, "lookup") <=> request[q].at > 1
              /\ Passed(q, "insert") <=> request[q].at > 2
              /\ Passed(q, "mail") <=> request[q].at > 3
              /\ At(q, "mail") <=> request[q].at = 3 /\ Active(q)
              /\ At(q, "replace") <=> request[q].at = 4 /\ Active(q)
              /\ ~At(q, "validate") /\ ~At(q, "find")
         /\ request[q].op = "invite" => (Passed(q, "insert") <=> request[q].at > 3)
         /\ request[q].at \in Nat \ {0}
<1>1. request[q] \in Asking /\ InProgram(request[q])
  BY DEF AccountsTypeOK
<1>2. request[q].at \in Nat \ {0} /\ request[q].at <= Len(Program[request[q].op]) + 1
  BY <1>1 DEF Asking, InProgram
<1>3. CASE request[q].op = "resend"
  <2>1. /\ Len(Program[request[q].op]) = 4
        /\ Program[request[q].op][1] = "lookup" /\ Program[request[q].op][2] = "insert"
        /\ Program[request[q].op][3] = "mail" /\ Program[request[q].op][4] = "replace"
    BY <1>3, Steps
  <2>2. request[q].at \in 1..5
    BY <1>2, <2>1
  <2>3. /\ Passed(q, "lookup") <=> request[q].at > 1
        /\ Passed(q, "insert") <=> request[q].at > 2
        /\ Passed(q, "mail") <=> request[q].at > 3
    BY <2>1, <2>2 DEF Passed, Statement
  <2>4. Active(q) => request[q].at \in 1..4
    BY <1>1, <2>1, <2>2 DEF Active, InProgram
  <2>5. /\ At(q, "mail") <=> request[q].at = 3 /\ Active(q)
        /\ At(q, "replace") <=> request[q].at = 4 /\ Active(q)
        /\ ~At(q, "validate") /\ ~At(q, "find")
    BY <2>1, <2>4 DEF At, Statement
  <2> QED
    BY <1>2, <1>3, <2>3, <2>5
<1>4. CASE request[q].op = "invite"
  <2>1. /\ Len(Program[request[q].op]) = 3 /\ Program[request[q].op][3] = "insert"
        /\ Program[request[q].op][1] # "insert" /\ Program[request[q].op][2] # "insert"
    BY <1>4, Steps
  <2>2. request[q].at \in 1..4
    BY <1>2, <2>1
  <2> QED
    BY <1>2, <1>4, <2>1, <2>2 DEF Passed, Statement
<1> QED
  BY <1>2, <1>3, <1>4

\* The address of a token's request no longer changes, nor that of an
\* invitation that is sent again once it was looked up.
LEMMA AddressStays ==
  ASSUME AccountsTypeOK, AccountsNext, NEW q \in Requests, request[q] # Idle,
         Passed(q, "insert") \/ At(q, "insert") \/ (request[q].op = "resend" /\ Passed(q, "lookup"))
  PROVE  request'[q].email = request[q].email
<1>1. ~At(q, "validate") /\ ~At(q, "find") /\ ~At(q, "lookup")
  <2>1. CASE Passed(q, "insert")
    BY <2>1, NoLonger
  <2>2. CASE At(q, "insert")
    BY <2>2 DEF At
  <2>3. CASE request[q].op = "resend" /\ Passed(q, "lookup")
    BY <2>3, Sending, NotYet
  <2> QED
    BY <2>1, <2>2, <2>3
<1> QED
  BY <1>1, ActiveAsks, EachRequest DEF Keeps, Starts, Ends, Moves, Asking

LEMMA LinkInit == AccountsInit => LinkInv
BY IdsAssumption DEF AccountsInit, LinkInv

LEMMA LinkStep ==
  ASSUME AccountsTypeOK, FreshInv, LinkInv, AccountsNext
  PROVE  LinkInv'
<1>1. ASSUME NEW u \in tokens', NEW q \in Requests, u.id = q
      PROVE  u.kind = TokenKind[request'[q].op] /\ u.email = request'[q].email
  <2>1. CASE \E t \in tokens : Descends(u, t)
    <3>1. PICK t \in tokens : Descends(u, t)
      BY <2>1
    <3>2. Passed(q, "insert") /\ t.kind = TokenKind[request[q].op] /\ t.email = request[q].email
      BY <1>1, <3>1 DEF Descends, FreshInv, LinkInv
    <3>3. request[q] # Idle
      BY <3>2 DEF Passed
    <3>4. request'[q].op = request[q].op /\ request'[q].email = request[q].email
      BY <3>2, <3>3, LinkStays, AddressStays
    <3> QED
      BY <3>1, <3>2, <3>4 DEF Descends
  <2>2. ASSUME NEW p \in Requests, CreateToken(p), u.id = p,
               u.kind = TokenKind[request[p].op], u.email = request[p].email
        PROVE  u.kind = TokenKind[request'[q].op] /\ u.email = request'[q].email
    <3>1. request[q] # Idle /\ At(q, "insert")
      BY <2>2, <1>1, InsertStep DEF At, Active
    <3> QED
      BY <2>2, <1>1, <3>1, LinkStays, AddressStays
  <2> QED
    BY <2>1, <2>2, TokenStep
<1>2. ASSUME NEW q \in Requests, request'[q] # Idle, NEW u \in tokens', u.id = request'[q].token
      PROVE  /\ u.kind = TokenKind[request'[q].op]
             /\ request'[q].op = "resend" /\ Passed(q, "lookup")' => u.email = request'[q].email
  <2>1. CASE request[q] = Idle
    <3>1. request'[q] \in Askable /\ ~Keeps(q)
      BY <2>1, <1>2, EachRequest DEF Keeps, Starts, Ends, Moves, Active
    <3>2. tokens' = tokens
      <4>1. ~Expire
        BY <3>1 DEF Expire, Keeps
      <4>2. PICK p \in Requests : OneStep(p) /\ (Ask(p) \/ Active(p))
        BY <4>1, ActorIsActive
      <4>3. ~Active(q)
        BY <2>1 DEF Active
      <4> QED
        BY <3>1, <4>2, <4>3 DEF Ask, OneStep
    <3>3. u.kind = TokenKind[request'[q].op] /\ request'[q].at = 1
      BY <1>2, <3>1, <3>2, AskableIsAsking DEF TokenOf
    <3>4. ~Passed(q, "lookup")'
      BY <3>3 DEF Passed
    <3> QED
      BY <3>3, <3>4
  <2>2. CASE request[q] # Idle
    <3>1. request'[q].op = request[q].op /\ request'[q].token = request[q].token
      BY <2>2, LinkStays
    <3>2. PICK t \in tokens : Descends(u, t)
      BY <2>2, <1>2, <3>1, TokenStep, InsertStep
    <3>3. t \in TokenOf(request[q].token)
      BY <1>2, <3>1, <3>2 DEF Descends, TokenOf
    <3>4. u.kind = TokenKind[request'[q].op]
      BY <2>2, <3>1, <3>2, <3>3 DEF LinkInv, Descends
    <3>5. ASSUME request'[q].op = "resend", Passed(q, "lookup")'
          PROVE  u.email = request'[q].email
      <4>1. CASE Passed(q, "lookup")
        <5>1. request'[q].email = request[q].email
          BY <4>1, <2>2, <3>1, <3>5, AddressStays
        <5>2. t.email = request[q].email
          BY <4>1, <2>2, <3>1, <3>3, <3>5 DEF LinkInv
        <5>. QED
          BY <5>1, <5>2, <3>2 DEF Descends
      <4>2. CASE ~Passed(q, "lookup")
        <5>1. Moves(q) /\ Lookup(q) /\ ~Ends(q)
          BY <4>2, <3>5, PassedStep, MoverActs
        <5>2. PICK x \in TokenOf(request[q].token) :
                Further(q, [request[q] EXCEPT !.email = x.email])
          BY <5>1, EndEnds DEF Lookup, At
        <5>3. request'[q].email = x.email
          <6>1. request[q] \in Asking
            BY <5>1, ActiveAsks DEF Moves
          <6>2. request'[q] = [[request[q] EXCEPT !.email = x.email] EXCEPT !.at = @ + 1,
                   !.answer = IF [request[q] EXCEPT !.email = x.email].at
                                   = Len(Program[[request[q] EXCEPT !.email = x.email].op])
                              THEN "ok" ELSE None]
            BY <5>2 DEF Further, AccountsTypeOK
          <6> QED
            BY <6>1, <6>2 DEF Asking
        <5>4. x = t
          BY <5>2, <3>3 DEF FreshInv, TokenOf
        <5> QED
          BY <5>3, <5>4, <3>2 DEF Descends
      <4> QED
        BY <4>1, <4>2
    <3> QED
      BY <3>4, <3>5
  <2> QED
    BY <2>1, <2>2
<1> QED
  BY <1>1, <1>2 DEF LinkInv, TokenOf

LEMMA UndisturbedBefore ==
  ASSUME AccountsTypeOK, AccountsNext, Undisturbed'
  PROVE  Undisturbed
BY LinkStays, PassedStep DEF Undisturbed

\* An unanswered invitation goes only when it could not be mailed or when it is
\* replaced by the one that was sent in its place.
LEMMA PendingStays ==
  ASSUME AccountsTypeOK, FreshInv, LinkInv, AccountsNext, Undisturbed',
         NEW t \in tokens, Pending(t)
  PROVE  \/ \E u \in tokens' : u.id = t.id /\ u.email = t.email /\ Pending(u)
         \/ \E q \in Requests : Mail(q) /\ Ends(q) /\ t.id = q
         \/ \E q \in Requests :
              /\ DeletePending(q) /\ Resends(q) /\ At(q, "replace") /\ t.id = request[q].token
<1>1. CASE t \in tokens'
  BY <1>1
<1>2. ASSUME Expire, t \notin tokens'
      PROVE  \E u \in tokens' : u.id = t.id /\ u.email = t.email /\ Pending(u)
  <2>1. [t EXCEPT !.expired = TRUE] \in tokens'
    BY <1>2 DEF Expire
  <2> QED
    BY <2>1 DEF Pending, AccountsTypeOK, TokenRows
<1>3. ASSUME NEW q \in Requests, Consume(q)
      PROVE  t \in tokens'
  <2>1. At(q, "consume") /\ request[q].op \in {"accept", "confirm", "reset"} /\ request[q] # Idle
    BY <1>3, NotYet DEF Consume, Owned
  <2>2. CASE request[q].op = "accept"
    <3>1. ~Moves(q)
      BY <2>1, <2>2, PassedStep, LinkStays DEF Undisturbed
    <3> QED
      BY <1>3, <2>1, <3>1, AdvanceMoves DEF Consume, At
  <2>3. CASE request[q].op # "accept"
    <3>1. TokenKind[request[q].op] # "invitation"
      BY <2>1, <2>3 DEF TokenKind
    <3>2. t \notin TokenOf(request[q].token)
      BY <2>1, <3>1 DEF LinkInv, Pending
    <3> QED
      BY <1>3, <3>2 DEF Consume
  <2> QED
    BY <2>2, <2>3
<1>4. ASSUME NEW q \in Requests, Invalidate(q)
      PROVE  t \in tokens'
  <2>1. request[q].op \in {"forgot", "askEmail"}
    BY <1>4, NotYet DEF Invalidate, Owned
  <2>2. TokenKind[request[q].op] # "invitation"
    BY <2>1 DEF TokenKind
  <2> QED
    BY <1>4, <2>2 DEF Invalidate, Pending
<1>5. ASSUME NEW q \in Requests, CreateToken(q)
      PROVE  t \in tokens'
  BY <1>5 DEF CreateToken
<1>6. ASSUME NEW q \in Requests, Mail(q), t \notin tokens'
      PROVE  Ends(q) /\ t.id = q
  BY <1>6, EndEnds DEF Mail, At
<1>7. ASSUME NEW q \in Requests, DeletePending(q), t \notin tokens'
      PROVE  Resends(q) /\ At(q, "replace") /\ t.id = request[q].token
  <2>1. At(q, "replace") /\ request[q].op \in {"resend", "unlist"} /\ request[q] # Idle
    BY <1>7, NotYet DEF DeletePending, Owned
  <2>2. request[q].op # "unlist"
    BY <2>1, UndisturbedBefore DEF Undisturbed
  <2> QED
    BY <1>7, <2>1, <2>2 DEF DeletePending, Resends
<1> QED
  BY <1>1, <1>2, <1>3, <1>4, <1>5, <1>6, <1>7
  DEF AccountsNext, Ask, Validate, Find, Free, Uninvited, CreateUser, UpdateEmail,
      UpdatePassword, RevokeSessions, RenewToken, CommitSession, CountUsers, DeleteRow,
      Lookup, RequestFails

\* What was given out stays given out; it is given out by the insertion of a
\* first invitation and by the mail of a later one.
LEMMA GaveStep ==
  ASSUME AccountsTypeOK, AccountsNext, NEW x \in Requests
  PROVE  /\ Gave(x) => Passed(x, "insert") /\ Gave(x)' /\ request'[x].email = request[x].email
         /\ Gave(x)' /\ ~Gave(x) =>
              \/ CreateToken(x) /\ request[x].op = "invite"
              \/ Resends(x) /\ Mail(x) /\ Moves(x) /\ request'[x].email = request[x].email
<1>1. ASSUME Gave(x)
      PROVE  Passed(x, "insert") /\ Gave(x)' /\ request'[x].email = request[x].email
  <2>1. Passed(x, "insert")
    BY <1>1, Sending DEF Gave
  <2>2. request'[x] # Idle /\ request'[x].op = request[x].op /\ request'[x].email = request[x].email
    BY <1>1, <2>1, LinkStays, AddressStays DEF Gave
  <2> QED
    BY <1>1, <2>1, <2>2, PassedStep DEF Gave
<1>2. ASSUME Gave(x)', ~Gave(x)
      PROVE  \/ CreateToken(x) /\ request[x].op = "invite"
             \/ Resends(x) /\ Mail(x) /\ Moves(x) /\ request'[x].email = request[x].email
  <2>1. PICK step : step = IF request'[x].op = "resend" THEN "mail" ELSE "insert"
    OBVIOUS
  <2>2. /\ request'[x] # Idle /\ request'[x].op \in {"invite", "resend"}
        /\ Passed(x, step)'
    BY <1>2, <2>1 DEF Gave, Passed, Statement
  <2>3. request[x] # Idle
    <3>1. ASSUME request[x] = Idle PROVE Starts(x)
      BY <2>2, <3>1, EachRequest DEF Keeps, Ends, Moves, Active
    <3>2. ASSUME Starts(x) PROVE FALSE
      <4>1. request'[x].at = 1
        BY <3>2, AskableIsAsking DEF Starts
      <4> QED
        BY <2>2, <4>1 DEF Passed
    <3> QED
      BY <3>1, <3>2
  <2>4. request'[x].op = request[x].op
    BY <2>3, LinkStays
  <2>5. Moves(x) /\ At(x, step)
    BY <1>2, <2>1, <2>2, <2>3, <2>4, PassedStep DEF Gave
  <2>6. CASE request[x].op = "invite"
    BY <2>1, <2>4, <2>5, <2>6, MoverActs
  <2>7. CASE request[x].op = "resend"
    <3>1. Mail(x) /\ At(x, "mail")
      BY <2>1, <2>4, <2>5, <2>7, MoverActs
    <3>2. request'[x].email = request[x].email
      BY <2>5, <3>1 DEF Moves, At
    <3> QED
      BY <2>3, <2>5, <2>7, <3>1, <3>2 DEF Resends
  <2> QED
    BY <2>2, <2>4, <2>6, <2>7
<1> QED
  BY <1>1, <1>2

LEMMA GivenStays ==
  ASSUME AccountsTypeOK, AccountsNext, NEW v, NEW u, v.id = u.id, Given(v)
  PROVE  Given(u)'
<1>1. CASE v.id \in Requests
  <2>1. PICK step : step = IF request[v.id].op = "resend" THEN "mail" ELSE "insert"
    OBVIOUS
  <2>2. Passed(v.id, step) /\ request[v.id] # Idle
    BY <1>1, <2>1 DEF Given, Passed
  <2>3. Passed(v.id, step)' /\ request'[v.id].op = request[v.id].op
    BY <1>1, <2>2, PassedStep, LinkStays
  <2> QED
    BY <2>1, <2>3 DEF Given, Passed, Statement
<1> QED
  BY <1>1 DEF Given

\* A link that was given out and works is not mailed back.
LEMMA GivenIsNotFailing ==
  ASSUME AccountsTypeOK, LinkInv, NEW v \in tokens, Pending(v), Given(v),
         NEW q \in Requests, At(q, "mail")
  PROVE  v.id # q
<1> SUFFICES ASSUME v.id = q PROVE FALSE
  OBVIOUS
<1>1. request[q].op \in {"askEmail", "resend"} /\ ~Passed(q, "mail")
  BY NotYet DEF Owned
<1>2. request[q].op = "askEmail"
  BY <1>1 DEF Given
<1>3. v.kind = "email_change"
  BY <1>2 DEF LinkInv, TokenKind
<1> QED
  BY <1>3 DEF Pending

\* What is replaced is replaced by something higher that was given out.
LEMMA ReplacedByHigher ==
  ASSUME AccountsTypeOK, LinkInv, NEW f \in [Requests -> Nat], Numbered(f),
         NEW r \in Requests, Resends(r), At(r, "replace"),
         NEW t \in tokens, t.id = request[r].token
  PROVE  Gave(r) /\ request[r].email = t.email /\ f[r] > Rank(f, t.id)
<1>1. Passed(r, "lookup") /\ Passed(r, "insert") /\ Passed(r, "mail")
  BY Sending DEF Resends
<1>2. request[r].email = t.email
  BY <1>1 DEF LinkInv, Resends, TokenOf
<1> QED
  BY <1>1, <1>2 DEF Gave, Resends, Numbered, Higher

LEMMA HigherStays ==
  ASSUME AccountsTypeOK, AccountsNext, NEW f, Higher(f), \A q \in Requests : ~CreateToken(q)
  PROVE  Higher(f)'
<1> SUFFICES ASSUME NEW q \in Requests, Resends(q)', Passed(q, "insert")'
             PROVE  f[q] > Rank(f, request'[q].token)
  BY DEF Higher, Rank
<1>1. Passed(q, "insert") /\ request[q] # Idle
  BY PassedStep, MoverActs DEF Passed
<1>2. Resends(q) /\ request'[q].token = request[q].token
  BY <1>1, LinkStays DEF Resends
<1> QED
  BY <1>1, <1>2 DEF Higher

\* A request comes to its mail from its insertion.
LEMMA AtMail ==
  ASSUME AccountsTypeOK, AccountsNext, NEW q \in Requests, ~CreateToken(q),
         Resends(q)', At(q, "mail")'
  PROVE  Keeps(q) /\ Resends(q) /\ At(q, "mail")
<1>1. /\ request'[q] # Idle /\ request'[q].op = "resend" /\ request'[q].answer = None
      /\ Program["resend"][request'[q].at] = "mail"
  BY DEF Resends, At, Active, Statement
<1>2. /\ Program["resend"][1] = "lookup" /\ Program["resend"][2] = "insert"
      /\ Program["resend"][3] = "mail" /\ Program["resend"][4] = "replace"
      /\ Len(Program["resend"]) = 4
  BY Steps
<1>3. ~Starts(q)
  BY <1>1, <1>2, AskableIsAsking DEF Starts
<1>4. ~Ends(q)
  BY <1>1, ActiveAsks DEF Ends, Asking, None
<1>5. ASSUME Moves(q) PROVE FALSE
  <2>1. /\ request[q] \in Asking /\ InProgram(request[q])
        /\ request[q].answer = None /\ request[q] # Idle
    BY <1>5, ActiveAsks DEF Moves, Active, AccountsTypeOK
  <2>2. request[q].op = "resend" /\ request'[q].at = request[q].at + 1
    BY <1>1, <1>5 DEF Moves
  <2>3. request[q].at \in Nat \ {0} /\ request[q].at <= 4
    BY <1>2, <2>1, <2>2 DEF InProgram, Asking
  <2>4. request[q].at # 2
    BY <1>2, <1>5, <2>2, MoverActs DEF At, Statement, Moves
  <2>5. request[q].at # 4
    BY <1>1, <1>2, <1>5, <2>2 DEF Moves, None
  <2>6. request[q].at = 1 \/ request[q].at = 3
    BY <2>3, <2>4, <2>5
  <2> QED
    BY <1>1, <1>2, <2>2, <2>6
<1>6. Keeps(q)
  BY <1>3, <1>4, <1>5, EachRequest
<1> QED
  BY <1>6 DEF Keeps, Resends, At, Active, Statement

LEMMA MailableStays ==
  ASSUME AccountsTypeOK, FreshInv, LinkInv, AccountsNext, Undisturbed',
         NEW f \in [Requests -> Nat], Numbered(f),
         \A q \in Requests : ~CreateToken(q)
  PROVE  Mailable(f)'
<1> SUFFICES ASSUME NEW q \in Requests, Resends(q)', At(q, "mail")'
             PROVE  \/ \E u \in tokens' : u.id = q /\ Pending(u)
                    \/ \E x \in Requests :
                         Gave(x)' /\ request'[x].email = request'[q].email /\ f[x] > f[q]
  BY DEF Mailable, Pending
<1>1. Keeps(q) /\ Resends(q) /\ At(q, "mail") /\ request'[q].email = request[q].email
  BY AtMail DEF Keeps
<1>2. CASE \E t \in tokens : t.id = q /\ Pending(t)
  <2>1. PICK t \in tokens : t.id = q /\ Pending(t)
    BY <1>2
  <2>2. t.email = request[q].email
    BY <2>1 DEF LinkInv
  <2>3. ASSUME NEW p \in Requests, Ends(p), t.id = p PROVE FALSE
    <3>1. request[q] \in Asking
      BY <2>1, <2>3, ActiveAsks DEF Ends
    <3> QED
      BY <1>1, <2>1, <2>3, <3>1 DEF Keeps, Ends, Active, Asking, None
  <2>4. ASSUME NEW r \in Requests, Resends(r), At(r, "replace"), t.id = request[r].token
        PROVE  \E x \in Requests : Gave(x)' /\ request'[x].email = request'[q].email /\ f[x] > f[q]
    BY <1>1, <2>1, <2>2, <2>4, ReplacedByHigher, GaveStep DEF Rank
  <2> QED
    BY <2>1, <2>3, <2>4, PendingStays
<1>3. CASE \E x \in Requests : Gave(x) /\ request[x].email = request[q].email /\ f[x] > f[q]
  BY <1>1, <1>3, GaveStep
<1> QED
  BY <1>1, <1>2, <1>3 DEF Numbered, Mailable

LEMMA HighestStays ==
  ASSUME AccountsTypeOK, FreshInv, LinkInv, AccountsNext, Undisturbed',
         NEW f \in [Requests -> Nat], Numbered(f), NEW e, Highest(f, e),
         \A q \in Requests : ~CreateToken(q)
  PROVE  Highest(f, e)'
<1>1. PICK v \in tokens :
        /\ Pending(v) /\ v.email = e /\ Given(v)
        /\ \A x \in Requests : Gave(x) /\ request[x].email = e => f[x] <= Rank(f, v.id)
  BY DEF Highest
<1>2. Rank(f, v.id) \in Nat
  BY DEF Rank
\* Nothing takes the highest link away.
<1>3. PICK w \in tokens' : w.id = v.id /\ w.email = v.email /\ Pending(w)
  <2>1. ASSUME NEW q \in Requests, Mail(q) PROVE v.id # q
    BY <1>1, <2>1, GivenIsNotFailing DEF Mail
  <2>2. ASSUME NEW r \in Requests, Resends(r), At(r, "replace") PROVE v.id # request[r].token
    BY <1>1, <1>2, <2>2, ReplacedByHigher
  <2> QED
    BY <1>1, <2>1, <2>2, PendingStays
<1>4. Given(w)'
  BY <1>1, <1>3, GivenStays
<1>5. CASE \A x \in Requests : Gave(x)' /\ request'[x].email = e => f[x] <= Rank(f, v.id)
  BY <1>1, <1>3, <1>4, <1>5 DEF Highest, Pending, Rank
\* A higher one takes its place.
<1>6. ASSUME NEW x \in Requests, Gave(x)', request'[x].email = e, f[x] > Rank(f, v.id)
      PROVE  Highest(f, e)'
  <2>1. ~Gave(x)
    BY <1>1, <1>2, <1>6, GaveStep
  <2>2. Resends(x) /\ Mail(x) /\ Moves(x) /\ request[x].email = e /\ At(x, "mail")
    BY <1>6, <2>1, GaveStep DEF Mail
  <2>3. tokens' = tokens
    BY <2>2, MoverActs, EndEnds DEF Mail, At
  <2>4. PICK u \in tokens : u.id = x /\ Pending(u)
    BY <1>1, <1>2, <1>6, <2>2 DEF Numbered, Mailable
  <2>5. u.email = e
    BY <2>2, <2>4 DEF LinkInv
  <2>6. Given(u)'
    BY <1>6, <2>4 DEF Gave, Given
  <2>7. ASSUME NEW y \in Requests, Gave(y)', request'[y].email = e PROVE f[y] <= f[x]
    <3>1. CASE y = x
      BY <3>1
    <3>2. CASE y # x
      <4>1. Keeps(y)
        BY <2>2, <3>2, MoverActs
      <4>2. Gave(y)
        BY <2>7, <4>1, GaveStep DEF Keeps, Moves, Asking, Active, CreateToken
      <4> QED
        BY <1>1, <1>2, <1>6, <2>7, <4>1, <4>2 DEF Keeps
    <3> QED
      BY <3>1, <3>2
  <2> QED
    BY <2>3, <2>4, <2>5, <2>6, <2>7 DEF Highest, Pending, Rank
<1>7. CASE \E x \in Requests : Gave(x)' /\ request'[x].email = e /\ ~(f[x] <= Rank(f, v.id))
  BY <1>2, <1>6, <1>7
<1> QED
  BY <1>5, <1>7

\* The request that inserts a token is numbered above the link it was asked to
\* replace; its old number meant nothing.
LEMMA NumbersGrow ==
  ASSUME AccountsTypeOK, FreshInv, LinkInv, AccountsNext, Undisturbed',
         NEW f \in [Requests -> Nat], Numbered(f), NEW q \in Requests, CreateToken(q)
  PROVE  \E g \in [Requests -> Nat] : Numbered(g)'
<1>1. PICK k \in Nat : request[q].op = "resend" => k = Rank(f, request[q].token) + 1
  <2>1. Rank(f, request[q].token) + 1 \in Nat
    BY DEF Rank
  <2> QED
    BY <2>1
<1>2. PICK n \in Nat : n = IF request[q].op = "resend" THEN k ELSE 0
  BY <1>1
<1> DEFINE g == [f EXCEPT ![q] = n]
<1>3. g \in [Requests -> Nat] /\ g[q] = n /\ \A x \in Requests \ {q} : g[x] = f[x]
  BY <1>2
<1> HIDE DEF g
<1>4. /\ At(q, "insert") /\ Moves(q) /\ ~Passed(q, "insert") /\ Passed(q, "insert")'
      /\ \A t \in tokens : t.id # q
      /\ \A p \in Requests : request[p] # Idle => request[p].token # q
  BY InsertStep
<1>5. /\ \A p \in Requests \ {q} : Keeps(p)
      /\ request[q] # Idle /\ request'[q].op = request[q].op
      /\ request'[q].token = request[q].token /\ request'[q].email = request[q].email
  BY <1>4, MoverActs, LinkStays, AddressStays DEF Moves, Active
<1>6. tokens \subseteq tokens'
  BY DEF CreateToken
<1>7. Higher(g)'
  <2> SUFFICES ASSUME NEW p \in Requests, Resends(p)', Passed(p, "insert")'
               PROVE  g[p] > Rank(g, request'[p].token)
    BY DEF Higher, Rank
  <2>1. request[p] # Idle /\ request'[p].token = request[p].token /\ request[p].op = "resend"
    BY <1>5 DEF Keeps, Resends
  <2>2. Rank(g, request'[p].token) = Rank(f, request[p].token)
    BY <1>3, <1>4, <2>1 DEF Rank
  <2>3. CASE p = q
    BY <1>1, <1>2, <1>3, <2>1, <2>2, <2>3 DEF Rank
  <2>4. CASE p # q
    <3>1. Passed(p, "insert")
      BY <2>4, <1>5, PassedStep DEF Keeps, Moves, Asking, Active
    <3> QED
      BY <1>3, <2>1, <2>2, <2>4, <3>1 DEF Numbered, Higher, Resends
  <2> QED
    BY <2>3, <2>4
\* Who has given out a link before did not do it with this token.
<1>8. ASSUME NEW x \in Requests, Gave(x)
      PROVE  Gave(x)' /\ request'[x].email = request[x].email /\ g[x] = f[x]
  BY <1>3, <1>4, <1>8, GaveStep
<1>9. Mailable(g)'
  <2> SUFFICES ASSUME NEW p \in Requests, Resends(p)', At(p, "mail")'
               PROVE  \/ \E u \in tokens' : u.id = p /\ Pending(u)
                      \/ \E x \in Requests :
                           Gave(x)' /\ request'[x].email = request'[p].email /\ g[x] > g[p]
    BY DEF Mailable, Pending
  <2>1. CASE p = q
    <3>1. TokenKind[request[q].op] = "invitation"
      BY <1>5, <2>1 DEF Resends, TokenKind
    <3> DEFINE r == request[q]
               t == [id |-> q, kind |-> TokenKind[r.op], email |-> r.email,
                     newEmail |-> IF r.op = "askEmail" THEN r.newEmail ELSE None,
                     used |-> FALSE, expired |-> FALSE]
    <3>2. t \in tokens' /\ t.id = q /\ Pending(t)
      BY <3>1 DEF CreateToken, Pending
    <3> QED
      BY <2>1, <3>2
  <2>2. CASE p # q
    <3>1. Resends(p) /\ At(p, "mail") /\ request'[p].email = request[p].email
      BY <1>5, <2>2 DEF Keeps, Resends, At, Active, Statement
    <3>2. CASE \E u \in tokens : u.id = p /\ Pending(u)
      BY <1>6, <3>2
    <3>3. CASE \E x \in Requests : Gave(x) /\ request[x].email = request[p].email /\ f[x] > f[p]
      BY <1>3, <1>8, <2>2, <3>1, <3>3
    <3> QED
      BY <3>1, <3>2, <3>3 DEF Numbered, Mailable
  <2> QED
    BY <2>1, <2>2
<1>10. ASSUME NEW e, Highest(f, e)
       PROVE  Highest(g, e)'
  <2>1. PICK v \in tokens :
          /\ Pending(v) /\ v.email = e /\ Given(v)
          /\ \A x \in Requests : Gave(x) /\ request[x].email = e => f[x] <= Rank(f, v.id)
    BY <1>10 DEF Highest
  <2>2. Given(v)' /\ v \in tokens'
    BY <2>1, <1>6, GivenStays
  <2>3. Rank(g, v.id) = Rank(f, v.id) /\ Rank(f, v.id) \in Nat
    BY <1>3, <1>4 DEF Rank
  <2>4. ASSUME NEW x \in Requests, Gave(x)', request'[x].email = e
        PROVE  g[x] <= Rank(g, v.id)
    <3>1. CASE Gave(x)
      BY <2>1, <2>3, <2>4, <3>1, <1>8
    <3>2. CASE ~Gave(x)
      <4>1. Moves(x)
        BY <2>4, <3>2, GaveStep, InsertStep
      <4>2. x = q
        BY <4>1, <1>5, MoverActs
      <4>3. request[q].op = "invite"
        BY <2>4, <3>2, <4>2, <1>4, GaveStep DEF Mail, At
      <4> QED
        BY <1>2, <1>3, <2>3, <4>2, <4>3
    <3> QED
      BY <3>1, <3>2
  <2> QED
    BY <2>1, <2>2, <2>3, <2>4 DEF Highest, Pending, Rank
<1> QED
  BY <1>3, <1>7, <1>9, <1>10 DEF Numbered, Pending

LEMMA KeepsLinkStep ==
  ASSUME AccountsTypeOK, FreshInv, LinkInv, KeepsLinkInv, AccountsNext
  PROVE  KeepsLinkInv'
<1> SUFFICES ASSUME Undisturbed'
             PROVE  \E g \in [Requests -> Nat] : Numbered(g)'
  BY DEF KeepsLinkInv
<1>1. PICK f \in [Requests -> Nat] : Numbered(f)
  BY UndisturbedBefore DEF KeepsLinkInv
<1>2. CASE \E q \in Requests : CreateToken(q)
  BY <1>1, <1>2, NumbersGrow
<1>3. CASE \A q \in Requests : ~CreateToken(q)
  <2>1. Higher(f)' /\ Mailable(f)'
    BY <1>1, <1>3, HigherStays, MailableStays DEF Numbered
  <2>2. \A t \in FirstTokens : Pending(t) => Highest(f, t.email)'
    BY <1>1, <1>3, HighestStays DEF Numbered
  <2> QED
    BY <2>1, <2>2 DEF Numbered, Pending
<1> QED
  BY <1>2, <1>3

LEMMA KeepsLinkInit == AccountsInit => KeepsLinkInv
<1> SUFFICES ASSUME AccountsInit PROVE \E f \in [Requests -> Nat] : Numbered(f)
  BY DEF KeepsLinkInv
<1> DEFINE f == [q \in Requests |-> 0]
<1>1. f \in [Requests -> Nat]
  OBVIOUS
<1>2. \A q \in Requests : request[q] = Idle
  BY DEF AccountsInit
<1>3. Higher(f) /\ Mailable(f)
  BY <1>2 DEF Higher, Mailable, Resends
<1>4. ASSUME NEW t \in FirstTokens, Pending(t) PROVE Highest(f, t.email)
  <2>1. t \in tokens /\ Given(t)
    BY IdsAssumption DEF AccountsInit, Given
  <2> QED
    BY <1>2, <1>4, <2>1 DEF Highest, Gave
<1> QED
  BY <1>1, <1>3, <1>4 DEF Numbered

LEMMA KeepsLinkImplies == KeepsLinkInv => InvitationKeepsALink
<1> SUFFICES ASSUME KeepsLinkInv, NEW t \in FirstTokens, Pending(t), Undisturbed
             PROVE  \E u \in tokens : Pending(u) /\ u.email = t.email /\ Given(u)
  BY DEF InvitationKeepsALink, Undisturbed
<1> QED
  BY DEF KeepsLinkInv, Numbered, Highest

-----------------------------------------------------------------------------
(* The last user.                                                          *)

\* A deletion that has counted the users and has not yet deleted.
Deleting(q) == Active(q) /\ request[q].op = "remove" /\ Passed(q, "count")

\* No other deletion comes between the count of one and its delete.
OneDeletionAtATime == \A p, q \in Requests : Deleting(p) /\ Deleting(q) => p = q

\* A user that has the name of a request was created by it.  Ids are unique.
UserIdsInv ==
  /\ \A u \in users : u.id \in Requests => Passed(u.id, "create")
  /\ \A u, v \in users : u.id = v.id => u = v

TwoUsers == \E u, v \in users : u.id # v.id

LastUserInv ==
  /\ UserIdsInv
  /\ users # {}
  /\ (\E q \in Requests : Deleting(q)) => TwoUsers

\* More than one is two.
LEMMA MoreThanOne ==
  ASSUME NEW S, ~(Cardinality(S) <= 1)
  PROVE  \E u, v \in S : u # v
<1>1. S # {}
  BY FS_EmptySet
<1>2. PICK u \in S : TRUE
  BY <1>1
<1>3. S # {u}
  BY FS_Singleton
<1>. QED
  BY <1>2, <1>3

\* Only a deletion that has counted deletes.
LEMMA DeleterCounted ==
  ASSUME AccountsTypeOK, NEW q \in Requests, DeleteRow(q)
  PROVE  Deleting(q) /\ request[q].at = Len(Program[request[q].op])
<1>1. At(q, "delete")
  BY DEF DeleteRow
<1>2. /\ request[q].op = "remove" /\ request[q] # Idle
      /\ request[q].at \in 1..Len(Program["remove"])
      /\ Program["remove"][request[q].at] = "delete"
  BY <1>1, NotYet DEF Owned
<1>a. Program["remove"][1] = "count" /\ Len(Program["remove"]) = 4
  BY Steps
<1>b. \A n \in 1..3 : Program["remove"][n] # "delete"
  BY Steps
<1>3. request[q].at = 4 /\ Program["remove"][1] = "count"
  BY <1>2, <1>a, <1>b
<1>4. 1 \in 1..(request[q].at - 1)
  BY <1>3
<1>5. request[q].at = Len(Program[request[q].op])
  BY <1>2, <1>3, <1>a
<1>. QED
  BY <1>1, <1>2, <1>3, <1>4, <1>5 DEF Deleting, At, Passed, Statement

\* The users after a step: one created, some changed, or those of an id deleted.
LEMMA UsersStep ==
  ASSUME AccountsTypeOK, AccountsNext
  PROVE  \/ users' = users
         \/ \E q \in Requests, u \in UserRows :
              At(q, "create") /\ Moves(q) /\ u.id = q /\ users' = users \cup {u}
         \/ \E f \in [users -> UserRows] :
              (\A u \in users : f[u].id = u.id) /\ users' = {f[u] : u \in users}
         \/ \E q \in Requests : DeleteRow(q) /\ users' = users \ UserOf(request[q].user)
<1>0. \A q \in Requests : q \in Name
  BY NamesAssumption DEF Name
<1>1. ASSUME NEW q \in Requests, CreateUser(q), users' # users
      PROVE  \E u \in UserRows :
               At(q, "create") /\ Moves(q) /\ u.id = q /\ users' = users \cup {u}
  <2>1. At(q, "create") /\ request[q] \in Asking
    BY <1>1, ActiveAsks DEF CreateUser, At
  <2>. DEFINE u == [id |-> q, email |-> request[q].email, password |-> q]
              r == [request[q] EXCEPT !.user = q]
  <2>2. u \in UserRows /\ u.id = q
    BY <1>0, <2>1 DEF UserRows, Asking
  <2>3. Further(q, r) /\ users' = users \cup {u}
    BY <1>1 DEF CreateUser
  <2>4. r \in Asking /\ r.op = request[q].op /\ r.cookie = request[q].cookie
        /\ r.token = request[q].token /\ r.at = request[q].at /\ r.email = request[q].email
    BY <1>0, <2>1 DEF Asking
  <2>. HIDE DEF u, r
  <2>5. Moves(q)
    BY <2>1, <2>3, <2>4, FurtherMoves DEF At
  <2>. QED
    BY <2>1, <2>2, <2>3, <2>5
<1>2. ASSUME NEW q \in Requests, UpdateEmail(q) \/ UpdatePassword(q), users' # users
      PROVE  \E f \in [users -> UserRows] :
               (\A u \in users : f[u].id = u.id) /\ users' = {f[u] : u \in users}
  <2>1. request[q] \in Asking /\ users \subseteq UserRows
    BY <1>2, ActiveAsks DEF UpdateEmail, UpdatePassword, At, AccountsTypeOK
  <2>2. CASE UpdateEmail(q)
    <3>. DEFINE f == [u \in users |-> IF u.id = request[q].user
                                      THEN [u EXCEPT !.email = request[q].newEmail] ELSE u]
    <3>1. \A u \in users : f[u] \in UserRows /\ f[u].id = u.id
      BY <2>1 DEF UserRows, Asking
    <3>2. users' = {f[u] : u \in users}
      BY <1>2, <2>2 DEF UpdateEmail
    <3>3. f \in [users -> UserRows]
      BY <3>1
    <3>. HIDE DEF f
    <3>. QED
      BY <3>1, <3>2, <3>3
  <2>3. CASE UpdatePassword(q)
    <3>. DEFINE f == [u \in users |-> IF u.id = request[q].user
                                      THEN [u EXCEPT !.password = q] ELSE u]
    <3>1. \A u \in users : f[u] \in UserRows /\ f[u].id = u.id
      BY <1>0, <2>1 DEF UserRows
    <3>2. users' = {f[u] : u \in users}
      BY <1>2, <2>3 DEF UpdatePassword
    <3>3. f \in [users -> UserRows]
      BY <3>1
    <3>. HIDE DEF f
    <3>. QED
      BY <3>1, <3>2, <3>3
  <2>. QED
    BY <1>2, <2>2, <2>3
<1>3. ASSUME NEW q \in Requests, DeleteRow(q), users' # users
      PROVE  users' = users \ UserOf(request[q].user)
  BY <1>3 DEF DeleteRow
<1>. QED
  BY <1>1, <1>2, <1>3
  DEF AccountsNext, Ask, Validate, Find, Free, Uninvited, Consume, RevokeSessions, RenewToken,
      CommitSession, CountUsers, Invalidate, CreateToken, Lookup, Mail, DeletePending,
      RequestFails, Expire

LEMMA UserIdsStep ==
  ASSUME AccountsTypeOK, UserIdsInv, AccountsNext
  PROVE  UserIdsInv'
<1>0. ASSUME NEW u \in users, u.id \in Requests PROVE Passed(u.id, "create")'
  BY <1>0, PassedStep DEF UserIdsInv
<1>1. CASE users' \subseteq users
  BY <1>0, <1>1 DEF UserIdsInv
<1>2. ASSUME NEW q \in Requests, NEW n \in UserRows, At(q, "create"), Moves(q), n.id = q,
             users' = users \cup {n}
      PROVE  UserIdsInv'
  <2>1. Passed(q, "create")' /\ \A u \in users : u.id # q
    BY <1>2, PassedStep, NotYet DEF UserIdsInv
  <2>. QED
    BY <1>0, <1>2, <2>1 DEF UserIdsInv
<1>3. ASSUME NEW f \in [users -> UserRows], \A u \in users : f[u].id = u.id,
             users' = {f[u] : u \in users}
      PROVE  UserIdsInv'
  BY <1>0, <1>3 DEF UserIdsInv
<1>. QED
  BY <1>1, <1>2, <1>3, UsersStep

\* Who begins to delete has seen two users.
LEMMA DeletingStep ==
  ASSUME AccountsTypeOK, UserIdsInv, AccountsNext, NEW q \in Requests, Deleting(q)', ~Deleting(q)
  PROVE  TwoUsers /\ users' = users
<1>1. request[q] # Idle
  <2>1. ASSUME Starts(q) PROVE FALSE
    BY <2>1, AskableIsAsking, PassedStep DEF Starts, Deleting, Passed, Active, Moves
  <2>. QED
    BY <2>1, EachRequest DEF Keeps, Ends, Moves, Deleting, Active
<1>2. request'[q].op = request[q].op
  BY <1>1, LinkStays
<1>3. Active(q)
  <2>1. CASE Keeps(q)
    BY <2>1 DEF Keeps, Deleting, Active
  <2>. QED
    BY <1>1, <2>1, EachRequest DEF Starts, Ends, Moves
<1>4. Moves(q) /\ At(q, "count")
  BY <1>2, <1>3, PassedStep DEF Deleting
<1>5. CountUsers(q) /\ ~Ends(q)
  BY <1>4, MoverActs
<1>6. ~(Cardinality(users) <= 1) /\ users' = users
  BY <1>3, <1>5, EndEnds DEF CountUsers
<1>7. \E u, v \in users : u # v
  BY <1>6, MoreThanOne
<1>. QED
  BY <1>6, <1>7 DEF UserIdsInv, TwoUsers

LEMMA LastUserStep ==
  ASSUME AccountsTypeOK, LastUserInv, OneDeletionAtATime, AccountsNext
  PROVE  LastUserInv'
<1>1. UserIdsInv'
  BY UserIdsStep DEF LastUserInv
<1>2. ASSUME NEW p \in Requests, Deleting(p)', ~Deleting(p) PROVE LastUserInv'
  <2>1. TwoUsers /\ users' = users
    BY <1>2, DeletingStep DEF LastUserInv
  <2>. QED
    BY <1>1, <2>1 DEF LastUserInv, TwoUsers
<1>3. ASSUME \A p \in Requests : Deleting(p)' => Deleting(p) PROVE LastUserInv'
  <2>1. CASE users' = users
    BY <1>1, <1>3, <2>1 DEF LastUserInv, TwoUsers
  <2>2. ASSUME NEW u \in UserRows, users' = users \cup {u} PROVE LastUserInv'
    BY <1>1, <1>3, <2>2 DEF LastUserInv, TwoUsers
  <2>3. ASSUME NEW f \in [users -> UserRows], \A u \in users : f[u].id = u.id,
               users' = {f[u] : u \in users}
        PROVE  LastUserInv'
    <3>1. TwoUsers => TwoUsers'
      BY <2>3 DEF TwoUsers
    <3>. QED
      BY <1>1, <1>3, <2>3, <3>1 DEF LastUserInv
  <2>4. ASSUME NEW q \in Requests, DeleteRow(q), users' = users \ UserOf(request[q].user)
        PROVE  LastUserInv'
    <3>0. Deleting(q) /\ request[q].at = Len(Program[request[q].op])
      BY <2>4, DeleterCounted
    <3>1. Deleting(q) /\ TwoUsers
      BY <3>0 DEF LastUserInv
    <3>2. users' # {}
      BY <2>4, <3>1 DEF TwoUsers, UserOf
    <3>3. \A p \in Requests : Deleting(p)' => p = q
      BY <1>3, <3>1 DEF OneDeletionAtATime
    <3>4. CASE ~Deleting(q)'
      BY <1>1, <3>2, <3>3, <3>4 DEF LastUserInv
    <3>5. CASE users' = users
      BY <2>1, <3>5
    <3>6. CASE Deleting(q)' /\ users' # users
      <4>1. Advance(q) /\ At(q, "delete")
        BY <2>4, <3>6 DEF DeleteRow
      <4>2. Moves(q) /\ request[q].at = Len(Program[request[q].op])
        <5>1. Active(q)
          BY <3>0 DEF Deleting
        <5>. QED
          BY <3>0, <4>1, <5>1, AdvanceMoves
      <4>. QED
        BY <3>6, <4>2 DEF Moves, Deleting, Active, None
    <3>. QED
      BY <3>4, <3>5, <3>6
  <2>. QED
    BY <2>1, <2>2, <2>3, <2>4, UsersStep
<1>. QED
  BY <1>2, <1>3

-----------------------------------------------------------------------------
(* The theorems.                                                           *)

AccountsInv ==
  AccountsTypeOK /\ FreshInv /\ SpentInv /\ TokenSpentOnce /\ SignedOutInv /\ LinkInv /\ KeepsLinkInv

THEOREM AccountsInvariant == AccountsSpec => []AccountsInv
<1>1. AccountsInit => AccountsInv
  <2>1. AccountsInit => SpentInv /\ TokenSpentOnce /\ SignedOutInv
    BY DEF AccountsInit, SpentInv, TokenSpentOnce, SignedOutInv, Passed
  <2> QED
    BY <2>1, TypeInit, FreshInit, LinkInit, KeepsLinkInit DEF AccountsInv
<1>2. AccountsInv /\ [AccountsNext]_accountVars => AccountsInv'
  <2>1. ASSUME AccountsInv, AccountsNext PROVE AccountsInv'
    BY <2>1, TypeStep, FreshStep, SpentStep, SignedOutStep, LinkStep, KeepsLinkStep
    DEF AccountsInv
  <2>2. ASSUME AccountsInv, UNCHANGED accountVars PROVE AccountsInv'
    <3>a. users' = users /\ sessions' = sessions /\ tokens' = tokens /\ request' = request
      BY <2>2 DEF accountVars
    <3>1. AccountsTypeOK' /\ FreshInv'
      <4>1. AccountsTypeOK'
        BY <2>2, TypeStep DEF AccountsInv
      <4>2. FreshInv'
        BY <2>2, <3>a DEF AccountsInv, FreshInv, Passed, Statement
      <4>. QED
        BY <4>1, <4>2
    <3>2. SpentInv' /\ TokenSpentOnce' /\ SignedOutInv'
      <4>1. SpentInv'
        BY <2>2, <3>a DEF AccountsInv, SpentInv, Passed, Statement, TokenOf
      <4>2. TokenSpentOnce'
        BY <2>2, <3>a DEF AccountsInv, TokenSpentOnce, Passed, Statement
      <4>3. SignedOutInv'
        BY <2>2, <3>a DEF AccountsInv, SignedOutInv, Passed, Statement
      <4>. QED
        BY <4>1, <4>2, <4>3
    <3>3. LinkInv'
      BY <2>2, <3>a DEF AccountsInv, LinkInv, Passed, Statement, TokenOf
    <3>4. KeepsLinkInv'
      <4>1. \A f : Numbered(f) <=> Numbered(f)'
        <5>. TAKE f
        <5>. QED
          BY <3>a
          DEF Numbered, Higher, Mailable, Highest, Gave, Given, Resends, Rank, Passed, At, Active,
              Statement, Pending
      <4>2. Undisturbed' => Undisturbed
        BY <3>a DEF Undisturbed, Passed, Statement
      <4>. QED
        BY <2>2, <4>1, <4>2 DEF AccountsInv, KeepsLinkInv
    <3>. QED
      BY <3>1, <3>2, <3>3, <3>4 DEF AccountsInv
  <2> QED
    BY <2>1, <2>2
<1> QED
  BY <1>1, <1>2, PTL DEF AccountsSpec

\* Of all the requests with one link only one gets past its consumption
\* (auth/handlers.go:153).
THEOREM SpentOnce == AccountsSpec => []TokenSpentOnce
BY AccountsInvariant, PTL DEF AccountsInv

\* A reset, an email change or a password change that succeeds leaves the user
\* only sessions that requests began (auth/password_reset.go:168).
THEOREM OthersSignedOut == AccountsSpec => []SuccessSignsOutOthers
<1>1. AccountsInv => SuccessSignsOutOthers
  BY SignedOutImplies DEF AccountsInv
<1> QED
  BY <1>1, AccountsInvariant, PTL

\* Whoever is invited keeps a link that was given to them, however many requests
\* send it again (invitations.go:186-212).
THEOREM LinkKept == AccountsSpec => []InvitationKeepsALink
<1>1. AccountsInv => InvitationKeepsALink
  BY KeepsLinkImplies DEF AccountsInv
<1> QED
  BY <1>1, AccountsInvariant, PTL

\* "cannot delete the last user" (handlers/users.go:81) holds as long as no two deletions
\* are between their count of the users and their delete; every other request may come in
\* between.
THEOREM LastUserStays ==
  ASSUME FirstUsers # {}
  PROVE  AccountsSpec /\ []OneDeletionAtATime => []SomeUserRemains
<1>1. AccountsInit => LastUserInv
  BY IdsAssumption DEF AccountsInit, LastUserInv, UserIdsInv, Deleting, Active
<1>2. AccountsTypeOK /\ LastUserInv /\ OneDeletionAtATime /\ [AccountsNext]_accountVars
      => LastUserInv'
  <2>1. ASSUME LastUserInv, UNCHANGED accountVars PROVE LastUserInv'
    BY <2>1 DEF accountVars, LastUserInv, UserIdsInv, TwoUsers, Deleting, Active, Passed, Statement
  <2>. QED
    BY <2>1, LastUserStep
<1>3. LastUserInv => SomeUserRemains
  BY DEF LastUserInv, SomeUserRemains
<1>. QED
  BY <1>1, <1>2, <1>3, AccountsTyping, PTL DEF AccountsSpec

=============================================================================
