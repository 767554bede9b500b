---------------------------- MODULE AuthSessions ----------------------------
(***************************************************************************)
(* Identity: accounts, server sessions, one-time tokens and the second     *)
(* factor (auth_service.py, auth_router.py).                               *)
(*                                                                         *)
(* A call selects its rows, checks them, and commits its changes; between  *)
(* the two, at READ COMMITTED, any other call may commit.  A commit writes *)
(* only the columns whose value differs from the row as it was loaded.     *)
(* Rows are named by the call that drew their secret: a session by its     *)
(* login, a token by its request, a password by its registration or reset, *)
(* a TOTP secret by its setup.  Whether a caller knows the right password  *)
(* or code is a free choice.                                               *)
(***************************************************************************)
EXTENDS Naturals, FiniteSets

CONSTANTS
  Calls,    \* requests to /api/auth
  Emails,   \* users, named by their (unique) e-mail address
  Phones,
  Codes,    \* one-time codes (six digits: two requests may draw the same)
  None

ASSUME AuthAssumption ==
  /\ None \notin Calls \cup Emails \cup Phones \cup Codes

VARIABLES
  user,       \* user_accounts
  session,    \* auth_sessions
  token,      \* auth_tokens
  call,       \* where each call is, and what it has loaded
  spentBy,    \* history: the calls that succeeded with each token
  spared,     \* history: logins under way when a reset of their account committed
  confirmed,  \* history: TOTP secrets some call has shown a code of
  raced       \* history: users two of whose changes of the second factor overlapped

vars == <<user, session, token, call, spentBy, spared, confirmed, raced>>

NoUser    == [is |-> FALSE, password |-> None, email |-> FALSE, phone |-> None,
              phoneOk |-> FALSE, secret |-> None, totp |-> FALSE]
NoSession == [user |-> None, state |-> "none", password |-> None]
NoToken   == [purpose |-> "none", user |-> None, phone |-> None, code |-> None, state |-> "none"]
NoCall    == [op |-> "none", at |-> "idle", user |-> None, ref |-> None, row |-> NoUser,
              spent |-> {}]

UserRows == [is : BOOLEAN, password : Calls \cup {None}, email : BOOLEAN,
             phone : Phones \cup {None}, phoneOk : BOOLEAN,
             secret : Calls \cup {None}, totp : BOOLEAN]

FactorOps == {"setup", "enable", "disable"}
SessionOps == FactorOps \cup {"logout_all"}

\* The two kinds of rows a query filters: not used yet, not revoked yet.  Both may be
\* past their time.
Unused(t)  == token[t].state \in {"fresh", "expired"}
Standing(s) == session[s].state \in {"live", "expired"}

SessionsOf(u) == {s \in Calls : Standing(s) /\ session[s].user = u}

\* Calls of some kind that have loaded a row of user u and not committed yet.
UnderWay(ops, u) ==
  {c \in Calls : call[c].at = "loaded" /\ call[c].op \in ops /\ call[c].user = u}

Idle(c)       == call[c].at = "idle"
Loaded(c, op) == call[c].at = "loaded" /\ call[c].op = op

\* A call begins, with what it has loaded, and ends, with its answer.
Begin(c, op, at, u, ref, row, spent) ==
  /\ Idle(c)
  /\ call' = [call EXCEPT ![c] =
       [op |-> op, at |-> at, user |-> u, ref |-> ref, row |-> row, spent |-> spent]]
End(c, at) ==
  call' = [call EXCEPT ![c] =
    [op |-> "none", at |-> at, user |-> None, ref |-> None, row |-> NoUser,
     spent |-> call[c].spent]]

Revoked(s) == [user |-> session[s].user, state |-> "revoked", password |-> session[s].password]
Spent(t) == [token EXCEPT ![t].state = "used"]

Rows    == <<user, session, token>>
History == <<spentBy, spared, confirmed, raced>>

\* The lookup fails: 400, 401, or nothing done.
Refuse(c) == Idle(c) /\ End(c, "refused") /\ UNCHANGED <<Rows, History>>

-----------------------------------------------------------------------------
(* register                                                                *)

PhoneTaken(p) == p # None /\ \E v \in Emails : user[v].is /\ user[v].phone = p

RegisterChecks(c, u, p) ==
  IF user[u].is \/ PhoneTaken(p)
  THEN Refuse(c)
  ELSE /\ Begin(c, "register", "loaded", u, None,
                [NoUser EXCEPT !.is = TRUE, !.password = c, !.phone = p], {})
       /\ UNCHANGED <<Rows, History>>

\* The user and the token that verifies the address, in one transaction.
RegisterInserts(c) ==
  LET u == call[c].user IN
    /\ Loaded(c, "register")
    /\ ~user[u].is
    /\ ~PhoneTaken(call[c].row.phone)
    /\ user'  = [user EXCEPT ![u] = call[c].row]
    /\ token' = [token EXCEPT ![c] =
         [purpose |-> "email_verify", user |-> u, phone |-> None, code |-> None,
          state |-> "fresh"]]
    /\ End(c, "done")
    /\ UNCHANGED <<session, History>>

\* A unique constraint, of the address, the phone or a chosen account id, rolls the
\* transaction back, 500.
RegisterFails(c) ==
  /\ Loaded(c, "register")
  /\ End(c, "failed")
  /\ UNCHANGED <<Rows, History>>

-----------------------------------------------------------------------------
(* login, logout, logout-all, resolve_session                              *)

\* The password checked is the one of the row loaded; with a second factor, a code of
\* the secret of this row too.
LoginLoads(c, u) ==
  /\ user[u].is
  /\ user[u].totp => user[u].secret # None
  /\ Begin(c, "login", "loaded", u, None, user[u], {})
  /\ UNCHANGED <<Rows, History>>

LoginRefused(c) == Refuse(c)

LoginCommits(c) ==
  /\ Loaded(c, "login")
  /\ session' = [session EXCEPT ![c] =
       [user |-> call[c].user, state |-> "live", password |-> call[c].row.password]]
  /\ End(c, "done")
  /\ UNCHANGED <<user, token, History>>

Logout(c, s) ==
  /\ session[s].state # "none"
  /\ Idle(c)
  /\ End(c, "done")
  /\ session' = [session EXCEPT ![s] = Revoked(s)]
  /\ UNCHANGED <<user, token, History>>

\* The bearer token is resolved in a transaction of its own.
Resolve(c, op, s) ==
  IF session[s].state = "live"
  THEN /\ Begin(c, op, "resolved", session[s].user, s, NoUser, {})
       /\ UNCHANGED <<Rows, History>>
  ELSE Refuse(c)

LogoutAll(c) ==
  /\ call[c].at = "resolved"
  /\ call[c].op = "logout_all"
  /\ session' = [s \in Calls |-> IF s \in SessionsOf(call[c].user) THEN Revoked(s) ELSE session[s]]
  /\ End(c, "done")
  /\ UNCHANGED <<user, token, History>>

-----------------------------------------------------------------------------
(* Tokens: verify_email, the password reset, the one-time code.            *)

RequestReset(c, u) ==
  IF user[u].is
  THEN /\ Idle(c)
       /\ End(c, "done")
       /\ token' = [token EXCEPT ![c] =
            [purpose |-> "password_reset", user |-> u, phone |-> None, code |-> None,
             state |-> "fresh"]]
       /\ UNCHANGED <<user, session, History>>
  ELSE Refuse(c)

\* Mutant of RequestOtp: the phone goes where the user is.
RequestOtpSwapped(c, p, k) ==
  /\ Idle(c)
  /\ End(c, "done")
  /\ token' = [token EXCEPT ![c] =
       [purpose |-> "phone_otp", user |-> p, phone |-> None, code |-> k, state |-> "fresh"]]
  /\ UNCHANGED <<user, session, History>>

RequestOtp(c, p, k) ==
  /\ Idle(c)
  /\ End(c, "done")
  /\ token' = [token EXCEPT ![c] =
       [purpose |-> "phone_otp", user |-> None, phone |-> p, code |-> k, state |-> "fresh"]]
  /\ UNCHANGED <<user, session, History>>

\* Mutant of TokenLoads: the query does not ask for tokens that are not used.
TokenLoadsAny(c, t, op) ==
  /\ token[t].purpose = op
  /\ Begin(c, op, "loaded", token[t].user, t, NoUser, spentBy[t])
  /\ UNCHANGED <<Rows, History>>

\* The token of a link: its hash is unique.
TokenLoads(c, t, op) ==
  IF token[t].purpose = op /\ token[t].state = "fresh"
  THEN /\ Begin(c, op, "loaded", token[t].user, t, NoUser, spentBy[t])
       /\ UNCHANGED <<Rows, History>>
  ELSE Refuse(c)

\* The row of a code: there may be none, or several (scalar_one_or_none raises, 500).
OtpLoads(c, p, k) ==
  LET rows == {t \in Calls : token[t].purpose = "phone_otp" /\ token[t].phone = p
                              /\ token[t].code = k /\ Unused(t)}
  IN  \/ /\ Cardinality(rows) > 1
         /\ Idle(c)
         /\ End(c, "failed")
         /\ UNCHANGED <<Rows, History>>
      \/ \E t \in Calls :
           /\ rows = {t}
           /\ token[t].state = "fresh"
           /\ Begin(c, "phone_otp", "loaded", None, t, NoUser, spentBy[t])
           /\ UNCHANGED <<Rows, History>>
      \/ /\ \A t \in rows : token[t].state = "expired"
         /\ Cardinality(rows) <= 1
         /\ Refuse(c)

SpendToken(c) ==
  /\ token'   = Spent(call[c].ref)
  /\ spentBy' = [spentBy EXCEPT ![call[c].ref] = @ \cup {c}]
  /\ End(c, "done")

VerifyEmail(c) ==
  /\ Loaded(c, "email_verify")
  /\ SpendToken(c)
  /\ user' = [user EXCEPT ![call[c].user].email = TRUE]
  /\ UNCHANGED <<session, spared, confirmed, raced>>

\* Mutant of ResetPassword: the sessions stay.
ResetPasswordOnly(c) ==
  LET u == call[c].user IN
    /\ Loaded(c, "password_reset")
    /\ SpendToken(c)
    /\ user'    = [user EXCEPT ![u].password = c]
    /\ spared'  = spared \cup UnderWay({"login"}, u)
    /\ UNCHANGED <<session, confirmed, raced>>

\* The new password, the token and the sessions, in one transaction.  (The lock on the
\* user's row is taken before the sessions are selected, and a login updates this row
\* too: no login commits between the selection and the commit.)
ResetPassword(c) ==
  LET u == call[c].user IN
    /\ Loaded(c, "password_reset")
    /\ SpendToken(c)
    /\ user'    = [user EXCEPT ![u].password = c]
    /\ session' = [s \in Calls |-> IF s \in SessionsOf(u) THEN Revoked(s) ELSE session[s]]
    /\ spared'  = spared \cup UnderWay({"login"}, u)
    /\ UNCHANGED <<confirmed, raced>>

\* The code is used; an e-mail address in the request names the user whose phone it is.
VerifyOtp(c) ==
  LET p == token[call[c].ref].phone IN
    /\ Loaded(c, "phone_otp")
    /\ \/ /\ SpendToken(c)
          /\ UNCHANGED user
       \/ \E u \in Emails :
            /\ user[u].is
            /\ \A v \in Emails \ {u} : user[v].phone # p
            /\ SpendToken(c)
            /\ user' = [user EXCEPT ![u] = [@ EXCEPT !.phone = p, !.phoneOk = TRUE]]
    /\ UNCHANGED <<session, spared, confirmed, raced>>

\* The phone is another user's: the unique constraint rolls everything back, 500.
VerifyOtpFails(c) ==
  /\ Loaded(c, "phone_otp")
  /\ \E u, v \in Emails :
       u # v /\ user[u].is /\ user[v].is /\ user[v].phone = token[call[c].ref].phone
  /\ End(c, "failed")
  /\ UNCHANGED <<Rows, History>>

-----------------------------------------------------------------------------
(* The second factor: setup_2fa, enable_2fa, disable_2fa.                  *)

\* The user is loaded, and the code (and password) checked against this row.
FactorLoads(c) ==
  LET row == user[call[c].user] IN
    /\ call[c].at = "resolved"
    /\ call[c].op \in FactorOps
    /\ call[c].op = "enable" => row.secret # None
    /\ call[c].op = "disable" /\ row.totp => row.secret # None
    /\ call' = [call EXCEPT ![c] =
         [op |-> call[c].op, at |-> "loaded", user |-> call[c].user, ref |-> call[c].ref,
          row |-> row, spent |-> {}]]
    /\ UNCHANGED <<Rows, History>>

\* A wrong code or password, or nothing to confirm.
FactorRefused(c) ==
  /\ call[c].at = "resolved"
  /\ call[c].op \in {"enable", "disable"}
  /\ End(c, "refused")
  /\ UNCHANGED <<Rows, History>>

\* The commit of one of the three; which of two overlapping ones prevails is a race.
FactorCommits(c, secret, totp) ==
  LET u == call[c].user IN
    /\ user'  = [user EXCEPT ![u] = [@ EXCEPT !.secret = secret, !.totp = totp]]
    /\ raced' = IF UnderWay(FactorOps, u) = {c} THEN raced ELSE raced \cup {u}
    /\ End(c, "done")
    /\ UNCHANGED <<session, token, spentBy, spared>>

\* Mutant of Setup: the new secret is enabled if the old one was.
SetupKeepsEnabled(c) ==
  /\ Loaded(c, "setup")
  /\ FactorCommits(c, c, user[call[c].user].totp)
  /\ UNCHANGED confirmed

Setup(c) ==
  /\ Loaded(c, "setup")
  /\ FactorCommits(c, c, IF call[c].row.totp THEN FALSE ELSE user[call[c].user].totp)
  /\ UNCHANGED confirmed

Enable(c) ==
  /\ Loaded(c, "enable")
  /\ FactorCommits(c, user[call[c].user].secret,
                   IF call[c].row.totp THEN user[call[c].user].totp ELSE TRUE)
  /\ confirmed' = confirmed \cup {call[c].row.secret}

Disable(c) ==
  /\ Loaded(c, "disable")
  /\ FactorCommits(c, IF call[c].row.secret # None THEN None ELSE user[call[c].user].secret,
                   IF call[c].row.totp THEN FALSE ELSE user[call[c].user].totp)
  /\ UNCHANGED confirmed

-----------------------------------------------------------------------------
SessionExpires(s) ==
  /\ session[s].state = "live"
  /\ session' = [session EXCEPT ![s].state = "expired"]
  /\ UNCHANGED <<user, token, call, History>>

TokenExpires(t) ==
  /\ token[t].state = "fresh"
  /\ token' = [token EXCEPT ![t].state = "expired"]
  /\ UNCHANGED <<user, session, call, History>>

Init ==
  /\ user      = [u \in Emails |-> NoUser]
  /\ session   = [s \in Calls |-> NoSession]
  /\ token     = [t \in Calls |-> NoToken]
  /\ call      = [c \in Calls |-> NoCall]
  /\ spentBy   = [t \in Calls |-> {}]
  /\ spared    = {}
  /\ confirmed = {}
  /\ raced     = {}

CallStep(c) ==
  \/ \E u \in Emails, p \in Phones \cup {None} : RegisterChecks(c, u, p)
  \/ RegisterInserts(c) \/ RegisterFails(c)
  \/ \E u \in Emails : LoginLoads(c, u)
  \/ LoginRefused(c) \/ LoginCommits(c)
  \/ \E s \in Calls : Logout(c, s)
  \/ \E op \in SessionOps, s \in Calls : Resolve(c, op, s)
  \/ LogoutAll(c)
  \/ \E u \in Emails : RequestReset(c, u)
  \/ \E p \in Phones, k \in Codes : RequestOtp(c, p, k) \/ OtpLoads(c, p, k)
  \/ \E t \in Calls, op \in {"email_verify", "password_reset"} : TokenLoads(c, t, op)
  \/ VerifyEmail(c) \/ ResetPassword(c) \/ VerifyOtp(c) \/ VerifyOtpFails(c)
  \/ FactorLoads(c) \/ FactorRefused(c)
  \/ Setup(c) \/ Enable(c) \/ Disable(c)

Next ==
  \/ \E c \in Calls : CallStep(c)
  \/ \E s \in Calls : SessionExpires(s)
  \/ \E t \in Calls : TokenExpires(t)

Spec == Init /\ [][Next]_vars

-----------------------------------------------------------------------------
Ops == {"none", "register", "login", "email_verify", "password_reset", "phone_otp"}
       \cup SessionOps

TypeOK ==
  /\ user    \in [Emails -> UserRows]
  /\ session \in [Calls -> [user : Emails \cup {None},
                            state : {"none", "live", "expired", "revoked"},
                            password : Calls \cup {None}]]
  /\ token   \in [Calls -> [purpose : {"none", "email_verify", "password_reset", "phone_otp"},
                            user : Emails \cup {None}, phone : Phones \cup {None},
                            code : Codes \cup {None},
                            state : {"none", "fresh", "expired", "used"}]]
  /\ call    \in [Calls -> [op : Ops,
                            at : {"idle", "resolved", "loaded", "done", "refused", "failed"},
                            user : Emails \cup {None}, ref : Calls \cup {None},
                            row : UserRows, spent : SUBSET Calls]]
  /\ spentBy \in [Calls -> SUBSET Calls]
  /\ spared    \subseteq Calls
  /\ confirmed \subseteq Calls
  /\ raced     \subseteq Emails

\* "Password updated; all sessions revoked" (auth_router.py:158): a session that was
\* opened with an earlier password does not stand, unless its login had checked this
\* password and was still to commit when the reset did.
SessionsAreCurrent ==
  \A s \in Calls :
    Standing(s) => session[s].password = user[session[s].user].password \/ s \in spared

\* A token, whatever it is for, works once: a call that begins when some call has
\* succeeded with it does not.  (Two calls that overlap may both.)
UsedTokenFails ==
  \A t \in Calls : \A c \in spentBy[t] : call[c].spent = {}

\* "enable after confirm" (auth_service.py:403): where a second factor is asked for, a
\* code of its current secret has been shown, unless two changes of it overlapped.
FactorConfirmed ==
  \A u \in Emails :
    user[u].totp => user[u].secret \in confirmed \/ u \in raced
=============================================================================
