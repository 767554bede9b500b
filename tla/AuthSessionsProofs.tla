-------------------------- MODULE AuthSessionsProofs --------------------------
(***************************************************************************)
(* Proofs about AuthSessions, for any number of users and of overlapping   *)
(* calls.                                                                  *)
(***************************************************************************)
EXTENDS AuthSessions, TLAPS

TokenOps == {"email_verify", "password_reset", "phone_otp"}

-----------------------------------------------------------------------------
(* The inductive invariant: what a call holds of the rows it has loaded.   *)

\* Sessions, tokens and calls are those of registered users.
Known ==
  /\ \A s \in Calls :
       session[s].state # "none" => session[s].user \in Emails /\ user[session[s].user].is
  /\ \A t \in Calls :
       token[t].purpose \in {"email_verify", "password_reset"} =>
         token[t].user \in Emails /\ user[token[t].user].is
  /\ \A c \in Calls :
       call[c].at \in {"resolved", "loaded"} /\ call[c].op \notin {"register", "phone_otp"} =>
         call[c].user \in Emails /\ user[call[c].user].is
  /\ \A c \in Calls :
       Loaded(c, "register") =>
         call[c].user \in Emails /\ call[c].row.is /\ ~call[c].row.totp

\* A login knows the current password, or was spared by the reset that changed it.
SessionsInv ==
  /\ SessionsAreCurrent
  /\ \A c \in Calls :
       Loaded(c, "login") =>
         call[c].row.password = user[call[c].user].password \/ c \in spared

\* A token that is not marked used has not been spent; a call has a token before it
\* spends it.
TokensInv ==
  /\ \A t \in Calls : token[t].state # "used" => spentBy[t] = {}
  /\ \A c \in Calls : call[c].at = "idle" \/ Loaded(c, "register") => token[c].state = "none"
  /\ \A c \in Calls :
       call[c].at = "loaded" /\ call[c].op \in TokenOps =>
         call[c].ref \in Calls /\ call[c].spent = {} /\ token[call[c].ref].state # "none"
  /\ \A t \in Calls : \A c \in spentBy[t] : call[c].at = "done" /\ call[c].spent = {}

\* While no two changes of the second factor have overlapped, the row a change has
\* loaded is the current one.
FactorInv ==
  /\ FactorConfirmed
  /\ \A c \in Calls :
       call[c].at = "loaded" /\ call[c].op \in FactorOps =>
         /\ call[c].op = "enable" => call[c].row.secret # None
         /\ \/ call[c].user \in raced
            \/ /\ call[c].row.secret = user[call[c].user].secret
               /\ call[c].row.totp = user[call[c].user].totp

AuthInv == TypeOK /\ Known /\ SessionsInv /\ TokensInv /\ FactorInv

-----------------------------------------------------------------------------
CallStates ==
  [op : Ops, at : {"idle", "resolved", "loaded", "done", "refused", "failed"},
   user : Emails \cup {None}, ref : Calls \cup {None}, row : UserRows, spent : SUBSET Calls]

SessionRows ==
  [user : Emails \cup {None}, state : {"none", "live", "expired", "revoked"},
   password : Calls \cup {None}]

TokenRows ==
  [purpose : {"none", "email_verify", "password_reset", "phone_otp"},
   user : Emails \cup {None}, phone : Phones \cup {None}, code : Codes \cup {None},
   state : {"none", "fresh", "expired", "used"}]

LEMMA NoUserIsRow == NoUser \in UserRows
BY DEF NoUser, UserRows

\* What a call that begins or goes on becomes, and that it moves alone.
LEMMA CallMoves ==
  ASSUME TypeOK, NEW c \in Calls, NEW r \in CallStates, call' = [call EXCEPT ![c] = r]
  PROVE  /\ call' \in [Calls -> CallStates]
         /\ \A d \in Calls : call'[d] = IF d = c THEN r ELSE call[d]
BY DEF TypeOK, CallStates

LEMMA CallEnds ==
  ASSUME TypeOK, NEW c \in Calls, NEW at \in {"done", "refused", "failed"}, End(c, at)
  PROVE  /\ call' \in [Calls -> CallStates]
         /\ call'[c].at = at /\ call'[c].op = "none" /\ call'[c].spent = call[c].spent
         /\ \A d \in Calls : d # c => call'[d] = call[d]
<1> DEFINE r == [op |-> "none", at |-> at, user |-> None, ref |-> None, row |-> NoUser,
                 spent |-> call[c].spent]
<1>1. r \in CallStates /\ r.at = at /\ r.op = "none" /\ r.spent = call[c].spent
  BY NoUserIsRow DEF TypeOK, CallStates, Ops
<1>2. call' = [call EXCEPT ![c] = r]
  BY DEF End
<1> HIDE DEF r
<1> QED BY <1>1, <1>2, CallMoves

\* A call moves and nothing else does.
LEMMA CallKeeps ==
  ASSUME AuthInv, NEW c \in Calls, NEW r \in CallStates, call' = [call EXCEPT ![c] = r],
         UNCHANGED <<Rows, History>>,
         call[c].at # "done", r.at # "idle",
         r.at \in {"resolved", "loaded"} /\ r.op \notin {"register", "phone_otp"} =>
           r.user \in Emails /\ user[r.user].is,
         r.at = "loaded" /\ r.op = "register" =>
           r.user \in Emails /\ r.row.is /\ ~r.row.totp /\ call[c].at = "idle",
         r.at = "loaded" /\ r.op = "login" => r.row.password = user[r.user].password,
         r.at = "loaded" /\ r.op \in TokenOps =>
           r.ref \in Calls /\ r.spent = {} /\ token[r.ref].state # "none",
         r.at = "loaded" /\ r.op \in FactorOps =>
           /\ r.op = "enable" => r.row.secret # None
           /\ r.row.secret = user[r.user].secret
           /\ r.row.totp = user[r.user].totp
  PROVE  AuthInv'
<1>1. /\ call' \in [Calls -> CallStates]
      /\ \A d \in Calls : call'[d] = IF d = c THEN r ELSE call[d]
  BY CallMoves DEF AuthInv
<1>2. /\ user' = user /\ session' = session /\ token' = token /\ spentBy' = spentBy
      /\ spared' = spared /\ confirmed' = confirmed /\ raced' = raced
  BY DEF Rows, History
<1>3. TypeOK'
  BY <1>1, <1>2 DEF AuthInv, TypeOK, CallStates
<1>4. Known'
  BY <1>1, <1>2 DEF AuthInv, Known, Loaded
<1>5. SessionsInv'
  BY <1>1, <1>2 DEF AuthInv, SessionsInv, SessionsAreCurrent, Standing, Loaded
<1>6. TokensInv'
  BY <1>1, <1>2 DEF AuthInv, TokensInv, Loaded, TypeOK
<1>7. FactorInv'
  BY <1>1, <1>2 DEF AuthInv, FactorInv, FactorConfirmed
<1> QED BY <1>3, <1>4, <1>5, <1>6, <1>7 DEF AuthInv

LEMMA EndKeeps ==
  ASSUME AuthInv, NEW c \in Calls, NEW at \in {"done", "refused", "failed"}, End(c, at),
         call[c].at # "done", UNCHANGED <<Rows, History>>
  PROVE  AuthInv'
<1> DEFINE r == [op |-> "none", at |-> at, user |-> None, ref |-> None, row |-> NoUser,
                 spent |-> call[c].spent]
<1>1. r \in CallStates /\ r.at = at
  BY NoUserIsRow DEF AuthInv, TypeOK, CallStates, Ops
<1>2. call' = [call EXCEPT ![c] = r]
  BY DEF End
<1>3. r.at \notin {"idle", "resolved", "loaded"}
  BY <1>1
<1> HIDE DEF r
<1> QED BY <1>1, <1>2, <1>3, CallKeeps

LEMMA RefuseKeeps ==
  ASSUME AuthInv, NEW c \in Calls, Refuse(c)
  PROVE  AuthInv'
BY EndKeeps DEF Refuse, Idle

-----------------------------------------------------------------------------
(* The steps at which a call only loads rows.                              *)

LEMMA RegisterChecksKeeps ==
  ASSUME AuthInv, NEW c \in Calls, NEW u \in Emails, NEW p \in Phones \cup {None},
         RegisterChecks(c, u, p)
  PROVE  AuthInv'
<1>1. CASE Refuse(c)
  BY <1>1, RefuseKeeps
<1>2. CASE ~Refuse(c)
  <2> DEFINE row == [NoUser EXCEPT !.is = TRUE, !.password = c, !.phone = p]
             r == [op |-> "register", at |-> "loaded", user |-> u, ref |-> None, row |-> row,
                   spent |-> {}]
  <2>1. row \in UserRows /\ row.is /\ ~row.totp
    BY NoUserIsRow DEF UserRows, NoUser
  <2>2. /\ r \in CallStates /\ r.at = "loaded" /\ r.op = "register" /\ r.user = u
        /\ r.row.is /\ ~r.row.totp
    BY <2>1 DEF CallStates, Ops
  <2>3. /\ call[c].at = "idle" /\ call' = [call EXCEPT ![c] = r]
        /\ UNCHANGED <<Rows, History>>
    BY <1>2 DEF RegisterChecks, Begin, Idle
  <2>4. r.op \notin {"login"} \cup TokenOps \cup FactorOps
    BY <2>2 DEF TokenOps, FactorOps
  <2> HIDE DEF r
  <2> QED BY <2>2, <2>3, <2>4, CallKeeps
<1> QED BY <1>1, <1>2

LEMMA LoginLoadsKeeps ==
  ASSUME AuthInv, NEW c \in Calls, NEW u \in Emails, LoginLoads(c, u)
  PROVE  AuthInv'
<1> DEFINE r == [op |-> "login", at |-> "loaded", user |-> u, ref |-> None, row |-> user[u],
                 spent |-> {}]
<1>1. /\ r \in CallStates /\ r.at = "loaded" /\ r.op = "login" /\ r.user = u
      /\ r.row = user[u]
  BY DEF AuthInv, TypeOK, CallStates, Ops
<1>2. /\ call[c].at = "idle" /\ call' = [call EXCEPT ![c] = r]
      /\ user[u].is /\ UNCHANGED <<Rows, History>>
  BY DEF LoginLoads, Begin, Idle
<1>3. r.op \notin {"register"} \cup TokenOps \cup FactorOps
  BY <1>1 DEF TokenOps, FactorOps
<1> HIDE DEF r
<1> QED BY <1>1, <1>2, <1>3, CallKeeps

LEMMA ResolveKeeps ==
  ASSUME AuthInv, NEW c \in Calls, NEW op \in SessionOps, NEW s \in Calls, Resolve(c, op, s)
  PROVE  AuthInv'
<1>1. CASE Refuse(c)
  BY <1>1, RefuseKeeps
<1>2. CASE ~Refuse(c)
  <2> DEFINE u == session[s].user
             r == [op |-> op, at |-> "resolved", user |-> u, ref |-> s, row |-> NoUser,
                   spent |-> {}]
  <2>1. /\ call[c].at = "idle" /\ call' = [call EXCEPT ![c] = r]
        /\ session[s].state = "live" /\ UNCHANGED <<Rows, History>>
    BY <1>2 DEF Resolve, Begin, Idle
  <2>2. u \in Emails /\ user[u].is
    BY <2>1 DEF AuthInv, Known
  <2>3. r \in CallStates /\ r.at = "resolved" /\ r.user = u
    BY <2>2, NoUserIsRow DEF CallStates, Ops
  <2> HIDE DEF r, u
  <2> QED BY <2>1, <2>2, <2>3, CallKeeps
<1> QED BY <1>1, <1>2

LEMMA TokenLoadsKeeps ==
  ASSUME AuthInv, NEW c \in Calls, NEW t \in Calls,
         NEW op \in {"email_verify", "password_reset"}, TokenLoads(c, t, op)
  PROVE  AuthInv'
<1>1. CASE Refuse(c)
  BY <1>1, RefuseKeeps
<1>2. CASE ~Refuse(c)
  <2> DEFINE u == token[t].user
             r == [op |-> op, at |-> "loaded", user |-> u, ref |-> t, row |-> NoUser,
                   spent |-> spentBy[t]]
  <2>1. /\ call[c].at = "idle" /\ call' = [call EXCEPT ![c] = r]
        /\ token[t].state = "fresh" /\ token[t].purpose = op /\ UNCHANGED <<Rows, History>>
    BY <1>2 DEF TokenLoads, Begin, Idle
  <2>2. u \in Emails /\ user[u].is
    BY <2>1 DEF AuthInv, Known
  <2>3. spentBy[t] = {}
    BY <2>1 DEF AuthInv, TokensInv
  <2>4. /\ r \in CallStates /\ r.at = "loaded" /\ r.user = u /\ r.op = op /\ r.ref = t
        /\ r.spent = {}
    BY <2>2, <2>3, NoUserIsRow DEF CallStates, Ops
  <2>5. r.op \notin {"register", "login"} \cup FactorOps
    BY <2>4 DEF FactorOps
  <2> HIDE DEF r, u
  <2> QED BY <2>1, <2>2, <2>4, <2>5, CallKeeps
<1> QED BY <1>1, <1>2

LEMMA OtpLoadsKeeps ==
  ASSUME AuthInv, NEW c \in Calls, NEW p \in Phones, NEW k \in Codes, OtpLoads(c, p, k)
  PROVE  AuthInv'
<1>1. CASE Refuse(c)
  BY <1>1, RefuseKeeps
<1>2. CASE Idle(c) /\ End(c, "failed") /\ UNCHANGED <<Rows, History>>
  BY <1>2, EndKeeps DEF Idle
<1>3. ASSUME NEW t \in Calls, token[t].state = "fresh", UNCHANGED <<Rows, History>>,
             Begin(c, "phone_otp", "loaded", None, t, NoUser, spentBy[t])
      PROVE  AuthInv'
  <2> DEFINE r == [op |-> "phone_otp", at |-> "loaded", user |-> None, ref |-> t,
                   row |-> NoUser, spent |-> spentBy[t]]
  <2>1. spentBy[t] = {}
    BY <1>3 DEF AuthInv, TokensInv
  <2>2. /\ r \in CallStates /\ r.at = "loaded" /\ r.op = "phone_otp" /\ r.ref = t
        /\ r.spent = {}
    BY <2>1, NoUserIsRow DEF CallStates, Ops
  <2>3. call[c].at = "idle" /\ call' = [call EXCEPT ![c] = r]
    BY <1>3 DEF Begin, Idle
  <2>4. r.op \notin {"register", "login"} \cup FactorOps
    BY <2>2 DEF FactorOps
  <2> HIDE DEF r
  <2> QED BY <1>3, <2>2, <2>3, <2>4, CallKeeps
<1> QED BY <1>1, <1>2, <1>3 DEF OtpLoads

LEMMA FactorLoadsKeeps ==
  ASSUME AuthInv, NEW c \in Calls, FactorLoads(c)
  PROVE  AuthInv'
<1> DEFINE u == call[c].user
           r == [op |-> call[c].op, at |-> "loaded", user |-> u, ref |-> call[c].ref,
                 row |-> user[u], spent |-> {}]
<1>1. /\ call[c].at = "resolved" /\ call[c].op \in FactorOps
      /\ call[c].op = "enable" => user[u].secret # None
      /\ call' = [call EXCEPT ![c] = r] /\ UNCHANGED <<Rows, History>>
  BY DEF FactorLoads
<1>2. u \in Emails /\ user[u].is
  BY <1>1 DEF AuthInv, Known, FactorOps
<1>3. /\ r \in CallStates /\ r.at = "loaded" /\ r.op = call[c].op /\ r.user = u
      /\ r.row = user[u]
  BY <1>2 DEF AuthInv, TypeOK, CallStates
<1>4. r.op \notin {"register", "login"} \cup TokenOps
  BY <1>1, <1>3 DEF FactorOps, TokenOps
<1> HIDE DEF r, u
<1> QED BY <1>1, <1>2, <1>3, <1>4, CallKeeps

-----------------------------------------------------------------------------
(* The steps that change rows.                                             *)

\* A call that ends, and spends no token.
LEMMA TokensKept ==
  ASSUME TokensInv, NEW c \in Calls, call[c].at # "done", call'[c].at = "done",
         call'[c].op = "none", \A d \in Calls : d # c => call'[d] = call[d],
         \A t \in Calls : spentBy[t] \subseteq Calls, spentBy' = spentBy,
         \A t \in Calls : t # c => token'[t] = token[t],
         token'[c] = token[c] \/ (token[c].state = "none" /\ token'[c].state # "none")
  PROVE  TokensInv'
<1>1. ASSUME NEW t \in Calls, token'[t].state # "used"
      PROVE  spentBy'[t] = {}
  BY <1>1 DEF TokensInv
<1>2. ASSUME NEW d \in Calls, (call[d].at = "idle" \/ Loaded(d, "register"))'
      PROVE  token'[d].state = "none"
  <2>1. d # c
    BY <1>2 DEF Loaded
  <2> QED BY <1>2, <2>1 DEF TokensInv, Loaded
<1>3. ASSUME NEW d \in Calls, call'[d].at = "loaded", call'[d].op \in TokenOps
      PROVE  /\ call'[d].ref \in Calls /\ call'[d].spent = {}
             /\ token'[call'[d].ref].state # "none"
  <2>1. d # c
    BY <1>3
  <2> QED BY <1>3, <2>1 DEF TokensInv
<1>4. ASSUME NEW t \in Calls, NEW d \in spentBy'[t]
      PROVE  call'[d].at = "done" /\ call'[d].spent = {}
  <2>1. d # c /\ d \in Calls
    BY <1>4 DEF TokensInv
  <2> QED BY <1>4, <2>1 DEF TokensInv
<1> QED BY <1>1, <1>2, <1>3, <1>4 DEF TokensInv

LEMMA RegisterInsertsKeeps ==
  ASSUME AuthInv, NEW c \in Calls, RegisterInserts(c)
  PROVE  AuthInv'
<1> DEFINE u == call[c].user
<1>1. /\ call' \in [Calls -> CallStates]
      /\ call'[c].at = "done" /\ call'[c].op = "none" /\ call'[c].spent = call[c].spent
      /\ \A d \in Calls : d # c => call'[d] = call[d]
  BY CallEnds DEF RegisterInserts, AuthInv
<1>2. /\ session' = session /\ spentBy' = spentBy /\ spared' = spared
      /\ confirmed' = confirmed /\ raced' = raced
      /\ user' = [user EXCEPT ![u] = call[c].row]
      /\ token' = [token EXCEPT ![c] =
           [purpose |-> "email_verify", user |-> u, phone |-> None, code |-> None,
            state |-> "fresh"]]
  BY DEF RegisterInserts, History
<1>3. /\ u \in Emails /\ ~user[u].is /\ call[c].row \in UserRows
      /\ call[c].row.is /\ ~call[c].row.totp
      /\ token[c].state = "none"
  BY DEF RegisterInserts, AuthInv, Known, TokensInv, TypeOK
<1> HIDE DEF u
<1>4. TypeOK'
  BY <1>1, <1>2, <1>3 DEF AuthInv, TypeOK, CallStates
<1>5. Known'
  BY ZenonT(120), <1>1, <1>2, <1>3 DEF AuthInv, Known, TypeOK, Loaded
<1>6. SessionsInv'
  <2>1. \A v \in Emails : v # u => user'[v] = user[v]
    BY <1>2, <1>3 DEF AuthInv, TypeOK
  <2>2. \A s \in Calls : Standing(s) => session[s].user # u /\ session[s].user \in Emails
    BY <1>3 DEF AuthInv, Known, Standing
  <2>3. \A d \in Calls : Loaded(d, "login")' =>
          call'[d] = call[d] /\ call[d].user # u /\ call[d].user \in Emails
    BY <1>1, <1>3 DEF AuthInv, Known, Loaded
  <2> QED BY <1>2, <2>1, <2>2, <2>3 DEF AuthInv, SessionsInv, SessionsAreCurrent, Standing, Loaded
<1>7. TokensInv'
  BY <1>1, <1>2, <1>3, TokensKept DEF AuthInv, TypeOK, Loaded, RegisterInserts
<1>8. FactorInv'
  <2>1. \A v \in Emails : v # u => user'[v] = user[v]
    BY <1>2, <1>3 DEF AuthInv, TypeOK
  <2>2. ~user'[u].totp
    BY <1>2, <1>3 DEF AuthInv, TypeOK
  <2>3. \A d \in Calls : call'[d].at = "loaded" /\ call'[d].op \in FactorOps =>
          call'[d] = call[d] /\ call[d].user # u /\ call[d].user \in Emails
    BY <1>1, <1>3 DEF AuthInv, Known, FactorOps
  <2> QED BY <1>2, <2>1, <2>2, <2>3 DEF AuthInv, FactorInv, FactorConfirmed
<1> QED BY <1>4, <1>5, <1>6, <1>7, <1>8 DEF AuthInv

LEMMA LoginCommitsKeeps ==
  ASSUME AuthInv, NEW c \in Calls, LoginCommits(c)
  PROVE  AuthInv'
<1> DEFINE u == call[c].user
<1>1. /\ call' \in [Calls -> CallStates]
      /\ call'[c].at = "done" /\ call'[c].op = "none" /\ call'[c].spent = call[c].spent
      /\ \A d \in Calls : d # c => call'[d] = call[d]
  BY CallEnds DEF LoginCommits, AuthInv
<1>2. /\ user' = user /\ token' = token /\ spentBy' = spentBy /\ spared' = spared
      /\ confirmed' = confirmed /\ raced' = raced
      /\ session' = [session EXCEPT ![c] =
           [user |-> u, state |-> "live", password |-> call[c].row.password]]
  BY DEF LoginCommits, History
<1>3. /\ Loaded(c, "login") /\ u \in Emails /\ user[u].is
      /\ call[c].row.password \in Calls \cup {None}
      /\ call[c].row.password = user[u].password \/ c \in spared
  BY DEF LoginCommits, AuthInv, Known, SessionsInv, TypeOK, Loaded, UserRows
<1> HIDE DEF u
<1>4. TypeOK'
  BY <1>1, <1>2, <1>3 DEF AuthInv, TypeOK, CallStates
<1>5. Known'
  BY ZenonT(120), <1>1, <1>2, <1>3 DEF AuthInv, Known, TypeOK, Loaded
<1>6. SessionsInv'
  BY SMTT(90), <1>1, <1>2, <1>3 DEF AuthInv, SessionsInv, SessionsAreCurrent, TypeOK, Standing, Loaded
<1>7. TokensInv'
  <2>1. TokensInv /\ \A t \in Calls : spentBy[t] \subseteq Calls
    BY DEF AuthInv, TypeOK
  <2>2. call[c].at # "done"
    BY <1>3 DEF Loaded
  <2> QED BY <1>1, <1>2, <2>1, <2>2, TokensKept
<1>8. FactorInv'
  BY <1>1, <1>2 DEF AuthInv, FactorInv, FactorConfirmed, FactorOps
<1> QED BY <1>4, <1>5, <1>6, <1>7, <1>8 DEF AuthInv

\* A step of a call that changes sessions only to revoke some.
LEMMA RevokingKeeps ==
  ASSUME AuthInv, NEW c \in Calls, End(c, "done"), call[c].at \in {"idle", "resolved"},
         UNCHANGED <<user, token, History>>, session' = [s \in Calls |-> session'[s]],
         \A s \in Calls :
           \/ session'[s] = session[s]
           \/ session[s].state # "none" /\ session'[s] = Revoked(s)
  PROVE  AuthInv'
<1>1. /\ call' \in [Calls -> CallStates]
      /\ call'[c].at = "done" /\ call'[c].op = "none" /\ call'[c].spent = call[c].spent
      /\ \A d \in Calls : d # c => call'[d] = call[d]
  BY CallEnds DEF AuthInv
<1>2. /\ user' = user /\ token' = token /\ spentBy' = spentBy /\ spared' = spared
      /\ confirmed' = confirmed /\ raced' = raced
  BY DEF History
<1>3. TypeOK'
  BY <1>1, <1>2 DEF AuthInv, TypeOK, CallStates, Revoked
<1>4. Known'
  BY <1>1, <1>2 DEF AuthInv, Known, Loaded, Revoked
<1>5. SessionsInv'
  BY <1>1, <1>2 DEF AuthInv, SessionsInv, SessionsAreCurrent, Standing, Loaded, Revoked
<1>6. TokensInv'
  <2>1. TokensInv /\ \A t \in Calls : spentBy[t] \subseteq Calls
    BY DEF AuthInv, TypeOK
  <2> QED BY <1>1, <1>2, <2>1, TokensKept
<1>7. FactorInv'
  BY <1>1, <1>2 DEF AuthInv, FactorInv, FactorConfirmed, FactorOps
<1> QED BY <1>3, <1>4, <1>5, <1>6, <1>7 DEF AuthInv

LEMMA LogoutKeeps ==
  ASSUME AuthInv, NEW c \in Calls, NEW s \in Calls, Logout(c, s)
  PROVE  AuthInv'
<1>1. /\ session' = [z \in Calls |-> session'[z]]
      /\ \A z \in Calls :
           session'[z] = session[z] \/ (session[z].state # "none" /\ session'[z] = Revoked(z))
  BY DEF Logout, AuthInv, TypeOK
<1> QED BY <1>1, RevokingKeeps DEF Logout, Idle

LEMMA LogoutAllKeeps ==
  ASSUME AuthInv, NEW c \in Calls, LogoutAll(c)
  PROVE  AuthInv'
<1>1. /\ session' = [z \in Calls |-> session'[z]]
      /\ \A z \in Calls :
           session'[z] = session[z] \/ (session[z].state # "none" /\ session'[z] = Revoked(z))
  BY DEF LogoutAll, SessionsOf, Standing
<1> QED BY <1>1, RevokingKeeps DEF LogoutAll

\* A call that draws a token, and ends.
LEMMA RequestKeeps ==
  ASSUME AuthInv, NEW c \in Calls, Idle(c), End(c, "done"),
         NEW row \in [purpose : {"password_reset", "phone_otp"},
                       user : Emails \cup {None}, phone : Phones \cup {None},
                       code : Codes \cup {None}, state : {"fresh"}],
         row.purpose = "password_reset" => row.user \in Emails /\ user[row.user].is,
         token' = [token EXCEPT ![c] = row], UNCHANGED <<user, session, History>>
  PROVE  AuthInv'
<1>1. /\ call' \in [Calls -> CallStates]
      /\ call'[c].at = "done" /\ call'[c].op = "none" /\ call'[c].spent = call[c].spent
      /\ \A d \in Calls : d # c => call'[d] = call[d]
  BY CallEnds DEF AuthInv
<1>2. /\ user' = user /\ session' = session /\ spentBy' = spentBy /\ spared' = spared
      /\ confirmed' = confirmed /\ raced' = raced
  BY DEF History
<1>3. /\ token'[c] = row
      /\ \A t \in Calls : t # c => token'[t] = token[t]
  BY DEF AuthInv, TypeOK
<1>4. TypeOK'
  BY <1>1, <1>2 DEF AuthInv, TypeOK, CallStates
<1>5. Known'
  BY <1>1, <1>2, <1>3 DEF AuthInv, Known, Loaded
<1>6. SessionsInv'
  BY <1>1, <1>2 DEF AuthInv, SessionsInv, SessionsAreCurrent, Standing, Loaded
<1>7. TokensInv'
  <2>1. TokensInv /\ \A t \in Calls : spentBy[t] \subseteq Calls
    BY DEF AuthInv, TypeOK
  <2>2. call[c].at # "done" /\ token[c].state = "none" /\ token'[c].state # "none"
    BY <2>1, <1>3 DEF Idle, TokensInv
  <2> QED BY <1>1, <1>2, <1>3, <2>1, <2>2, TokensKept
<1>8. FactorInv'
  BY <1>1, <1>2 DEF AuthInv, FactorInv, FactorConfirmed, FactorOps
<1> QED BY <1>4, <1>5, <1>6, <1>7, <1>8 DEF AuthInv

LEMMA RequestResetKeeps ==
  ASSUME AuthInv, NEW c \in Calls, NEW u \in Emails, RequestReset(c, u)
  PROVE  AuthInv'
<1>1. CASE Refuse(c)
  BY <1>1, RefuseKeeps
<1>2. CASE ~Refuse(c)
  <2> DEFINE row == [purpose |-> "password_reset", user |-> u, phone |-> None,
                     code |-> None, state |-> "fresh"]
  <2>1. /\ user[u].is /\ Idle(c) /\ End(c, "done") /\ token' = [token EXCEPT ![c] = row]
        /\ UNCHANGED <<user, session, History>>
    BY <1>2 DEF RequestReset
  <2>2. row.user = u
    OBVIOUS
  <2> QED BY <2>1, <2>2, RequestKeeps
<1> QED BY <1>1, <1>2

LEMMA RequestOtpKeeps ==
  ASSUME AuthInv, NEW c \in Calls, NEW p \in Phones, NEW k \in Codes, RequestOtp(c, p, k)
  PROVE  AuthInv'
<1> DEFINE row == [purpose |-> "phone_otp", user |-> None, phone |-> p, code |-> k,
                   state |-> "fresh"]
<1>1. row.purpose # "password_reset"
  OBVIOUS
<1> QED BY <1>1, RequestKeeps DEF RequestOtp

\* A call that spends the token it has loaded.
LEMMA TokensSpent ==
  ASSUME AuthInv, NEW c \in Calls, call[c].at = "loaded", call[c].op \in TokenOps,
         SpendToken(c)
  PROVE  /\ TokensInv'
         /\ spentBy' \in [Calls -> SUBSET Calls]
         /\ token' \in [Calls -> TokenRows]
         /\ \A t \in Calls : token'[t].purpose = token[t].purpose /\ token'[t].user = token[t].user
<1> DEFINE r == call[c].ref
<1>1. r \in Calls /\ call[c].spent = {} /\ token[r].state # "none"
  BY DEF AuthInv, TokensInv
<1>2. /\ call'[c].at = "done" /\ call'[c].op = "none" /\ call'[c].spent = {}
      /\ \A d \in Calls : d # c => call'[d] = call[d]
  BY <1>1, CallEnds DEF SpendToken, AuthInv
<1>3. token' = [token EXCEPT ![r].state = "used"] /\ spentBy' = [spentBy EXCEPT ![r] = @ \cup {c}]
  BY DEF SpendToken, Spent
<1> HIDE DEF r
<1>4. /\ token'[r].state = "used" /\ spentBy'[r] = spentBy[r] \cup {c}
      /\ \A t \in Calls : t # r => token'[t] = token[t] /\ spentBy'[t] = spentBy[t]
  BY <1>1, <1>3 DEF AuthInv, TypeOK
<1>5. ASSUME NEW t \in Calls, token'[t].state # "used"
      PROVE  spentBy'[t] = {}
  BY <1>4, <1>5 DEF AuthInv, TokensInv
<1>6. ASSUME NEW d \in Calls, (call[d].at = "idle" \/ Loaded(d, "register"))'
      PROVE  token'[d].state = "none"
  <2>1. d # c
    BY <1>2, <1>6 DEF Loaded
  <2>2. token[d].state = "none"
    BY <1>2, <1>6, <2>1 DEF AuthInv, TokensInv, Loaded
  <2> QED BY <1>1, <1>4, <2>2
<1>7. ASSUME NEW d \in Calls, call'[d].at = "loaded", call'[d].op \in TokenOps
      PROVE  /\ call'[d].ref \in Calls /\ call'[d].spent = {}
             /\ token'[call'[d].ref].state # "none"
  <2>1. d # c
    BY <1>2, <1>7
  <2>2. call[d].ref \in Calls /\ call[d].spent = {} /\ token[call[d].ref].state # "none"
    BY <1>2, <1>7, <2>1 DEF AuthInv, TokensInv
  <2> QED BY <1>2, <1>4, <2>1, <2>2
<1>8. ASSUME NEW t \in Calls, NEW d \in spentBy'[t]
      PROVE  call'[d].at = "done" /\ call'[d].spent = {}
  <2>1. d = c \/ d \in spentBy[t]
    BY <1>4, <1>8
  <2>2. d \in Calls
    BY <2>1 DEF AuthInv, TypeOK
  <2> QED BY <1>2, <2>1, <2>2 DEF AuthInv, TokensInv
<1>9. TokensInv'
  BY <1>5, <1>6, <1>7, <1>8 DEF TokensInv
<1>10. /\ spentBy' \in [Calls -> SUBSET Calls]
       /\ \A t \in Calls : token'[t].purpose = token[t].purpose /\ token'[t].user = token[t].user
  BY <1>1, <1>3 DEF AuthInv, TypeOK
<1>11. token' \in [Calls -> TokenRows]
  <2>1. token \in [Calls -> TokenRows]
    BY DEF AuthInv, TypeOK, TokenRows
  <2> QED BY <1>1, <1>3, <2>1 DEF TokenRows
<1> QED BY <1>9, <1>10, <1>11

\* A call that spends a token and marks an address, or a phone, as verified.
LEMMA VerifyKeeps ==
  ASSUME AuthInv, NEW c \in Calls, call[c].at = "loaded", call[c].op \in TokenOps,
         SpendToken(c), user' \in [Emails -> UserRows],
         \A v \in Emails :
           /\ user'[v].is = user[v].is /\ user'[v].password = user[v].password
           /\ user'[v].secret = user[v].secret /\ user'[v].totp = user[v].totp,
         UNCHANGED <<session, spared, confirmed, raced>>
  PROVE  AuthInv'
<1>1. /\ call' \in [Calls -> CallStates]
      /\ call'[c].at = "done" /\ call'[c].op = "none" /\ call'[c].spent = call[c].spent
      /\ \A d \in Calls : d # c => call'[d] = call[d]
  BY CallEnds DEF SpendToken, AuthInv
<1>2. TypeOK'
  BY <1>1, TokensSpent DEF AuthInv, TypeOK, CallStates, TokenRows
<1>3. Known'
  BY SMTT(60), <1>1, TokensSpent DEF AuthInv, Known, Loaded
<1>4. SessionsInv'
  <2>1. \A s \in Calls : Standing(s) => session[s].user \in Emails
    BY DEF AuthInv, Known, Standing
  <2>2. \A d \in Calls : Loaded(d, "login") => call[d].user \in Emails
    BY DEF AuthInv, Known, Loaded
  <2> QED BY <1>1, <2>1, <2>2 DEF AuthInv, SessionsInv, SessionsAreCurrent, Standing, Loaded
<1>5. FactorInv'
  <2>1. \A d \in Calls : call[d].at = "loaded" /\ call[d].op \in FactorOps =>
          call[d].user \in Emails
    BY DEF AuthInv, Known, FactorOps
  <2> QED BY <1>1, <2>1 DEF AuthInv, FactorInv, FactorConfirmed
<1> QED BY <1>2, <1>3, <1>4, <1>5, TokensSpent DEF AuthInv

LEMMA VerifyEmailKeeps ==
  ASSUME AuthInv, NEW c \in Calls, VerifyEmail(c)
  PROVE  AuthInv'
<1> DEFINE u == call[c].user
<1>1. /\ call[c].at = "loaded" /\ call[c].op \in TokenOps /\ SpendToken(c)
      /\ user' = [user EXCEPT ![u].email = TRUE]
      /\ UNCHANGED <<session, spared, confirmed, raced>>
  BY DEF VerifyEmail, Loaded, TokenOps
<1>2. user \in [Emails -> UserRows]
  BY DEF AuthInv, TypeOK
<1> HIDE DEF u
<1>3. /\ user' \in [Emails -> UserRows]
      /\ \A v \in Emails :
           /\ user'[v].is = user[v].is /\ user'[v].password = user[v].password
           /\ user'[v].secret = user[v].secret /\ user'[v].totp = user[v].totp
  BY ZenonT(120), <1>1, <1>2 DEF UserRows
<1> QED BY <1>1, <1>3, VerifyKeeps

LEMMA VerifyOtpKeeps ==
  ASSUME AuthInv, NEW c \in Calls, VerifyOtp(c)
  PROVE  AuthInv'
<1> DEFINE p == token[call[c].ref].phone
<1>1. /\ call[c].at = "loaded" /\ call[c].op \in TokenOps /\ SpendToken(c)
      /\ UNCHANGED <<session, spared, confirmed, raced>>
      /\ \/ user' = user
         \/ \E u \in Emails : user' = [user EXCEPT ![u] = [@ EXCEPT !.phone = p, !.phoneOk = TRUE]]
  BY DEF VerifyOtp, Loaded, TokenOps
<1>2. user \in [Emails -> UserRows] /\ p \in Phones \cup {None}
  BY <1>1 DEF AuthInv, TypeOK, TokensInv
<1> HIDE DEF p
<1>3. /\ user' \in [Emails -> UserRows]
      /\ \A v \in Emails :
           /\ user'[v].is = user[v].is /\ user'[v].password = user[v].password
           /\ user'[v].secret = user[v].secret /\ user'[v].totp = user[v].totp
  <2>1. CASE user' = user
    BY <1>2, <2>1
  <2>2. ASSUME NEW u \in Emails, user' = [user EXCEPT ![u] = [@ EXCEPT !.phone = p, !.phoneOk = TRUE]]
        PROVE  /\ user' \in [Emails -> UserRows]
               /\ \A v \in Emails :
                    /\ user'[v].is = user[v].is /\ user'[v].password = user[v].password
                    /\ user'[v].secret = user[v].secret /\ user'[v].totp = user[v].totp
    BY ZenonT(120), <1>2, <2>2 DEF UserRows
  <2> QED BY <1>1, <2>1, <2>2
<1> QED BY <1>1, <1>3, VerifyKeeps

LEMMA ResetPasswordKeeps ==
  ASSUME AuthInv, NEW c \in Calls, ResetPassword(c)
  PROVE  AuthInv'
<1> DEFINE u == call[c].user
<1>1. /\ call' \in [Calls -> CallStates]
      /\ call'[c].at = "done" /\ call'[c].op = "none" /\ call'[c].spent = call[c].spent
      /\ \A d \in Calls : d # c => call'[d] = call[d]
  BY CallEnds DEF ResetPassword, SpendToken, AuthInv
<1>2. /\ call[c].at = "loaded" /\ call[c].op \in TokenOps /\ SpendToken(c)
      /\ user' = [user EXCEPT ![u].password = c]
      /\ session' = [s \in Calls |-> IF s \in SessionsOf(u) THEN Revoked(s) ELSE session[s]]
      /\ spared' = spared \cup UnderWay({"login"}, u)
      /\ confirmed' = confirmed /\ raced' = raced
  BY DEF ResetPassword, Loaded, TokenOps
<1>3. u \in Emails
  BY DEF ResetPassword, Loaded, AuthInv, Known
<1> HIDE DEF u
<1>4. /\ user' \in [Emails -> UserRows]
      /\ \A v \in Emails :
           /\ user'[v].is = user[v].is /\ user'[v].secret = user[v].secret
           /\ user'[v].totp = user[v].totp
           /\ v # u => user'[v].password = user[v].password
  <2>1. user \in [Emails -> UserRows]
    BY DEF AuthInv, TypeOK
  <2> QED BY <1>2, <1>3, <2>1 DEF UserRows
<1>5. \A s \in Calls :
        /\ session'[s].user = session[s].user /\ session'[s].password = session[s].password
        /\ session'[s].state # "none" => session[s].state # "none"
        /\ Standing(s)' => Standing(s) /\ session[s].user # u
  BY <1>2 DEF SessionsOf, Standing, Revoked
<1>6. TypeOK'
  <2>1. session' \in [Calls -> SessionRows]
    BY <1>2 DEF AuthInv, TypeOK, Revoked, SessionRows
  <2>2. spared' \subseteq Calls
    BY <1>2 DEF AuthInv, TypeOK, UnderWay
  <2> QED BY <1>1, <1>2, <1>4, <2>1, <2>2, TokensSpent DEF AuthInv, TypeOK, CallStates, TokenRows,
                                                              SessionRows
<1>7. Known'
  <2>1. \A t \in Calls : token'[t].purpose = token[t].purpose /\ token'[t].user = token[t].user
    BY <1>2, TokensSpent
  <2> QED BY <1>1, <1>4, <1>5, <2>1 DEF AuthInv, Known, Loaded
<1>8. SessionsInv'
  <2>1. \A s \in Calls : Standing(s) => session[s].user \in Emails
    BY DEF AuthInv, Known, Standing
  <2>2. \A d \in Calls : Loaded(d, "login")' =>
          /\ call'[d] = call[d] /\ Loaded(d, "login") /\ call[d].user \in Emails
          /\ call[d].user = u => d \in spared'
    BY <1>1, <1>2 DEF AuthInv, Known, Loaded, UnderWay
  <2> QED BY <1>2, <1>4, <1>5, <2>1, <2>2 DEF AuthInv, SessionsInv, SessionsAreCurrent
<1>9. FactorInv'
  <2>1. \A d \in Calls : call[d].at = "loaded" /\ call[d].op \in FactorOps =>
          call[d].user \in Emails
    BY DEF AuthInv, Known, FactorOps
  <2> QED BY <1>1, <1>2, <1>4, <2>1 DEF AuthInv, FactorInv, FactorConfirmed
<1> QED BY <1>2, <1>6, <1>7, <1>8, <1>9, TokensSpent DEF AuthInv

\* A change of the second factor: the other changes under way have raced with it.
LEMMA FactorKeeps ==
  ASSUME AuthInv, NEW c \in Calls, call[c].at = "loaded", call[c].op \in FactorOps,
         NEW secret \in Calls \cup {None}, NEW totp \in BOOLEAN,
         FactorCommits(c, secret, totp),
         confirmed \subseteq confirmed', confirmed' \subseteq Calls,
         call[c].user \in raced \/ (totp => secret \in confirmed')
  PROVE  AuthInv'
<1> DEFINE u == call[c].user
<1>1. /\ call' \in [Calls -> CallStates]
      /\ call'[c].at = "done" /\ call'[c].op = "none" /\ call'[c].spent = call[c].spent
      /\ \A d \in Calls : d # c => call'[d] = call[d]
  BY CallEnds DEF FactorCommits, AuthInv
<1>2. /\ user' = [user EXCEPT ![u] = [@ EXCEPT !.secret = secret, !.totp = totp]]
      /\ session' = session /\ token' = token /\ spentBy' = spentBy /\ spared' = spared
      /\ raced' = IF UnderWay(FactorOps, u) = {c} THEN raced ELSE raced \cup {u}
      /\ u \in raced \/ (totp => secret \in confirmed')
  BY DEF FactorCommits
<1>3. u \in Emails
  BY DEF AuthInv, Known, FactorOps
<1> HIDE DEF u
<1>4. /\ user' \in [Emails -> UserRows]
      /\ \A v \in Emails :
           /\ user'[v].is = user[v].is /\ user'[v].password = user[v].password
           /\ v # u => user'[v] = user[v]
      /\ user'[u].secret = secret /\ user'[u].totp = totp
  <2>1. user \in [Emails -> UserRows]
    BY DEF AuthInv, TypeOK
  <2> QED BY ZenonT(120), <1>2, <1>3, <2>1 DEF UserRows
<1>5. TypeOK'
  BY <1>1, <1>2, <1>3, <1>4 DEF AuthInv, TypeOK, CallStates
<1>6. Known'
  BY <1>1, <1>2, <1>4 DEF AuthInv, Known, Loaded
<1>7. SessionsInv'
  <2>1. \A s \in Calls : Standing(s) => session[s].user \in Emails
    BY DEF AuthInv, Known, Standing
  <2>2. \A d \in Calls : Loaded(d, "login") => call[d].user \in Emails
    BY DEF AuthInv, Known, Loaded
  <2> QED BY <1>1, <1>2, <1>4, <2>1, <2>2
          DEF AuthInv, SessionsInv, SessionsAreCurrent, Standing, Loaded
<1>8. TokensInv'
  <2>1. TokensInv /\ \A t \in Calls : spentBy[t] \subseteq Calls
    BY DEF AuthInv, TypeOK
  <2> QED BY <1>1, <1>2, <2>1, TokensKept
<1>9. FactorInv'
  <2>1. ASSUME NEW d \in Calls, call'[d].at = "loaded", call'[d].op \in FactorOps
        PROVE  /\ call'[d].op = "enable" => call'[d].row.secret # None
               /\ \/ call'[d].user \in raced'
                  \/ /\ call'[d].row.secret = user'[call'[d].user].secret
                     /\ call'[d].row.totp = user'[call'[d].user].totp
    <3>1. d # c /\ call'[d] = call[d] /\ call[d].user \in Emails
      BY <1>1, <2>1 DEF AuthInv, Known, FactorOps
    <3>2. CASE call[d].user = u
      <4>1. d \in UnderWay(FactorOps, u)
        BY <2>1, <3>1, <3>2 DEF UnderWay
      <4>2. u \in raced'
        BY <1>2, <3>1, <4>1
      <4> QED BY <2>1, <3>1, <3>2, <4>2 DEF AuthInv, FactorInv
    <3>3. CASE call[d].user # u
      BY <1>2, <1>4, <2>1, <3>1, <3>3 DEF AuthInv, FactorInv
    <3> QED BY <3>2, <3>3
  <2>2. ASSUME NEW v \in Emails, user'[v].totp
        PROVE  user'[v].secret \in confirmed' \/ v \in raced'
    BY <1>2, <1>4, <2>2 DEF AuthInv, FactorInv, FactorConfirmed
  <2> QED BY <2>1, <2>2 DEF FactorInv, FactorConfirmed
<1> QED BY <1>5, <1>6, <1>7, <1>8, <1>9 DEF AuthInv

LEMMA SetupKeeps ==
  ASSUME AuthInv, NEW c \in Calls, Setup(c)
  PROVE  AuthInv'
<1> DEFINE u == call[c].user
           totp == IF call[c].row.totp THEN FALSE ELSE user[u].totp
<1>1. /\ call[c].at = "loaded" /\ call[c].op \in FactorOps
      /\ FactorCommits(c, c, totp) /\ confirmed' = confirmed
  BY DEF Setup, Loaded, FactorOps
<1>2. u \in Emails /\ confirmed \subseteq Calls /\ totp \in BOOLEAN
  BY <1>1 DEF AuthInv, Known, FactorOps, TypeOK, UserRows
<1>3. u \in raced \/ ~totp
  BY <1>1 DEF AuthInv, FactorInv
<1> HIDE DEF totp
<1> QED BY <1>1, <1>2, <1>3, FactorKeeps

LEMMA EnableKeeps ==
  ASSUME AuthInv, NEW c \in Calls, Enable(c)
  PROVE  AuthInv'
<1> DEFINE u == call[c].user
           secret == user[u].secret
           totp == IF call[c].row.totp THEN user[u].totp ELSE TRUE
<1>1. /\ call[c].at = "loaded" /\ call[c].op = "enable" /\ call[c].op \in FactorOps
      /\ FactorCommits(c, secret, totp) /\ confirmed' = confirmed \cup {call[c].row.secret}
  BY DEF Enable, Loaded, FactorOps
<1>2. /\ u \in Emails /\ confirmed \subseteq Calls /\ totp \in BOOLEAN
      /\ secret \in Calls \cup {None} /\ call[c].row.secret \in Calls \cup {None}
  BY <1>1 DEF AuthInv, Known, FactorOps, TypeOK, UserRows
<1>3. call[c].row.secret # None /\ (u \in raced \/ secret = call[c].row.secret)
  BY <1>1 DEF AuthInv, FactorInv
<1> HIDE DEF totp, secret
<1> QED BY <1>1, <1>2, <1>3, FactorKeeps

LEMMA DisableKeeps ==
  ASSUME AuthInv, NEW c \in Calls, Disable(c)
  PROVE  AuthInv'
<1> DEFINE u == call[c].user
           secret == IF call[c].row.secret # None THEN None ELSE user[u].secret
           totp == IF call[c].row.totp THEN FALSE ELSE user[u].totp
<1>1. /\ call[c].at = "loaded" /\ call[c].op \in FactorOps
      /\ FactorCommits(c, secret, totp) /\ confirmed' = confirmed
  BY DEF Disable, Loaded, FactorOps
<1>2. /\ u \in Emails /\ confirmed \subseteq Calls /\ totp \in BOOLEAN
      /\ secret \in Calls \cup {None}
  BY <1>1 DEF AuthInv, Known, FactorOps, TypeOK, UserRows
<1>3. u \in raced \/ ~totp
  BY <1>1 DEF AuthInv, FactorInv
<1> HIDE DEF totp, secret
<1> QED BY <1>1, <1>2, <1>3, FactorKeeps

LEMMA SessionExpiresKeeps ==
  ASSUME AuthInv, NEW s \in Calls, SessionExpires(s)
  PROVE  AuthInv'
<1>1. /\ user' = user /\ token' = token /\ call' = call /\ spentBy' = spentBy
      /\ spared' = spared /\ confirmed' = confirmed /\ raced' = raced
      /\ session[s].state = "live" /\ session' = [session EXCEPT ![s].state = "expired"]
  BY DEF SessionExpires, History
<1>2. TypeOK'
  <2>1. session \in [Calls -> SessionRows]
    BY DEF AuthInv, TypeOK, SessionRows
  <2>2. session' \in [Calls -> SessionRows]
    BY <1>1, <2>1 DEF SessionRows
  <2> QED BY <1>1, <2>2 DEF AuthInv, TypeOK, SessionRows
<1>3. \A z \in Calls :
        /\ session'[z].user = session[z].user /\ session'[z].password = session[z].password
        /\ session'[z].state # "none" => session[z].state # "none"
        /\ Standing(z)' => Standing(z)
  BY <1>1 DEF AuthInv, TypeOK, Standing
<1>4. Known'
  BY <1>1, <1>3 DEF AuthInv, Known, Loaded
<1>5. SessionsInv'
  BY <1>1, <1>3 DEF AuthInv, SessionsInv, SessionsAreCurrent, Loaded
<1>6. TokensInv' /\ FactorInv'
  BY <1>1 DEF AuthInv, TokensInv, FactorInv, FactorConfirmed, Loaded
<1> QED BY <1>2, <1>4, <1>5, <1>6 DEF AuthInv

LEMMA TokenExpiresKeeps ==
  ASSUME AuthInv, NEW t \in Calls, TokenExpires(t)
  PROVE  AuthInv'
<1>1. /\ user' = user /\ session' = session /\ call' = call /\ spentBy' = spentBy
      /\ spared' = spared /\ confirmed' = confirmed /\ raced' = raced
      /\ token[t].state = "fresh" /\ token' = [token EXCEPT ![t].state = "expired"]
  BY DEF TokenExpires, History
<1>2. TypeOK'
  <2>1. token \in [Calls -> TokenRows]
    BY DEF AuthInv, TypeOK, TokenRows
  <2>2. token' \in [Calls -> TokenRows]
    BY <1>1, <2>1 DEF TokenRows
  <2> QED BY <1>1, <2>2 DEF AuthInv, TypeOK, TokenRows
<1>3. \A z \in Calls :
        /\ token'[z].user = token[z].user /\ token'[z].purpose = token[z].purpose
        /\ token'[z].state = "none" <=> token[z].state = "none"
        /\ token'[z].state = "used" <=> token[z].state = "used"
  BY <1>1 DEF AuthInv, TypeOK
<1>4. Known'
  BY <1>1, <1>3 DEF AuthInv, Known, Loaded
<1>5. TokensInv'
  BY <1>1, <1>3 DEF AuthInv, TokensInv, Loaded
<1>6. SessionsInv' /\ FactorInv'
  BY <1>1 DEF AuthInv, SessionsInv, SessionsAreCurrent, FactorInv, FactorConfirmed, Loaded,
              Standing
<1> QED BY <1>2, <1>4, <1>5, <1>6 DEF AuthInv

-----------------------------------------------------------------------------
LEMMA AuthInit == Init => AuthInv
<1> SUFFICES ASSUME Init PROVE AuthInv
  OBVIOUS
<1>1. TypeOK
  BY NoUserIsRow DEF Init, TypeOK, NoSession, NoToken, NoCall, Ops
<1>2. Known
  BY DEF Init, Known, NoSession, NoToken, NoCall, Loaded
<1>3. SessionsInv /\ TokensInv
  BY DEF Init, SessionsInv, SessionsAreCurrent, TokensInv, NoSession, NoToken, NoCall, Loaded,
         Standing
<1>4. FactorInv
  BY DEF Init, FactorInv, FactorConfirmed, NoCall, NoUser
<1> QED BY <1>1, <1>2, <1>3, <1>4 DEF AuthInv

LEMMA CallStepKeeps ==
  ASSUME AuthInv, NEW c \in Calls, CallStep(c)
  PROVE  AuthInv'
<1>1. ASSUME NEW u \in Emails, NEW p \in Phones \cup {None}, RegisterChecks(c, u, p)
      PROVE  AuthInv'
  BY <1>1, RegisterChecksKeeps
<1>2. CASE RegisterInserts(c)
  BY <1>2, RegisterInsertsKeeps
<1>3. CASE RegisterFails(c) \/ VerifyOtpFails(c) \/ FactorRefused(c)
  BY <1>3, EndKeeps DEF RegisterFails, VerifyOtpFails, FactorRefused, Loaded
<1>4. ASSUME NEW u \in Emails, LoginLoads(c, u) \/ RequestReset(c, u)
      PROVE  AuthInv'
  BY <1>4, LoginLoadsKeeps, RequestResetKeeps
<1>5. CASE LoginRefused(c)
  BY <1>5, RefuseKeeps DEF LoginRefused
<1>6. CASE LoginCommits(c)
  BY <1>6, LoginCommitsKeeps
<1>7. ASSUME NEW s \in Calls, Logout(c, s)
      PROVE  AuthInv'
  BY <1>7, LogoutKeeps
<1>8. ASSUME NEW op \in SessionOps, NEW s \in Calls, Resolve(c, op, s)
      PROVE  AuthInv'
  BY <1>8, ResolveKeeps
<1>9. CASE LogoutAll(c)
  BY <1>9, LogoutAllKeeps
<1>10. ASSUME NEW p \in Phones, NEW k \in Codes, RequestOtp(c, p, k) \/ OtpLoads(c, p, k)
       PROVE  AuthInv'
  BY <1>10, RequestOtpKeeps, OtpLoadsKeeps
<1>11. ASSUME NEW t \in Calls, NEW op \in {"email_verify", "password_reset"},
              TokenLoads(c, t, op)
       PROVE  AuthInv'
  BY <1>11, TokenLoadsKeeps
<1>12. CASE VerifyEmail(c) \/ ResetPassword(c) \/ VerifyOtp(c)
  BY <1>12, VerifyEmailKeeps, ResetPasswordKeeps, VerifyOtpKeeps
<1>13. CASE FactorLoads(c)
  BY <1>13, FactorLoadsKeeps
<1>14. CASE Setup(c) \/ Enable(c) \/ Disable(c)
  BY <1>14, SetupKeeps, EnableKeeps, DisableKeeps
<1> QED
  BY <1>1, <1>2, <1>3, <1>4, <1>5, <1>6, <1>7, <1>8, <1>9, <1>10, <1>11, <1>12, <1>13, <1>14
  DEF CallStep

LEMMA AuthNext == AuthInv /\ [Next]_vars => AuthInv'
<1> SUFFICES ASSUME AuthInv, [Next]_vars PROVE AuthInv'
  OBVIOUS
<1>1. CASE UNCHANGED vars
  BY <1>1 DEF vars, AuthInv, TypeOK, Known, SessionsInv, SessionsAreCurrent, TokensInv,
              FactorInv, FactorConfirmed, Loaded, Standing
<1>2. CASE Next
  BY <1>2, CallStepKeeps, SessionExpiresKeeps, TokenExpiresKeeps DEF Next
<1> QED BY <1>1, <1>2

LEMMA AuthInductive == Spec => []AuthInv
BY AuthInit, AuthNext, PTL DEF Spec

-----------------------------------------------------------------------------
\* Every row and every call keeps its shape.
THEOREM AuthTypes == Spec => []TypeOK
<1>1. AuthInv => TypeOK
  BY DEF AuthInv
<1> QED BY <1>1, AuthInductive, PTL

\* After a password reset no session of an earlier password stands, but those of the
\* logins that were under way.
THEOREM AuthReset == Spec => []SessionsAreCurrent
<1>1. AuthInv => SessionsAreCurrent
  BY DEF AuthInv, SessionsInv
<1> QED BY <1>1, AuthInductive, PTL

\* No call that begins after a token was spent spends it again.
THEOREM AuthTokenOnce == Spec => []UsedTokenFails
<1>1. AuthInv => UsedTokenFails
  BY DEF AuthInv, TokensInv, UsedTokenFails
<1> QED BY <1>1, AuthInductive, PTL

\* A second factor that is asked for has been confirmed, but where two changes of it
\* overlapped.
THEOREM AuthFactor == Spec => []FactorConfirmed
<1>1. AuthInv => FactorConfirmed
  BY DEF AuthInv, FactorInv
<1> QED BY <1>1, AuthInductive, PTL
=============================================================================
