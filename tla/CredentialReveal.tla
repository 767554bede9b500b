--------------------------- MODULE CredentialReveal ---------------------------
(***************************************************************************)
(* The one-time claim of a new subscriber's credentials                    *)
(* (credential_reveal_service.py).  A checkout creates a reveal token, the *)
(* webhook that activates the account stashes its credentials, and the     *)
(* subscriber's browser claims them with the token.                        *)
(*                                                                         *)
(* A claim is five Redis commands with nothing atomic around them (GET and *)
(* DEL of the token, GET and DEL of the credentials, or SET of the token   *)
(* if the credentials are not there yet), so claims overlap each other, a  *)
(* stash, and the expiry of either key.                                    *)
(***************************************************************************)
EXTENDS Naturals

CONSTANTS
  Accounts,
  Credentials,   \* portal token and mobile key, named by the call that issued them
  Tokens,        \* reveal tokens (token_urlsafe(32): never drawn twice)
  Claims,        \* calls of POST /claim, POST /reveal and GET /reveal
  None

ASSUME CredentialRevealAssumption ==
  None \notin Accounts \cup Credentials \cup Tokens \cup Claims

VARIABLES
  owner,     \* reveal_token:{t} in Redis: the account, or None
  pending,   \* pending_credentials:{a} in Redis: the credentials, or None
  claim,     \* where each call of reveal is
  made,      \* history: the account each token was created for
  stashed,   \* history: the account each credentials were stashed for
  gone       \* history: tokens lost to their expiry or to a call that failed

revealVars == <<owner, pending, claim, made, stashed, gone>>

NoClaim == [at |-> "idle", tok |-> None, acct |-> None, cred |-> None, before |-> {}]

\* The credentials some claim has returned to its caller.
Shown == {claim[c].cred : c \in {d \in Claims : claim[d].at = "returned"}}

-----------------------------------------------------------------------------
\* Checkout: SET reveal_token:{t} account EX 1h.
CreateRevealToken(t, a) ==
  /\ made[t] = None
  /\ made'  = [made EXCEPT ![t] = a]
  /\ owner' = [owner EXCEPT ![t] = a]
  /\ UNCHANGED <<pending, claim, stashed, gone>>

\* SET pending_credentials:{a}: a later activation overwrites an unclaimed one.
StashCredentials(a, k) ==
  /\ stashed[k] = None
  /\ stashed' = [stashed EXCEPT ![k] = a]
  /\ pending' = [pending EXCEPT ![a] = k]
  /\ UNCHANGED <<owner, claim, made, gone>>

TokenExpires(t) ==
  /\ owner[t] # None
  /\ owner' = [owner EXCEPT ![t] = None]
  /\ gone'  = gone \cup {t}
  /\ UNCHANGED <<pending, claim, made, stashed>>

PendingExpires(a) ==
  /\ pending[a] # None
  /\ pending' = [pending EXCEPT ![a] = None]
  /\ UNCHANGED <<owner, claim, made, stashed, gone>>

-----------------------------------------------------------------------------
(* reveal(account_id, reveal_token), one Redis command at a time.          *)

\* GET of the token: absent, or created for another account.
ClaimRefused(c, t, a) ==
  /\ claim[c].at = "idle"
  /\ owner[t] # a
  /\ claim' = [claim EXCEPT ![c].at = "refused"]
  /\ UNCHANGED <<owner, pending, made, stashed, gone>>

ClaimValid(c, t, a) ==
  /\ claim[c].at = "idle"
  /\ owner[t] = a
  /\ claim' = [claim EXCEPT ![c] =
       [at |-> "valid", tok |-> t, acct |-> a, cred |-> None, before |-> Shown]]
  /\ UNCHANGED <<owner, pending, made, stashed, gone>>

\* DEL of the token.
ClaimDropsToken(c) ==
  /\ claim[c].at = "valid"
  /\ owner' = [owner EXCEPT ![claim[c].tok] = None]
  /\ claim' = [claim EXCEPT ![c].at = "dropped"]
  /\ UNCHANGED <<pending, made, stashed, gone>>

\* GET of the credentials.
ClaimReads(c) ==
  /\ claim[c].at = "dropped"
  /\ LET k == pending[claim[c].acct] IN
       claim' = [claim EXCEPT ![c] =
         [@ EXCEPT !.at = IF k = None THEN "empty" ELSE "read", !.cred = k]]
  /\ UNCHANGED <<owner, pending, made, stashed, gone>>

\* Mutant of ClaimRestores: the caller is told to retry, with a token that is gone.
ClaimRestoresNothing(c) ==
  /\ claim[c].at = "empty"
  /\ claim' = [claim EXCEPT ![c].at = "notready"]
  /\ UNCHANGED <<owner, pending, made, stashed, gone>>

\* Not ready yet: SET of the token again, EX 120, and the caller gets a 404.
ClaimRestores(c) ==
  /\ claim[c].at = "empty"
  /\ owner' = [owner EXCEPT ![claim[c].tok] = claim[c].acct]
  /\ claim' = [claim EXCEPT ![c].at = "notready"]
  /\ UNCHANGED <<pending, made, stashed, gone>>

\* Mutant of ClaimReturns: deleting the token is taken to be enough.
ClaimReturnsTokenOnly(c) ==
  /\ claim[c].at = "read"
  /\ claim' = [claim EXCEPT ![c].at = "returned"]
  /\ UNCHANGED <<owner, pending, made, stashed, gone>>

\* DEL of the credentials, whichever they are by now, and the answer.
ClaimReturns(c) ==
  /\ claim[c].at = "read"
  /\ pending' = [pending EXCEPT ![claim[c].acct] = None]
  /\ claim'   = [claim EXCEPT ![c].at = "returned"]
  /\ UNCHANGED <<owner, made, stashed, gone>>

\* A Redis error, or the end of the API process, in the middle of the call.
ClaimDies(c) ==
  /\ claim[c].at \in {"valid", "dropped", "empty", "read"}
  /\ claim' = [claim EXCEPT ![c].at = "dead"]
  /\ gone'  = IF claim[c].at = "valid" THEN gone ELSE gone \cup {claim[c].tok}
  /\ UNCHANGED <<owner, pending, made, stashed>>

ClaimStep(c) ==
  \/ \E t \in Tokens, a \in Accounts : ClaimRefused(c, t, a) \/ ClaimValid(c, t, a)
  \/ ClaimDropsToken(c)
  \/ ClaimReads(c)
  \/ ClaimRestores(c)
  \/ ClaimReturns(c)
  \/ ClaimDies(c)

-----------------------------------------------------------------------------
RevealInit ==
  /\ owner   = [t \in Tokens |-> None]
  /\ pending = [a \in Accounts |-> None]
  /\ claim   = [c \in Claims |-> NoClaim]
  /\ made    = [t \in Tokens |-> None]
  /\ stashed = [k \in Credentials |-> None]
  /\ gone    = {}

\* What happens whoever composes this module decides on stashes.
RevealStep ==
  \/ \E t \in Tokens, a \in Accounts : CreateRevealToken(t, a)
  \/ \E t \in Tokens : TokenExpires(t)
  \/ \E a \in Accounts : PendingExpires(a)
  \/ \E c \in Claims : ClaimStep(c)

RevealNext ==
  \/ RevealStep
  \/ \E a \in Accounts, k \in Credentials : StashCredentials(a, k)

RevealSpec == RevealInit /\ [][RevealNext]_revealVars

-----------------------------------------------------------------------------
ClaimStates ==
  [at     : {"idle", "refused", "valid", "dropped", "empty", "read", "notready",
             "returned", "dead"},
   tok    : Tokens \cup {None},
   acct   : Accounts \cup {None},
   cred   : Credentials \cup {None},
   before : SUBSET (Credentials \cup {None})]

RevealTypeOK ==
  /\ owner   \in [Tokens -> Accounts \cup {None}]
  /\ pending \in [Accounts -> Credentials \cup {None}]
  /\ claim   \in [Claims -> ClaimStates]
  /\ made    \in [Tokens -> Accounts \cup {None}]
  /\ stashed \in [Credentials -> Accounts \cup {None}]
  /\ gone    \in SUBSET Tokens

\* "Replay after claim" gets nothing (credential_reveal_service.py:7): a call
\* that begins when some credentials have already been returned never returns
\* these again, with whatever token, and however many calls overlap.  (Two calls
\* that overlap may both return the same credentials.)
ReplayGetsNothing ==
  \A c \in Claims : claim[c].at = "returned" => claim[c].cred \notin claim[c].before

\* A subscriber who asks too early loses nothing (:80): a token that has neither
\* expired nor gone down with a failed call is in Redis, or in the hands of a call
\* that is still at work or that returned credentials for it.
UnusedTokenSurvives ==
  \A t \in Tokens :
    made[t] # None =>
      \/ owner[t] = made[t]
      \/ t \in gone
      \/ \E c \in Claims :
           claim[c].tok = t /\ claim[c].at \in {"dropped", "empty", "read", "returned"}

\* Credentials are returned only to a caller who names the account they were
\* issued for and holds a token of a checkout of this account.
ShownToItsAccount ==
  \A c \in Claims :
    claim[c].at = "returned" =>
      /\ stashed[claim[c].cred] = claim[c].acct
      /\ made[claim[c].tok] = claim[c].acct
=============================================================================
