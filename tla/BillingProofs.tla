----------------------------- MODULE BillingProofs -----------------------------
(***************************************************************************)
(* Proofs about CredentialReveal, for any number of accounts, tokens and   *)
(* overlapping claims, and about Billing, for any number of accounts,      *)
(* events, webhook calls, signups and claims, with calls that may fail     *)
(* half-way.                                                               *)
(***************************************************************************)
EXTENDS Billing, Sequences, FiniteSetTheorems, WellFoundedInduction, TLAPS

-----------------------------------------------------------------------------
(* The one-time claim on its own (CredentialReveal): what the two Redis    *)
(* keys and a call under way say about the checkout and the activation     *)
(* they come from.                                                         *)

Holding == {"valid", "dropped", "empty", "read", "returned"}

\* A token in Redis is that of its checkout.
OwnerIsMade == \A t \in Tokens : owner[t] # None => owner[t] = made[t]

\* Credentials in Redis are filed under their account and not shown yet.
PendingIsNew ==
  \A a \in Accounts :
    pending[a] # None =>
      stashed[pending[a]] = a /\ pending[a] \notin Shown

ClaimHolds ==
  \A c \in Claims :
    /\ claim[c].at \in Holding =>
         /\ claim[c].tok \in Tokens
         /\ claim[c].acct \in Accounts
         /\ made[claim[c].tok] = claim[c].acct
    /\ claim[c].at \in {"read", "returned"} =>
         /\ claim[c].cred \in Credentials
         /\ stashed[claim[c].cred] = claim[c].acct
         /\ claim[c].cred \notin claim[c].before
    /\ claim[c].before \subseteq Shown

RevealInv ==
  RevealTypeOK /\ OwnerIsMade /\ PendingIsNew /\ ClaimHolds /\ UnusedTokenSurvives

\* A step that touches no claim shows nothing new.
LEMMA ShownFrame ==
  ASSUME claim' = claim
  PROVE  Shown' = Shown
BY DEF Shown

\* A step after which the same claims have returned the same shows nothing new.
LEMMA ShownStep ==
  ASSUME \A d \in Claims :
           /\ claim'[d].at = "returned" <=> claim[d].at = "returned"
           /\ claim[d].at = "returned" => claim'[d].cred = claim[d].cred
  PROVE  Shown' = Shown
BY DEF Shown

\* The invariant holds initially.
LEMMA RevealInvInit == RevealInit => RevealInv
BY CredentialRevealAssumption
   DEF RevealInit, RevealInv, RevealTypeOK, ClaimStates, OwnerIsMade, PendingIsNew, ClaimHolds,
       UnusedTokenSurvives, NoClaim, Holding

\* The steps outside the claims keep it.
LEMMA RevealInvKeys ==
  ASSUME RevealInv, RevealNext, claim' = claim,
         \/ \E t \in Tokens, a \in Accounts : CreateRevealToken(t, a)
         \/ \E t \in Tokens : TokenExpires(t)
         \/ \E a \in Accounts : PendingExpires(a)
         \/ \E a \in Accounts, k \in Credentials : StashCredentials(a, k)
  PROVE  RevealInv'
<1> USE CredentialRevealAssumption, ShownFrame DEF RevealInv, Holding
<1>1. ASSUME NEW t \in Tokens, NEW a \in Accounts, CreateRevealToken(t, a)
      PROVE  RevealInv'
  <2>1. \A c \in Claims : claim[c].at \in Holding => claim[c].tok # t
    BY <1>1 DEF CreateRevealToken, ClaimHolds
  <2>2. RevealTypeOK' /\ OwnerIsMade' /\ PendingIsNew'
    BY <1>1 DEF CreateRevealToken, RevealTypeOK, ClaimStates, OwnerIsMade, PendingIsNew
  <2>3. ClaimHolds'
    BY <1>1, <2>1 DEF CreateRevealToken, RevealTypeOK, ClaimStates, ClaimHolds
  <2>4. UnusedTokenSurvives'
    BY <1>1 DEF CreateRevealToken, RevealTypeOK, UnusedTokenSurvives
  <2> QED BY <2>2, <2>3, <2>4
<1>2. ASSUME NEW t \in Tokens, TokenExpires(t) PROVE RevealInv'
  BY <1>2 DEF TokenExpires, RevealTypeOK, ClaimStates, OwnerIsMade, PendingIsNew, ClaimHolds,
              UnusedTokenSurvives
<1>3. ASSUME NEW a \in Accounts, PendingExpires(a) PROVE RevealInv'
  BY <1>3 DEF PendingExpires, RevealTypeOK, ClaimStates, OwnerIsMade, PendingIsNew, ClaimHolds,
              UnusedTokenSurvives
<1>4. ASSUME NEW a \in Accounts, NEW k \in Credentials, StashCredentials(a, k)
      PROVE  RevealInv'
  <2>1. k \notin Shown
    BY <1>4 DEF StashCredentials, ClaimHolds, Shown
  <2>2. RevealTypeOK' /\ OwnerIsMade' /\ UnusedTokenSurvives'
    BY <1>4 DEF StashCredentials, RevealTypeOK, ClaimStates, OwnerIsMade, UnusedTokenSurvives
  <2>3. PendingIsNew'
    BY <1>4, <2>1 DEF StashCredentials, RevealTypeOK, ClaimStates, PendingIsNew
  <2>4. ClaimHolds'
    BY <1>4 DEF StashCredentials, RevealTypeOK, ClaimStates, ClaimHolds
  <2> QED BY <2>2, <2>3, <2>4
<1> QED BY <1>1, <1>2, <1>3, <1>4

\* The steps of a claim keep it.
LEMMA RevealInvClaim ==
  ASSUME RevealInv, NEW c \in Claims, ClaimStep(c)
  PROVE  RevealInv'
<1> USE CredentialRevealAssumption DEF RevealInv, Holding
<1>1. ASSUME NEW t \in Tokens, NEW a \in Accounts, ClaimRefused(c, t, a)
      PROVE  RevealInv'
  <2>1. Shown' = Shown
    BY <1>1, ShownStep DEF ClaimRefused, RevealTypeOK, ClaimStates
  <2> QED
    BY <1>1, <2>1 DEF ClaimRefused, RevealTypeOK, ClaimStates, OwnerIsMade, PendingIsNew,
                      ClaimHolds, UnusedTokenSurvives
<1>2. ASSUME NEW t \in Tokens, NEW a \in Accounts, ClaimValid(c, t, a)
      PROVE  RevealInv'
  <2>1. Shown' = Shown
    BY <1>2, ShownStep DEF ClaimValid, RevealTypeOK, ClaimStates
  <2>2. made[t] = a
    BY <1>2 DEF ClaimValid, OwnerIsMade
  <2>3. Shown \subseteq Credentials
    BY DEF Shown, ClaimHolds
  <2> QED
    BY <1>2, <2>1, <2>2, <2>3
       DEF ClaimValid, RevealTypeOK, ClaimStates, OwnerIsMade, PendingIsNew, ClaimHolds,
           UnusedTokenSurvives
<1>3. CASE ClaimDropsToken(c)
  <2>1. Shown' = Shown
    BY <1>3, ShownStep DEF ClaimDropsToken, RevealTypeOK, ClaimStates
  <2> QED
    BY <1>3, <2>1 DEF ClaimDropsToken, RevealTypeOK, ClaimStates, OwnerIsMade, PendingIsNew,
                      ClaimHolds, UnusedTokenSurvives
<1>4. CASE ClaimReads(c)
  <2>1. Shown' = Shown
    BY <1>4, ShownStep DEF ClaimReads, RevealTypeOK, ClaimStates
  <2>2. claim[c].acct \in Accounts /\ pending[claim[c].acct] \in Credentials \cup {None}
    BY <1>4 DEF ClaimReads, ClaimHolds, RevealTypeOK
  <2>3. RevealTypeOK'
    <3>1. PICK at \in {"empty", "read"}, k \in Credentials \cup {None} :
            claim' = [claim EXCEPT ![c] = [claim[c] EXCEPT !.at = at, !.cred = k]]
      BY <1>4, <2>2 DEF ClaimReads
    <3>2. [claim[c] EXCEPT !.at = at] \in ClaimStates
      BY DEF RevealTypeOK, ClaimStates
    <3>3. \A r \in ClaimStates : [r EXCEPT !.cred = k] \in ClaimStates
      BY DEF ClaimStates
    <3>4. [claim[c] EXCEPT !.at = at, !.cred = k] \in ClaimStates
      BY <3>2, <3>3
    <3> QED BY <1>4, <3>1, <3>4 DEF ClaimReads, RevealTypeOK
  <2>4. OwnerIsMade' /\ PendingIsNew' /\ UnusedTokenSurvives'
    BY <1>4, <2>1, <2>2
       DEF ClaimReads, RevealTypeOK, ClaimStates, OwnerIsMade, PendingIsNew, UnusedTokenSurvives
  <2>5. ClaimHolds'
    BY <1>4, <2>1, <2>2 DEF ClaimReads, RevealTypeOK, ClaimStates, PendingIsNew, ClaimHolds
  <2> QED BY <2>3, <2>4, <2>5
<1>5. CASE ClaimRestores(c)
  <2>1. Shown' = Shown
    BY <1>5, ShownStep DEF ClaimRestores, RevealTypeOK, ClaimStates
  <2> QED
    BY <1>5, <2>1 DEF ClaimRestores, RevealTypeOK, ClaimStates, OwnerIsMade, PendingIsNew,
                      ClaimHolds, UnusedTokenSurvives
<1>6. CASE ClaimReturns(c)
  <2>1. Shown' = Shown \cup {claim[c].cred}
    <3>1. \A d \in Claims :
            /\ claim'[d].at = "returned" <=> d = c \/ claim[d].at = "returned"
            /\ claim'[d].cred = claim[d].cred
      BY <1>6 DEF ClaimReturns, RevealTypeOK
    <3> QED BY <3>1 DEF Shown
  <2>2. RevealTypeOK'
    <3>1. claim' \in [Claims -> ClaimStates]
      BY <1>6 DEF ClaimReturns, RevealTypeOK, ClaimStates
    <3>2. pending' \in [Accounts -> Credentials \cup {None}]
      BY <1>6 DEF ClaimReturns, RevealTypeOK
    <3> QED BY <1>6, <3>1, <3>2 DEF ClaimReturns, RevealTypeOK
  <2>5. OwnerIsMade' /\ UnusedTokenSurvives'
    BY <1>6 DEF ClaimReturns, RevealTypeOK, ClaimStates, OwnerIsMade, UnusedTokenSurvives
  <2>3. PendingIsNew'
    BY <1>6, <2>1 DEF ClaimReturns, RevealTypeOK, ClaimStates, PendingIsNew, ClaimHolds
  <2>4. ClaimHolds'
    BY <1>6, <2>1 DEF ClaimReturns, RevealTypeOK, ClaimStates, ClaimHolds
  <2> QED BY <2>2, <2>3, <2>4, <2>5
<1>7. CASE ClaimDies(c)
  <2>1. Shown' = Shown
    BY <1>7, ShownStep DEF ClaimDies, RevealTypeOK, ClaimStates
  <2> QED
    BY <1>7, <2>1 DEF ClaimDies, RevealTypeOK, ClaimStates, OwnerIsMade, PendingIsNew,
                      ClaimHolds, UnusedTokenSurvives
<1> QED BY <1>1, <1>2, <1>3, <1>4, <1>5, <1>6, <1>7 DEF ClaimStep

\* Nothing else happens.
LEMMA RevealInvNext == RevealInv /\ [RevealNext]_revealVars => RevealInv'
<1> SUFFICES ASSUME RevealInv, [RevealNext]_revealVars PROVE RevealInv'
  OBVIOUS
<1>1. CASE \E c \in Claims : ClaimStep(c)
  BY <1>1, RevealInvClaim
<1>2. CASE \/ \E t \in Tokens, a \in Accounts : CreateRevealToken(t, a)
           \/ \E t \in Tokens : TokenExpires(t)
           \/ \E a \in Accounts : PendingExpires(a)
           \/ \E a \in Accounts, k \in Credentials : StashCredentials(a, k)
  <2>1. claim' = claim
    BY <1>2 DEF CreateRevealToken, TokenExpires, PendingExpires, StashCredentials
  <2>2. RevealNext
    BY <1>2 DEF RevealNext, RevealStep
  <2> QED BY <1>2, <2>1, <2>2, RevealInvKeys
<1>3. CASE UNCHANGED revealVars
  BY <1>3 DEF revealVars, RevealInv, RevealTypeOK, ClaimStates, OwnerIsMade, PendingIsNew,
              ClaimHolds, UnusedTokenSurvives, Shown
<1> QED BY <1>1, <1>2, <1>3 DEF RevealNext, RevealStep

-----------------------------------------------------------------------------
\* The keys in Redis, the calls and the history keep their types.
THEOREM RevealTypes == RevealSpec => []RevealTypeOK
<1>1. RevealInv => RevealTypeOK
  BY DEF RevealInv
<1> QED BY <1>1, RevealInvInit, RevealInvNext, PTL DEF RevealSpec

\* A claim begun after credentials were returned never returns them again
\* (credential_reveal_service.py:7), for any number of tokens and calls.
THEOREM RevealReplay == RevealSpec => []ReplayGetsNothing
<1>1. RevealInv => ReplayGetsNothing
  BY DEF RevealInv, ClaimHolds, ReplayGetsNothing
<1> QED BY <1>1, RevealInvInit, RevealInvNext, PTL DEF RevealSpec

\* A claim that comes too early does not cost the subscriber the token (:80).
THEOREM RevealKeepsTokens == RevealSpec => []UnusedTokenSurvives
<1>1. RevealInv => UnusedTokenSurvives
  BY DEF RevealInv
<1> QED BY <1>1, RevealInvInit, RevealInvNext, PTL DEF RevealSpec

\* Credentials go to a caller with a token of a checkout of their account (:74).
THEOREM RevealToItsAccount == RevealSpec => []ShownToItsAccount
<1>1. RevealInv => ShownToItsAccount
  BY DEF RevealInv, ClaimHolds, Holding, ShownToItsAccount
<1> QED BY <1>1, RevealInvInit, RevealInvNext, PTL DEF RevealSpec

-----------------------------------------------------------------------------
(* The invariant of Billing.  Every row owes its portal token to a first   *)
(* activation; a row that a call has loaded was such a row; a call that    *)
(* made a first activation has its key, or is about to issue it, or failed *)
(* just there.                                                             *)

\* Stages of a webhook call that has made a first activation.
Activated == {"issue", "record", "stash", "done", "rejected", "keyless", "dead"}

\* What a call knows of the row it has loaded.
Loaded(row, a) ==
  row # NoRow => Exists(a) /\ row.status # "none" /\ row.portal \in issuers[a]

RowsWhole == \A a \in Accounts : sub[a].status = "none" => sub[a] = NoRow

HookInv ==
  \A d \in Deliveries :
    /\ hook[d].at # "idle" => hook[d].evt \in Events
    /\ hook[d].at = "loaded" => Loaded(hook[d].row, HookAccount(d))

SignupInv ==
  \A s \in Signups :
    /\ signup[s].at # "idle" => signup[s].acct \in Accounts
    /\ signup[s].at = "loaded" => Loaded(signup[s].row, signup[s].acct)

IssuerInv ==
  \A a \in Accounts : \A k \in issuers[a] :
    /\ k \in Deliveries =>
         /\ hook[k].at \in Activated
         /\ HookAccount(k) = a
         /\ hook[k].at \in {"issue", "keyless"} \/ k \in keys[a]
    /\ k \in Signups =>
         /\ signup[k].at \in {"issue", "done", "keyless"}
         /\ signup[k].acct = a
         /\ signup[k].at \in {"issue", "keyless"} \/ k \in keys[a]

BillInv ==
  BillTypes /\ RowsWhole /\ PortalTokenKept /\ HookInv /\ SignupInv /\ IssuerInv

-----------------------------------------------------------------------------
(* Rows.                                                                   *)

LEMMA NoRowIsRow == NoRow \in Rows
BY DEF NoRow, Rows

\* A flushed row is a row; its status and portal token are the new ones where these
\* differ from the loaded ones.
LEMMA FlushRow ==
  ASSUME NEW row \in Rows, NEW loaded \in Rows, NEW new \in Rows
  PROVE  /\ Flush(row, loaded, new) \in Rows
         /\ Flush(row, loaded, new).status
              = IF new.status = loaded.status THEN row.status ELSE new.status
         /\ Flush(row, loaded, new).portal
              = IF new.portal = loaded.portal THEN row.portal ELSE new.portal
BY DEF Flush, Rows

\* A change of one column is a change to a row.
WithStatus(row, s) == [row EXCEPT !.status = s]
WithGrace(row, g)  == [row EXCEPT !.grace = g]

LEMMA StatusColumn ==
  ASSUME NEW row \in Rows, NEW s \in {"active", "past_due", "canceled", "suspended"}
  PROVE  /\ WithStatus(row, s) \in Rows
         /\ WithStatus(row, s).status = s
         /\ WithStatus(row, s).portal = row.portal
BY DEF Rows, WithStatus

LEMMA GraceColumn ==
  ASSUME NEW row \in Rows, NEW g \in {"running", "over"}
  PROVE  /\ WithGrace(row, g) \in Rows
         /\ WithGrace(row, g).status = row.status
         /\ WithGrace(row, g).portal = row.portal
BY DEF Rows, WithGrace

\* A loaded row of which the status is changed, flushed.
LEMMA FlushStatus ==
  ASSUME NEW row \in Rows, NEW loaded \in Rows,
         NEW s \in {"active", "past_due", "canceled", "suspended"}
  PROVE  /\ Flush(row, loaded, WithStatus(loaded, s)) \in Rows
         /\ Flush(row, loaded, WithStatus(loaded, s)).status \in {s, row.status}
         /\ Flush(row, loaded, WithStatus(loaded, s)).portal = row.portal
BY StatusColumn, FlushRow

\* What a failed payment and a cancellation make of a row.
LEMMA EndOfPaymentRow ==
  ASSUME NEW row \in Rows, NEW loaded \in Rows,
         row.status # "none"
  PROVE  /\ PastDue(row, loaded) \in Rows
         /\ PastDue(row, loaded).status # "none"
         /\ PastDue(row, loaded).portal = row.portal
         /\ Canceled(row, loaded) \in Rows
         /\ Canceled(row, loaded).status # "none"
         /\ Canceled(row, loaded).portal = row.portal
<1>1. PastDue(row, loaded)
        = WithGrace(Flush(row, loaded, WithStatus(loaded, "past_due")), "running")
  BY DEF PastDue, WithGrace, WithStatus
<1>2. Canceled(row, loaded) = Flush(row, loaded, WithStatus(loaded, "canceled"))
  BY DEF Canceled, WithStatus
<1>3. /\ Flush(row, loaded, WithStatus(loaded, "past_due")) \in Rows
      /\ Flush(row, loaded, WithStatus(loaded, "past_due")).status \in {"past_due", row.status}
      /\ Flush(row, loaded, WithStatus(loaded, "past_due")).portal = row.portal
  BY FlushStatus
<1>4. /\ Flush(row, loaded, WithStatus(loaded, "canceled")) \in Rows
      /\ Flush(row, loaded, WithStatus(loaded, "canceled")).status \in {"canceled", row.status}
      /\ Flush(row, loaded, WithStatus(loaded, "canceled")).portal = row.portal
  BY FlushStatus
<1> QED BY <1>1, <1>2, <1>3, <1>4, GraceColumn

\* What a demo signup makes of a row.
LEMMA DemoRow ==
  ASSUME NEW row \in Rows, NEW loaded \in Rows, NEW s \in Signups,
         loaded.portal # None
  PROVE  /\ Flush(row, loaded, AsDemo(loaded, s)) \in Rows
         /\ Flush(row, loaded, AsDemo(loaded, s)).status \in {"active", row.status}
         /\ Flush(row, loaded, AsDemo(loaded, s)).portal = row.portal
<1>1. /\ AsDemo(loaded, s) \in Rows
      /\ AsDemo(loaded, s).status = "active"
      /\ AsDemo(loaded, s).portal = loaded.portal
  BY DEF AsDemo, Rows
<1> QED BY <1>1, FlushRow

-----------------------------------------------------------------------------
(* The two kinds of steps: a row changes, or a call goes on.               *)

\* A row that has the portal token of a first activation replaces the old one.
LEMMA RowStep ==
  ASSUME BillInv, NEW a \in Accounts, NEW r \in Rows,
         r.status # "none",
         \A b \in Accounts : issuers[b] \subseteq issuers'[b],
         r.portal \in issuers'[a],
         sub' = [sub EXCEPT ![a] = r]
  PROVE  /\ sub' \in [Accounts -> Rows]
         /\ RowsWhole'
         /\ PortalTokenKept'
         /\ \A b \in Accounts : Exists(b) => Exists(b)'
<1>1. sub' \in [Accounts -> Rows]
  BY DEF BillInv, BillTypes
<1>2. \A b \in Accounts : sub'[b] = IF b = a THEN r ELSE sub[b]
  BY DEF BillInv, BillTypes
<1> QED BY <1>1, <1>2 DEF BillInv, RowsWhole, PortalTokenKept, Exists

\* A call that goes on moves alone.
LEMMA HookMoves ==
  ASSUME BillInv, NEW d \in Deliveries, NEW at \in HookStages, HookGoes(d, at)
  PROVE  /\ hook' \in [Deliveries -> [at : HookStages, evt : Events \cup {None}, row : Rows]]
         /\ \A e \in Deliveries :
              hook'[e] = IF e = d THEN [at |-> at, evt |-> hook[d].evt, row |-> NoRow]
                                  ELSE hook[e]
<1>1. [at |-> at, evt |-> hook[d].evt, row |-> NoRow]
         \in [at : HookStages, evt : Events \cup {None}, row : Rows]
  BY NoRowIsRow DEF BillInv, BillTypes
<1> QED BY <1>1 DEF BillInv, BillTypes, HookGoes

LEMMA SignupMoves ==
  ASSUME BillInv, NEW s \in Signups, NEW at \in SignupStages, SignupGoes(s, at)
  PROVE  /\ signup' \in [Signups -> [at : SignupStages, acct : Accounts \cup {None}, row : Rows]]
         /\ \A t \in Signups :
              signup'[t] = IF t = s THEN [at |-> at, acct |-> signup[s].acct, row |-> NoRow]
                                    ELSE signup[t]
<1>1. [at |-> at, acct |-> signup[s].acct, row |-> NoRow]
         \in [at : SignupStages, acct : Accounts \cup {None}, row : Rows]
  BY NoRowIsRow DEF BillInv, BillTypes
<1> QED BY <1>1 DEF BillInv, BillTypes, SignupGoes

\* Rows and keys stay, and a first activation is not taken back.
Grows ==
  \A a \in Accounts :
    (Exists(a) => Exists(a)') /\ issuers[a] \subseteq issuers'[a] /\ keys[a] \subseteq keys'[a]

\* What a call goes on to is compatible with the activation it may have made.
LEMMA HookKeeps ==
  ASSUME BillInv, Grows, NEW d \in Deliveries, NEW at \in HookStages \ {"idle", "loaded"},
         HookGoes(d, at), hook[d].at # "idle", signup' = signup,
         issuers' = issuers
           \/ issuers' = [issuers EXCEPT ![HookAccount(d)] = @ \cup {d}],
         \A a \in Accounts :
           d \in issuers'[a] => /\ at \in Activated
                                /\ HookAccount(d) = a
                                /\ at \in {"issue", "keyless"} \/ d \in keys'[a]
  PROVE  HookInv' /\ SignupInv' /\ IssuerInv'
<1>1. \A e \in Deliveries :
        hook'[e] = IF e = d THEN [at |-> at, evt |-> hook[d].evt, row |-> NoRow] ELSE hook[e]
  BY HookMoves
<1>2. HookInv'
  BY <1>1, BillingAssumption DEF BillInv, HookInv, Loaded, HookAccount, Grows
<1>3. SignupInv'
  BY DEF BillInv, SignupInv, Loaded, Grows
<1>4. \A a \in Accounts : \A k \in issuers'[a] : k = d \/ k \in issuers[a]
  BY DEF BillInv, BillTypes
<1>5. IssuerInv'
  <2> SUFFICES ASSUME NEW a \in Accounts, NEW k \in issuers'[a]
               PROVE  /\ k \in Deliveries =>
                           /\ hook'[k].at \in Activated
                           /\ HookAccount(k)' = a
                           /\ hook'[k].at \in {"issue", "keyless"} \/ k \in keys'[a]
                      /\ k \in Signups =>
                           /\ signup'[k].at \in {"issue", "done", "keyless"}
                           /\ signup'[k].acct = a
                           /\ signup'[k].at \in {"issue", "keyless"} \/ k \in keys'[a]
    BY DEF IssuerInv
  <2>1. CASE k = d
    BY <1>1, <2>1, BillingAssumption DEF HookAccount
  <2>2. CASE k # d
    <3>1. k \in issuers[a]
      BY <1>4, <2>2
    <3>2. k \in Deliveries => hook'[k] = hook[k]
      BY <1>1, <2>2
    <3>3. k \in Signups => signup'[k] = signup[k]
      BY <1>1, <2>2
    <3> QED BY <3>1, <3>2, <3>3 DEF BillInv, IssuerInv, HookAccount, Grows
  <2> QED BY <2>1, <2>2
<1> QED BY <1>2, <1>3, <1>5

LEMMA SignupKeeps ==
  ASSUME BillInv, Grows, NEW s \in Signups, NEW at \in SignupStages \ {"idle", "loaded"},
         SignupGoes(s, at), signup[s].at # "idle", hook' = hook,
         issuers' = issuers
           \/ issuers' = [issuers EXCEPT ![signup[s].acct] = @ \cup {s}],
         \A a \in Accounts :
           s \in issuers'[a] => /\ at \in {"issue", "done", "keyless"}
                                /\ signup[s].acct = a
                                /\ at \in {"issue", "keyless"} \/ s \in keys'[a]
  PROVE  HookInv' /\ SignupInv' /\ IssuerInv'
<1>1. \A t \in Signups :
        signup'[t] = IF t = s THEN [at |-> at, acct |-> signup[s].acct, row |-> NoRow]
                              ELSE signup[t]
  BY SignupMoves
<1>2. HookInv'
  BY BillingAssumption DEF BillInv, HookInv, Loaded, HookAccount, Grows
<1>3. SignupInv'
  BY <1>1 DEF BillInv, SignupInv, Loaded, Grows
<1>4. \A a \in Accounts : \A k \in issuers'[a] : k = s \/ k \in issuers[a]
  BY DEF BillInv, BillTypes
<1>5. IssuerInv'
  <2> SUFFICES ASSUME NEW a \in Accounts, NEW k \in issuers'[a]
               PROVE  /\ k \in Deliveries =>
                           /\ hook'[k].at \in Activated
                           /\ HookAccount(k)' = a
                           /\ hook'[k].at \in {"issue", "keyless"} \/ k \in keys'[a]
                      /\ k \in Signups =>
                           /\ signup'[k].at \in {"issue", "done", "keyless"}
                           /\ signup'[k].acct = a
                           /\ signup'[k].at \in {"issue", "keyless"} \/ k \in keys'[a]
    BY DEF IssuerInv
  <2>1. CASE k = s
    BY <1>1, <2>1, BillingAssumption DEF HookAccount
  <2>2. CASE k # s
    <3>1. k \in issuers[a]
      BY <1>4, <2>2
    <3>2. k \in Deliveries => hook'[k] = hook[k]
      BY <1>1, <2>2
    <3>3. k \in Signups => signup'[k] = signup[k]
      BY <1>1, <2>2
    <3> QED BY <3>1, <3>2, <3>3 DEF BillInv, IssuerInv, HookAccount, Grows
  <2> QED BY <2>1, <2>2
<1> QED BY <1>2, <1>3, <1>5

\* The calls stay where they are: a row changes and keeps its portal token.
LEMMA RowKeeps ==
  ASSUME BillInv, RowOnly, NEW a \in Accounts, NEW r \in Rows, Exists(a),
         r.status # "none", r.portal = sub[a].portal, sub' = [sub EXCEPT ![a] = r]
  PROVE  BillInv'
<1>1. issuers' = issuers /\ keys' = keys /\ hook' = hook /\ signup' = signup
      /\ processed' = processed /\ applied' = applied
  BY DEF RowOnly
<1>2. r.portal \in issuers'[a]
  BY <1>1 DEF BillInv, PortalTokenKept
<1>3. /\ sub' \in [Accounts -> Rows]
      /\ RowsWhole' /\ PortalTokenKept'
      /\ \A b \in Accounts : Exists(b) => Exists(b)'
  BY <1>1, <1>2, RowStep
<1>4. BillTypes'
  BY <1>1, <1>3 DEF BillInv, BillTypes
<1>5. HookInv' /\ SignupInv' /\ IssuerInv'
  BY <1>1, <1>3, BillingAssumption DEF BillInv, HookInv, SignupInv, IssuerInv, Loaded, HookAccount
<1> QED BY <1>3, <1>4, <1>5 DEF BillInv

LEMMA BillFrame ==
  ASSUME BillInv, UNCHANGED billVars
  PROVE  BillInv'
BY DEF BillInv, billVars, BillTypes, RowsWhole, PortalTokenKept, Exists, HookInv, SignupInv,
       IssuerInv, Loaded, HookAccount

\* The token of a row and the calls' knowledge survive while no row changes.
LEMMA NoRowChange ==
  ASSUME BillInv, sub' = sub, \A a \in Accounts : issuers[a] \subseteq issuers'[a]
  PROVE  RowsWhole' /\ PortalTokenKept' /\ sub' \in [Accounts -> Rows]
BY DEF BillInv, BillTypes, RowsWhole, PortalTokenKept, Exists

LEMMA HookAccountType ==
  ASSUME BillInv, NEW d \in Deliveries, hook[d].at # "idle"
  PROVE  hook[d].evt \in Events /\ HookAccount(d) \in Accounts
BY BillingAssumption DEF BillInv, HookInv, HookAccount

\* A webhook call goes on and no row changes.
LEMMA HookStepKeeps ==
  ASSUME BillInv, NEW d \in Deliveries, NEW at \in HookStages \ {"idle", "loaded"},
         HookGoes(d, at), hook[d].at # "idle",
         sub' = sub, signup' = signup, issuers' = issuers, applied' = applied,
         processed' \in {processed, processed \cup {hook[d].evt}},
         keys' \in [Accounts -> SUBSET Credentials],
         \A a \in Accounts : keys[a] \subseteq keys'[a],
         \A a \in Accounts :
           d \in issuers[a] =>
             at \in Activated /\ (at \in {"issue", "keyless"} \/ d \in keys'[a])
  PROVE  BillInv'
<1>1. Grows
  BY DEF Grows, Exists
<1>2. \A a \in Accounts : d \in issuers[a] => HookAccount(d) = a
  BY DEF BillInv, IssuerInv
<1>3. HookInv' /\ SignupInv' /\ IssuerInv'
  BY <1>1, <1>2, HookKeeps
<1>4. BillTypes'
  <2>1. hook' \in [Deliveries -> [at : HookStages, evt : Events \cup {None}, row : Rows]]
    BY HookMoves
  <2>2. processed' \in SUBSET Events
    BY HookAccountType DEF BillInv, BillTypes
  <2> QED BY <2>1, <2>2 DEF BillInv, BillTypes
<1>5. RowsWhole' /\ PortalTokenKept'
  BY NoRowChange
<1> QED BY <1>3, <1>4, <1>5 DEF BillInv

\* A webhook call writes a row, and perhaps takes itself for a first activation.
LEMMA HookRowKeeps ==
  ASSUME BillInv, NEW d \in Deliveries, NEW at \in HookStages \ {"idle", "loaded"},
         HookGoes(d, at), hook[d].at = "loaded",
         NEW r \in Rows, sub' = [sub EXCEPT ![HookAccount(d)] = r], r.status # "none",
         r.portal \in issuers'[HookAccount(d)],
         signup' = signup, keys' = keys,
         applied' \in {applied, [applied EXCEPT ![hook[d].evt] = @ \cup {d}]},
         processed' \in {processed, processed \cup {hook[d].evt}},
         \/ issuers' = issuers
         \/ at = "issue" /\ issuers' = [issuers EXCEPT ![HookAccount(d)] = @ \cup {d}]
  PROVE  BillInv'
<1>1. hook[d].evt \in Events /\ HookAccount(d) \in Accounts
  BY HookAccountType
<1>2. \A a \in Accounts : d \notin issuers[a]
  BY DEF BillInv, IssuerInv, Activated
<1>3. \A a \in Accounts : issuers[a] \subseteq issuers'[a]
  BY DEF BillInv, BillTypes
<1>4. /\ sub' \in [Accounts -> Rows]
      /\ RowsWhole' /\ PortalTokenKept'
      /\ \A b \in Accounts : Exists(b) => Exists(b)'
  BY <1>1, <1>3, RowStep
<1>5. Grows
  BY <1>3, <1>4 DEF Grows
<1>6. \A a \in Accounts :
        d \in issuers'[a] => at = "issue" /\ HookAccount(d) = a
  BY <1>2 DEF BillInv, BillTypes
<1>7. HookInv' /\ SignupInv' /\ IssuerInv'
  BY <1>5, <1>6, HookKeeps DEF Activated
<1>8. BillTypes'
  <2>1. hook' \in [Deliveries -> [at : HookStages, evt : Events \cup {None}, row : Rows]]
    BY HookMoves
  <2>2. applied' \in [Events -> SUBSET Deliveries] /\ processed' \in SUBSET Events
    BY <1>1 DEF BillInv, BillTypes
  <2>3. issuers' \in [Accounts -> SUBSET Credentials]
    BY <1>1, BillingAssumption DEF BillInv, BillTypes
  <2> QED BY <1>4, <2>1, <2>2, <2>3 DEF BillInv, BillTypes
<1> QED BY <1>4, <1>7, <1>8 DEF BillInv

\* A webhook call takes an event, or loads a row.
LEMMA HookTakes ==
  ASSUME BillInv, NEW d \in Deliveries, hook[d].at \in {"idle", "fresh"},
         NEW at \in {"again", "fresh", "loaded"}, NEW e \in Events, NEW r \in Rows,
         at = "loaded" => Loaded(r, EventFor[e]),
         hook' = [hook EXCEPT ![d] = [at |-> at, evt |-> e, row |-> r]],
         HookOnly
  PROVE  BillInv'
<1>1. /\ sub' = sub /\ issuers' = issuers /\ keys' = keys /\ signup' = signup
      /\ applied' = applied /\ processed' = processed
  BY DEF HookOnly
<1>2. [at |-> at, evt |-> e, row |-> r]
         \in [at : HookStages, evt : Events \cup {None}, row : Rows]
  BY DEF HookStages
<1>3. BillTypes'
  BY <1>1, <1>2 DEF BillInv, BillTypes
<1>4. \A f \in Deliveries :
        hook'[f] = IF f = d THEN [at |-> at, evt |-> e, row |-> r] ELSE hook[f]
  BY DEF BillInv, BillTypes
<1>5. HookInv'
  BY <1>1, <1>4 DEF BillInv, HookInv, Loaded, HookAccount, Exists
<1>6. SignupInv'
  BY <1>1 DEF BillInv, SignupInv, Loaded, Exists
<1>7. \A a \in Accounts : d \notin issuers[a]
  BY DEF BillInv, IssuerInv, Activated
<1>8. IssuerInv'
  BY <1>1, <1>4, <1>7 DEF BillInv, IssuerInv, HookAccount
<1>9. RowsWhole' /\ PortalTokenKept'
  BY <1>1, NoRowChange
<1> QED BY <1>3, <1>5, <1>6, <1>8, <1>9 DEF BillInv

\* Every step of a webhook call keeps the invariant.
LEMMA WebhookKeeps ==
  ASSUME BillInv, NEW d \in Deliveries, WebhookStep(d)
  PROVE  BillInv'
<1> DEFINE a == HookAccount(d)
<1>a. keys \in [Accounts -> SUBSET Credentials]
  BY DEF BillInv, BillTypes
<1>b. \A b \in Accounts :
        d \in issuers[b] => /\ hook[d].at \in Activated
                            /\ HookAccount(d) = b
                            /\ hook[d].at \in {"issue", "keyless"} \/ d \in keys[b]
  BY DEF BillInv, IssuerInv
<1>c. ASSUME hook[d].at = "loaded", hook[d].row # NoRow
      PROVE  /\ a \in Accounts /\ sub[a] \in Rows /\ hook[d].row \in Rows
             /\ Exists(a) /\ hook[d].row.portal \in issuers[a] /\ sub[a].portal \in issuers[a]
             /\ hook[d].row.portal # None
  BY <1>c, HookAccountType, CredentialRevealAssumption
     DEF BillInv, BillTypes, HookInv, Loaded, PortalTokenKept
<1>1. ASSUME NEW e \in Events, WebhookArrives(d, e) PROVE BillInv'
  <2>1. PICK at \in {"again", "fresh"} :
          hook' = [hook EXCEPT ![d] = [at |-> at, evt |-> e, row |-> NoRow]]
    BY <1>1 DEF WebhookArrives
  <2> QED BY <1>1, <2>1, HookTakes, NoRowIsRow DEF WebhookArrives
<1>2. CASE WebhookLoads(d)
  <2>1. hook[d].at = "fresh" /\ hook[d].evt \in Events /\ a \in Accounts
    BY <1>2, HookAccountType DEF WebhookLoads
  <2>2. sub[a] \in Rows /\ Loaded(sub[a], EventFor[hook[d].evt])
    BY <2>1 DEF BillInv, BillTypes, RowsWhole, PortalTokenKept, Loaded, Exists, HookAccount
  <2> QED BY <1>2, <2>1, <2>2, HookTakes DEF WebhookLoads
<1>3. CASE Activate(d)
  <2>1. a \in Accounts
    BY <1>3, HookAccountType DEF Activate
  <2>2. /\ Upserted(d) \in Rows
        /\ Upserted(d).status = "active"
        /\ Upserted(d).portal = d
    BY <1>3, <2>1, BillingAssumption DEF Activate, Upserted, BillInv, BillTypes, Rows, NoRow
  <2>3. d \in issuers'[a]
    BY <1>3, <2>1 DEF Activate, BillInv, BillTypes
  <2> QED BY <1>3, <2>2, <2>3, HookRowKeeps DEF Activate, HookStages
<1>4. CASE IssueKey(d)
  <2>1. a \in Accounts
    BY <1>4, HookAccountType DEF IssueKey
  <2>2. /\ keys' \in [Accounts -> SUBSET Credentials]
        /\ \A b \in Accounts : keys[b] \subseteq keys'[b]
        /\ d \in keys'[a]
    BY <1>4, <1>a, <2>1, BillingAssumption DEF IssueKey
  <2> QED BY <1>4, <1>b, <2>2, HookStepKeeps DEF IssueKey, HookStages, Activated
<1>5. CASE RecordActivation(d)
  BY <1>5, <1>a, <1>b, HookStepKeeps DEF RecordActivation, Record, HookStages, Activated
<1>6. CASE Stash(d)
  BY <1>6, <1>a, <1>b, HookStepKeeps DEF Stash, HookStages, Activated
<1>7. CASE Renew(d)
  <2>1. /\ Upserted(d) \in Rows
        /\ Upserted(d).status = "active"
        /\ Upserted(d).portal = hook[d].row.portal
    BY <1>7, <1>c DEF Renew, Upserted, Rows
  <2> QED BY <1>7, <1>c, <2>1, HookRowKeeps DEF Renew, Record, HookStages
<1>8. CASE EndOfPayment(d)
  <2>1. CASE hook[d].row = NoRow
    BY <1>8, <2>1, <1>a, <1>b, HookStepKeeps DEF EndOfPayment, Record, HookStages, Activated
  <2>2. CASE hook[d].row # NoRow
    <3>1. PICK r : r = IF HookKind(d) = "failed" THEN PastDue(sub[a], hook[d].row)
                       ELSE Canceled(sub[a], hook[d].row)
      OBVIOUS
    <3>2. r \in Rows /\ r.status # "none" /\ r.portal = sub[a].portal
      BY <1>8, <1>c, <2>2, <3>1, EndOfPaymentRow DEF EndOfPayment, Exists
    <3>3. sub' = [sub EXCEPT ![a] = r]
      BY <1>8, <2>2, <3>1 DEF EndOfPayment
    <3> QED BY <1>8, <1>c, <2>2, <3>2, <3>3, HookRowKeeps DEF EndOfPayment, Record, HookStages
  <2> QED BY <2>1, <2>2
<1>9. CASE RecordUnknown(d)
  BY <1>9, <1>a, <1>b, HookStepKeeps DEF RecordUnknown, Record, HookStages, Activated
<1>10. CASE DuplicateRejected(d)
  BY <1>10, <1>a, <1>b, HookStepKeeps DEF DuplicateRejected, HookOnly, HookStages, Activated
<1>11. CASE GateRunning(d)
  <2>1. PICK at \in {"check", "done"} : HookGoes(d, at)
    BY <1>11 DEF GateRunning
  <2> QED BY <1>11, <1>a, <1>b, <2>1, HookStepKeeps DEF GateRunning, HookOnly, HookStages, Activated
<1>12. CASE GateActive(d)
  <2>1. PICK at \in {"stop", "done"} : HookGoes(d, at)
    BY <1>12 DEF GateActive
  <2> QED BY <1>12, <1>a, <1>b, <2>1, HookStepKeeps DEF GateActive, HookOnly, HookStages, Activated
<1>13. CASE GateStops(d)
  BY <1>13, <1>a, <1>b, HookStepKeeps DEF GateStops, HookStages, Activated
<1>14. CASE WebhookDies(d)
  <2>1. CASE hook[d].at = "issue"
    BY <1>14, <1>a, <1>b, <2>1, HookStepKeeps DEF WebhookDies, HookStages, Activated
  <2>2. CASE hook[d].at # "issue"
    BY <1>14, <1>a, <1>b, <2>2, HookStepKeeps DEF WebhookDies, HookStages, Activated
  <2> QED BY <2>1, <2>2
<1> QED
  BY <1>1, <1>2, <1>3, <1>4, <1>5, <1>6, <1>7, <1>8, <1>9, <1>10, <1>11, <1>12, <1>13, <1>14
     DEF WebhookStep

-----------------------------------------------------------------------------
(* The demo signup.                                                        *)

LEMMA SignupAccountType ==
  ASSUME BillInv, NEW s \in Signups, signup[s].at # "idle"
  PROVE  signup[s].acct \in Accounts
BY DEF BillInv, SignupInv

\* A signup call goes on and no row changes.
LEMMA SignupStepKeeps ==
  ASSUME BillInv, NEW s \in Signups, NEW at \in SignupStages \ {"idle", "loaded"},
         SignupGoes(s, at), signup[s].at # "idle",
         sub' = sub, hook' = hook, issuers' = issuers, applied' = applied,
         processed' = processed,
         keys' \in [Accounts -> SUBSET Credentials],
         \A a \in Accounts : keys[a] \subseteq keys'[a],
         \A a \in Accounts :
           s \in issuers[a] =>
             /\ at \in {"issue", "done", "keyless"}
             /\ at \in {"issue", "keyless"} \/ s \in keys'[a]
  PROVE  BillInv'
<1>1. Grows
  BY DEF Grows, Exists
<1>2. \A a \in Accounts : s \in issuers[a] => signup[s].acct = a
  BY DEF BillInv, IssuerInv
<1>3. HookInv' /\ SignupInv' /\ IssuerInv'
  BY <1>1, <1>2, SignupKeeps
<1>4. BillTypes'
  BY SignupMoves DEF BillInv, BillTypes
<1>5. RowsWhole' /\ PortalTokenKept'
  BY NoRowChange
<1> QED BY <1>3, <1>4, <1>5 DEF BillInv

\* A signup call writes a row, and perhaps takes itself for a first activation.
LEMMA SignupRowKeeps ==
  ASSUME BillInv, NEW s \in Signups, SignupGoes(s, "issue"), signup[s].at = "loaded",
         NEW r \in Rows, sub' = [sub EXCEPT ![signup[s].acct] = r], r.status # "none",
         r.portal \in issuers'[signup[s].acct],
         hook' = hook, keys' = keys, applied' = applied, processed' = processed,
         \/ issuers' = issuers
         \/ issuers' = [issuers EXCEPT ![signup[s].acct] = @ \cup {s}]
  PROVE  BillInv'
<1>1. signup[s].acct \in Accounts
  BY SignupAccountType
<1>2. \A a \in Accounts : s \notin issuers[a]
  BY DEF BillInv, IssuerInv
<1>3. \A a \in Accounts : issuers[a] \subseteq issuers'[a]
  BY DEF BillInv, BillTypes
<1>4. /\ sub' \in [Accounts -> Rows]
      /\ RowsWhole' /\ PortalTokenKept'
      /\ \A b \in Accounts : Exists(b) => Exists(b)'
  BY <1>1, <1>3, RowStep
<1>5. Grows
  BY <1>3, <1>4 DEF Grows
<1>6. \A a \in Accounts : s \in issuers'[a] => signup[s].acct = a
  BY <1>2 DEF BillInv, BillTypes
<1>7. HookInv' /\ SignupInv' /\ IssuerInv'
  BY <1>5, <1>6, SignupKeeps DEF SignupStages
<1>8. BillTypes'
  <2>1. issuers' \in [Accounts -> SUBSET Credentials]
    BY <1>1, BillingAssumption DEF BillInv, BillTypes
  <2> QED BY <1>4, <2>1, SignupMoves DEF BillInv, BillTypes, SignupStages
<1> QED BY <1>4, <1>7, <1>8 DEF BillInv

\* Every step of a signup keeps the invariant.
LEMMA DemoSignupKeeps ==
  ASSUME BillInv, NEW s \in Signups, SignupStep(s)
  PROVE  BillInv'
<1>a. keys \in [Accounts -> SUBSET Credentials]
  BY DEF BillInv, BillTypes
<1>b. \A b \in Accounts :
        s \in issuers[b] => /\ signup[s].at \in {"issue", "done", "keyless"}
                            /\ signup[s].acct = b
                            /\ signup[s].at \in {"issue", "keyless"} \/ s \in keys[b]
  BY DEF BillInv, IssuerInv
<1>1. ASSUME NEW a \in Accounts, SignupLoads(s, a) PROVE BillInv'
  <2>1. sub[a] \in Rows /\ Loaded(sub[a], a)
    BY DEF BillInv, BillTypes, RowsWhole, PortalTokenKept, Loaded, Exists
  <2>2. /\ sub' = sub /\ issuers' = issuers /\ keys' = keys /\ hook' = hook
        /\ applied' = applied /\ processed' = processed
    BY <1>1 DEF SignupLoads, SignupOnly
  <2>3. [at |-> "loaded", acct |-> a, row |-> sub[a]]
           \in [at : SignupStages, acct : Accounts \cup {None}, row : Rows]
    BY <2>1 DEF SignupStages
  <2>4. BillTypes'
    BY <1>1, <2>2, <2>3 DEF SignupLoads, BillInv, BillTypes
  <2>5. \A t \in Signups :
          signup'[t] = IF t = s THEN [at |-> "loaded", acct |-> a, row |-> sub[a]] ELSE signup[t]
    BY <1>1 DEF SignupLoads, BillInv, BillTypes
  <2>6. HookInv'
    BY <2>2 DEF BillInv, HookInv, Loaded, HookAccount, Exists
  <2>7. SignupInv'
    BY <2>1, <2>2, <2>5 DEF BillInv, SignupInv, Loaded, Exists
  <2>8. \A b \in Accounts : s \notin issuers[b]
    BY <1>1, <1>b DEF SignupLoads
  <2>9. IssuerInv'
    BY <2>2, <2>5, <2>8 DEF BillInv, IssuerInv, HookAccount
  <2> QED BY <2>2, <2>4, <2>6, <2>7, <2>9, NoRowChange DEF BillInv
<1>2. CASE SignupInserts(s)
  <2> DEFINE r == [status |-> "active", plan |-> "demo", grace |-> "none",
                   provider |-> "demo", portal |-> s]
  <2>1. r \in Rows /\ r.status # "none" /\ r.portal = s
    BY BillingAssumption DEF Rows
  <2>2. s \in issuers'[signup[s].acct]
    BY <1>2, SignupAccountType DEF SignupInserts, BillInv, BillTypes
  <2> HIDE DEF r
  <2>3. sub' = [sub EXCEPT ![signup[s].acct] = r]
    BY <1>2 DEF SignupInserts, r
  <2> QED BY <1>2, <2>1, <2>2, <2>3, SignupRowKeeps DEF SignupInserts
<1>3. CASE SignupRejected(s)
  BY <1>3, <1>a, <1>b, SignupStepKeeps DEF SignupRejected, SignupOnly, SignupStages
<1>4. CASE SignupOverwrites(s)
  <2> DEFINE a == signup[s].acct
             r == Flush(sub[a], signup[s].row, AsDemo(signup[s].row, s))
  <2>1. /\ a \in Accounts /\ sub[a] \in Rows /\ signup[s].row \in Rows
        /\ Exists(a) /\ signup[s].row.portal \in issuers[a] /\ sub[a].portal \in issuers[a]
        /\ signup[s].row.portal # None
    BY <1>4, SignupAccountType, CredentialRevealAssumption
       DEF SignupOverwrites, BillInv, BillTypes, SignupInv, Loaded, PortalTokenKept
  <2>2. r \in Rows /\ r.status # "none" /\ r.portal = sub[a].portal
    BY <2>1, DemoRow DEF Exists
  <2> HIDE DEF r
  <2>3. sub' = [sub EXCEPT ![a] = r]
    BY <1>4 DEF SignupOverwrites, r
  <2> QED BY <1>4, <2>1, <2>2, <2>3, SignupRowKeeps DEF SignupOverwrites
<1>5. CASE SignupIssuesKey(s)
  <2>1. signup[s].acct \in Accounts
    BY <1>5, SignupAccountType DEF SignupIssuesKey
  <2>2. /\ keys' \in [Accounts -> SUBSET Credentials]
        /\ \A b \in Accounts : keys[b] \subseteq keys'[b]
        /\ s \in keys'[signup[s].acct]
    BY <1>5, <1>a, <2>1, BillingAssumption DEF SignupIssuesKey
  <2> QED BY <1>5, <1>b, <2>2, SignupStepKeeps DEF SignupIssuesKey, SignupStages
<1>6. CASE SignupDies(s)
  <2>1. CASE signup[s].at = "issue"
    BY <1>6, <1>a, <1>b, <2>1, SignupStepKeeps DEF SignupDies, SignupOnly, SignupStages
  <2>2. CASE signup[s].at = "loaded"
    BY <1>6, <1>a, <1>b, <2>2, SignupStepKeeps DEF SignupDies, SignupOnly, SignupStages
  <2> QED BY <1>6, <2>1, <2>2 DEF SignupDies
<1> QED BY <1>1, <1>2, <1>3, <1>4, <1>5, <1>6 DEF SignupStep

-----------------------------------------------------------------------------
(* The other steps that change a row: the admin's cancellation, the clock  *)
(* and the sweep.                                                          *)

\* A row that has left its initial value is the row of an account that exists.
LEMMA RowExists ==
  ASSUME BillInv, NEW a \in Accounts, sub[a] # NoRow
  PROVE  Exists(a) /\ sub[a] \in Rows
BY DEF BillInv, BillTypes, RowsWhole, Exists

LEMMA StatusKeeps ==
  ASSUME BillInv, RowOnly, NEW a \in Accounts, Exists(a),
         NEW s \in {"active", "past_due", "canceled", "suspended"},
         sub' = [sub EXCEPT ![a].status = s]
  PROVE  BillInv'
<1>1. sub[a] \in Rows
  BY DEF BillInv, BillTypes
<1>2. /\ WithStatus(sub[a], s) \in Rows
      /\ WithStatus(sub[a], s).status # "none"
      /\ WithStatus(sub[a], s).portal = sub[a].portal
  BY <1>1, StatusColumn
<1>3. sub' = [sub EXCEPT ![a] = WithStatus(sub[a], s)]
  BY DEF WithStatus
<1> QED BY <1>2, <1>3, RowKeeps

LEMMA AccountKeeps ==
  ASSUME BillInv, NEW a \in Accounts, AccountStep(a)
  PROVE  BillInv'
<1>1. CASE CancelMarks(a)
  <2>1. sub[a] # NoRow
    BY <1>1 DEF CancelMarks, NoRow
  <2> QED BY <1>1, <2>1, RowExists, StatusKeeps DEF CancelMarks
<1>2. CASE GraceEnds(a)
  <2>1. sub[a] # NoRow
    BY <1>2 DEF GraceEnds, NoRow
  <2>2. Exists(a) /\ sub[a] \in Rows
    BY <2>1, RowExists
  <2>3. /\ WithGrace(sub[a], "over") \in Rows
        /\ WithGrace(sub[a], "over").status # "none"
        /\ WithGrace(sub[a], "over").portal = sub[a].portal
    BY <2>2, GraceColumn DEF Exists
  <2>4. sub' = [sub EXCEPT ![a] = WithGrace(sub[a], "over")]
    BY <1>2 DEF GraceEnds, WithGrace
  <2> QED BY <1>2, <2>2, <2>3, <2>4, RowKeeps DEF GraceEnds
<1>3. CASE UNCHANGED billVars
  BY <1>3, BillFrame
<1> QED
  BY <1>1, <1>2, <1>3
     DEF AccountStep, ConnectChecks, ConnectStarts, ConnectGivesUp, Disconnect, CancelStops,
         CancelDies

LEMMA SweepKeeps ==
  ASSUME BillInv, SweepStep
  PROVE  BillInv'
<1>1. CASE SweepMarks
  <2>1. CASE sweep.acct \in Accounts /\ Exists(sweep.acct)
    BY <1>1, <2>1, StatusKeeps DEF SweepMarks
  <2>2. CASE ~(sweep.acct \in Accounts /\ Exists(sweep.acct))
    <3>1. sub' = sub
      BY <1>1, <2>2 DEF SweepMarks, BillInv, BillTypes
    <3> QED BY <1>1, <3>1, BillFrame DEF SweepMarks, RowOnly, billVars
  <2> QED BY <2>1, <2>2
<1>2. CASE UNCHANGED billVars
  BY <1>2, BillFrame
<1> QED BY <1>1, <1>2 DEF SweepStep, SweepSelects, SweepChecks, SweepStops, SweepFails

-----------------------------------------------------------------------------
LEMMA BillInvInit == Init => BillInv
<1> SUFFICES ASSUME Init PROVE BillInv
  OBVIOUS
<1>1. BillTypes
  BY NoRowIsRow DEF Init, BillTypes, HookStages, SignupStages
<1>2. RowsWhole /\ PortalTokenKept
  BY DEF Init, RowsWhole, PortalTokenKept, Exists, NoRow
<1>3. HookInv /\ SignupInv /\ IssuerInv
  BY DEF Init, HookInv, SignupInv, IssuerInv
<1> QED BY <1>1, <1>2, <1>3 DEF BillInv

LEMMA BillInvNext == BillInv /\ [Next]_vars => BillInv'
<1> SUFFICES ASSUME BillInv, [Next]_vars PROVE BillInv'
  OBVIOUS
<1>1. CASE UNCHANGED billVars
  BY <1>1, BillFrame
<1>2. ASSUME NEW d \in Deliveries, WebhookStep(d) PROVE BillInv'
  BY <1>2, WebhookKeeps
<1>3. ASSUME NEW s \in Signups, SignupStep(s) PROVE BillInv'
  BY <1>3, DemoSignupKeeps
<1>4. ASSUME NEW a \in Accounts, AccountStep(a) PROVE BillInv'
  BY <1>4, AccountKeeps
<1>5. CASE SweepStep
  BY <1>5, SweepKeeps
<1> QED BY <1>1, <1>2, <1>3, <1>4, <1>5 DEF Next, vars

LEMMA BillInvAlways == Spec => []BillInv
BY BillInvInit, BillInvNext, PTL DEF Spec

\* A payment's activation and the demo signup never leave an account that came to life
\* without an issued key, except between the commit of the row and that of the key or
\* after a failure just there (subscription_service.py:117-118).
THEOREM BillingActivation == Spec => []ActivationHasKey
<1>1. BillInv => ActivationHasKey
  BY BillingAssumption
     DEF BillInv, BillTypes, IssuerInv, PortalTokenKept, ActivationHasKey, StageOf
<1> QED BY <1>1, BillInvAlways, PTL

\* "Preserve the existing portal token across renewals" (subscription_service.py:81),
\* however the payments, cancellations, signups and sweeps of an account interleave.
THEOREM BillingPortalToken == Spec => []PortalTokenKept
BY BillInvAlways, PTL DEF BillInv

-----------------------------------------------------------------------------
(* An event changes at most one row.                                       *)

\* What changed a row is recorded with it, and an event is recorded once.
AppliedInv ==
  \A e \in Events :
    \/ applied[e] = {}
    \/ e \in processed /\ \E d \in Deliveries : applied[e] = {d}

LEMMA AppliedNext == BillInv /\ AppliedInv /\ [Next]_vars => AppliedInv'
<1> SUFFICES ASSUME BillInv, AppliedInv, [Next]_vars PROVE AppliedInv'
  OBVIOUS
<1>1. CASE applied' = applied /\ processed \subseteq processed'
  BY <1>1 DEF AppliedInv
<1>2. ASSUME NEW d \in Deliveries, hook[d].evt \in Events,
             hook[d].evt \notin processed, Record(d),
             applied' = [applied EXCEPT ![hook[d].evt] = @ \cup {d}]
      PROVE  AppliedInv'
  <2>1. applied[hook[d].evt] = {}
    BY <1>2 DEF AppliedInv
  <2>2. applied'[hook[d].evt] = {d} /\ hook[d].evt \in processed'
    BY <1>2, <2>1 DEF BillInv, BillTypes, Record
  <2>3. \A e \in Events : e # hook[d].evt => applied'[e] = applied[e]
    BY <1>2 DEF BillInv, BillTypes
  <2> QED BY <1>2, <2>2, <2>3 DEF AppliedInv, Record
<1>3. ASSUME NEW d \in Deliveries, WebhookStep(d) PROVE AppliedInv'
  <2>1. CASE Renew(d)
    BY <1>2, <2>1, HookAccountType DEF Renew
  <2>2. CASE EndOfPayment(d)
    <3>1. hook[d].evt \in Events
      BY <2>2, HookAccountType DEF EndOfPayment
    <3>2. CASE applied' = applied
      BY <1>1, <2>2, <3>2 DEF EndOfPayment, Record
    <3>3. CASE applied' = [applied EXCEPT ![hook[d].evt] = @ \cup {d}]
      BY <1>2, <2>2, <3>1, <3>3 DEF EndOfPayment
    <3> QED BY <2>2, <3>2, <3>3 DEF EndOfPayment
  <2>3. CASE applied' = applied /\ processed' \in {processed, processed \cup {hook[d].evt}}
    BY <1>1, <2>3
  <2> QED
    BY <1>3, <2>1, <2>2, <2>3
       DEF WebhookStep, WebhookArrives, WebhookLoads, Activate, IssueKey, RecordActivation,
           Stash, RecordUnknown, DuplicateRejected, GateRunning, GateActive, GateStops,
           WebhookDies, HookOnly, Record
<1>4. ASSUME NEW s \in Signups, SignupStep(s) PROVE AppliedInv'
  BY <1>1, <1>4
     DEF SignupStep, SignupLoads, SignupInserts, SignupRejected, SignupOverwrites,
         SignupIssuesKey, SignupDies, SignupOnly
<1>5. ASSUME NEW a \in Accounts, AccountStep(a) PROVE AppliedInv'
  BY <1>1, <1>5
     DEF AccountStep, ConnectChecks, ConnectStarts, ConnectGivesUp, Disconnect, CancelMarks,
         CancelStops, CancelDies, GraceEnds, RowOnly, billVars
<1>6. CASE SweepStep
  BY <1>1, <1>6
     DEF SweepStep, SweepSelects, SweepChecks, SweepStops, SweepMarks, SweepFails, RowOnly,
         billVars
<1>7. CASE UNCHANGED billVars
  BY <1>1, <1>7 DEF billVars
<1> QED BY <1>3, <1>4, <1>5, <1>6, <1>7 DEF Next, vars

\* A webhook "delivered more than once" (subscription_service.py:44) changes a row it
\* found at most once, however many deliveries of it race: the unique constraint of
\* processed_payment_events rolls the others back.
THEOREM BillingAppliedOnce == Spec => []AppliedOnce
<1>1. Init => AppliedInv
  BY DEF Init, AppliedInv
<1>2. AppliedInv => AppliedOnce
  <2> SUFFICES ASSUME AppliedInv, NEW e \in Events PROVE Cardinality(applied[e]) <= 1
    BY DEF AppliedOnce
  <2>1. CASE applied[e] = {}
    BY <2>1, FS_EmptySet
  <2>2. CASE \E d \in Deliveries : applied[e] = {d}
    <3>1. PICK d \in Deliveries : applied[e] = {d}
      BY <2>2
    <3>2. Cardinality({d}) = 1
      BY FS_Singleton
    <3> QED BY <3>1, <3>2
  <2> QED BY <2>1, <2>2 DEF AppliedInv
<1> QED BY <1>1, <1>2, AppliedNext, BillInvAlways, PTL DEF Spec

-----------------------------------------------------------------------------
(* The claims of the credentials are those of CredentialReveal.            *)

\* Every step of the subscriptions is a step of the one-time claim, or leaves it alone.
THEOREM BillingImplementsReveal == Spec => RevealSpec
<1>1. Init => RevealInit
  BY DEF Init
<1>2. BillInv /\ [Next]_vars => [RevealNext]_revealVars
  <2> SUFFICES ASSUME BillInv, [Next]_vars PROVE RevealNext \/ UNCHANGED revealVars
    OBVIOUS
  <2>1. ASSUME NEW d \in Deliveries, WebhookStep(d)
        PROVE  RevealNext \/ UNCHANGED revealVars
    <3>1. CASE Stash(d)
      <4>1. HookAccount(d) \in Accounts /\ d \in Credentials
        BY <3>1, HookAccountType, BillingAssumption DEF Stash
      <4> QED BY <3>1, <4>1 DEF Stash, RevealNext
    <3>2. CASE UNCHANGED revealVars
      BY <3>2
    <3> QED
      BY <2>1, <3>1, <3>2
         DEF WebhookStep, WebhookArrives, WebhookLoads, Activate, IssueKey, RecordActivation,
             Renew, EndOfPayment, RecordUnknown, DuplicateRejected, GateRunning, GateActive,
             GateStops, WebhookDies, HookOnly
  <2>2. ASSUME NEW s \in Signups, SignupStep(s) PROVE UNCHANGED revealVars
    BY <2>2
       DEF SignupStep, SignupLoads, SignupInserts, SignupRejected, SignupOverwrites,
           SignupIssuesKey, SignupDies, SignupOnly
  <2>3. ASSUME NEW a \in Accounts, AccountStep(a) PROVE UNCHANGED revealVars
    BY <2>3
       DEF AccountStep, ConnectChecks, ConnectStarts, ConnectGivesUp, Disconnect, CancelMarks,
           CancelStops, CancelDies, GraceEnds, RowOnly
  <2>4. CASE SweepStep
    BY <2>4
       DEF SweepStep, SweepSelects, SweepChecks, SweepStops, SweepMarks, SweepFails, RowOnly
  <2>5. CASE RevealStep
    BY <2>5 DEF RevealNext
  <2> QED BY <2>1, <2>2, <2>3, <2>4, <2>5 DEF Next, vars
<1> QED BY <1>1, <1>2, BillInvAlways, PTL DEF Spec, RevealSpec

\* The one-time claim keeps its promises in a system whose webhooks, signups and
\* cancellations decide on the stashes: a replay gets nothing, an early token survives.
THEOREM BillingClaims == Spec => [](ReplayGetsNothing /\ UnusedTokenSurvives)
BY BillingImplementsReveal, RevealReplay, RevealKeepsTokens, PTL

-----------------------------------------------------------------------------
(* Who has a worker.                                                       *)

LEMMA WorkNext == BillInv /\ WorkTypes /\ [Next]_vars => WorkTypes'
<1> SUFFICES ASSUME BillInv, WorkTypes, [Next]_vars PROVE WorkTypes'
  OBVIOUS
<1>1. CASE UNCHANGED workVars
  BY <1>1 DEF WorkTypes, workVars
<1>2. ASSUME NEW d \in Deliveries, WebhookStep(d) PROVE WorkTypes'
  <2>1. CASE GateStops(d)
    BY <2>1 DEF GateStops, WorkTypes
  <2>2. CASE WebhookDies(d)
    <3>1. HookAccount(d) \in Accounts
      BY <2>2, HookAccountType DEF WebhookDies
    <3> QED BY <2>2, <3>1 DEF WebhookDies, WorkTypes
  <2> QED
    BY <1>1, <1>2, <2>1, <2>2
       DEF WebhookStep, WebhookArrives, WebhookLoads, Activate, IssueKey, RecordActivation,
           Stash, Renew, EndOfPayment, RecordUnknown, DuplicateRejected, GateRunning,
           GateActive, HookOnly
<1>3. ASSUME NEW s \in Signups, SignupStep(s) PROVE WorkTypes'
  BY <1>1, <1>3
     DEF SignupStep, SignupLoads, SignupInserts, SignupRejected, SignupOverwrites,
         SignupIssuesKey, SignupDies, SignupOnly
<1>4. ASSUME NEW a \in Accounts, AccountStep(a) PROVE WorkTypes'
  BY <1>4
     DEF AccountStep, ConnectChecks, ConnectStarts, ConnectGivesUp, Disconnect, CancelMarks,
         CancelStops, CancelDies, GraceEnds, WorkTypes, workVars
<1>5. CASE SweepStep
  <2>1. running' \subseteq Accounts /\ UNCHANGED <<connecting, canceling, slipped>>
    BY <1>5 DEF SweepStep, SweepSelects, SweepChecks, SweepStops, SweepMarks, SweepFails, WorkTypes
  <2>2. sweep' \in [at : {"asleep", "next", "stop", "mark"},
                    todo : SUBSET Accounts, acct : Accounts \cup {None}]
    <3>1. CASE SweepSelects
      BY <3>1 DEF SweepSelects, Lapsed
    <3>2. ASSUME NEW a \in Accounts, SweepChecks(a)
          PROVE  sweep' \in [at : {"asleep", "next", "stop", "mark"},
                             todo : SUBSET Accounts, acct : Accounts \cup {None}]
      BY <3>2 DEF SweepChecks, WorkTypes
    <3>3. CASE SweepStops
      BY <3>3 DEF SweepStops, WorkTypes
    <3>4. CASE SweepMarks
      BY <3>4 DEF SweepMarks, WorkTypes, Asleep
    <3>5. CASE SweepFails
      BY <3>5 DEF SweepFails, Asleep
    <3> QED BY <1>5, <3>1, <3>2, <3>3, <3>4, <3>5 DEF SweepStep
  <2> QED BY <2>1, <2>2 DEF WorkTypes
<1> QED BY <1>1, <1>2, <1>3, <1>4, <1>5 DEF Next, vars

\* Type correctness of the composed system: subscriptions, calls, workers and claims.
THEOREM BillingTypes == Spec => []BillingTypeOK
<1>1. Init => WorkTypes
  BY DEF Init, WorkTypes, Asleep
<1>2. Spec => []WorkTypes
  BY <1>1, WorkNext, BillInvAlways, PTL DEF Spec
<1>3. BillInv => BillTypes
  BY DEF BillInv
<1> QED BY <1>2, <1>3, BillInvAlways, BillingImplementsReveal, RevealTypes, PTL DEF BillingTypeOK

\* Stages of the call that is about to stop the worker of a canceled account.
Gate == {"gate", "check", "stop"}

\* Steps after which no account is newly canceled, has a new worker, or has lost the
\* call that is about to stop it.
LEMMA CanceledFrame ==
  ASSUME CanceledIsDisconnected, BillInv, WorkTypes,
         \A a \in running' :
           /\ sub'[a].status = "canceled" => a \in running /\ sub[a].status = "canceled"
           /\ a \in canceling \cup slipped => a \in canceling' \cup slipped',
         \A d \in Deliveries :
           hook[d].at \in Gate =>
             \/ hook'[d] = hook[d]
             \/ hook'[d].at \in Gate /\ hook'[d].evt = hook[d].evt
             \/ HookAccount(d) \in running' =>
                  \/ sub'[HookAccount(d)].status # "canceled"
                  \/ HookAccount(d) \in canceling' \cup slipped'
  PROVE  CanceledIsDisconnected'
<1> SUFFICES ASSUME NEW a \in running', sub'[a].status = "canceled",
                    a \notin canceling' \cup slipped'
             PROVE  \E d \in Deliveries : hook'[d].at \in Gate /\ EventFor[hook'[d].evt] = a
  BY DEF CanceledIsDisconnected, Gate, HookAccount
<1>1. PICK d \in Deliveries : hook[d].at \in Gate /\ HookAccount(d) = a
  BY DEF CanceledIsDisconnected, Gate
<1>2. hook'[d].at \in Gate /\ hook'[d].evt = hook[d].evt
  BY <1>1
<1> QED BY <1>1, <1>2 DEF HookAccount

\* The steps of a webhook call.
LEMMA WebhookCanceled ==
  ASSUME CanceledIsDisconnected, BillInv, WorkTypes, NEW d \in Deliveries, WebhookStep(d)
  PROVE  CanceledIsDisconnected'
<1> DEFINE a == HookAccount(d)
<1>g. \A at \in HookStages : HookGoes(d, at) => hook'[d].at = at /\ hook'[d].evt = hook[d].evt
  BY DEF HookGoes, BillInv, BillTypes
<1>a. \A e \in Deliveries : e # d => hook'[e] = hook[e]
  BY DEF WebhookStep, WebhookArrives, WebhookLoads, Activate, IssueKey, RecordActivation,
         Stash, Renew, EndOfPayment, RecordUnknown, DuplicateRejected, GateRunning,
         GateActive, GateStops, WebhookDies, HookGoes, BillInv, BillTypes
<1>b. ASSUME running' = running, canceling' = canceling, slipped' = slipped,
             hook[d].at \notin Gate,
             \A b \in Accounts : sub'[b].status = "canceled" => sub[b].status = "canceled"
      PROVE  CanceledIsDisconnected'
  BY <1>a, <1>b, CanceledFrame DEF WorkTypes
<1>1. CASE UNCHANGED <<sub, running, canceling, slipped>> /\ hook[d].at \notin Gate
  BY <1>1, <1>b
<1>2. CASE Activate(d) \/ Renew(d)
  <2>1. \A b \in Accounts : sub'[b].status = "canceled" => sub[b].status = "canceled"
    BY <1>2 DEF Activate, Renew, Upserted, BillInv, BillTypes
  <2> QED BY <1>2, <1>b, <2>1 DEF Activate, Renew, workVars, Gate
<1>3. CASE EndOfPayment(d)
  <2>1. hook'[d].at \in Gate /\ hook'[d].evt = hook[d].evt
    BY <1>3, <1>g DEF EndOfPayment, HookStages, Gate
  <2>2. \A b \in Accounts : b # a => sub'[b] = sub[b]
    BY <1>3 DEF EndOfPayment, BillInv, BillTypes
  <2>3. UNCHANGED <<running, canceling, slipped>>
    BY <1>3 DEF EndOfPayment, workVars
  <2> SUFFICES ASSUME NEW b \in running, sub'[b].status = "canceled",
                      b \notin canceling \cup slipped
               PROVE  \E e \in Deliveries : hook'[e].at \in Gate /\ EventFor[hook'[e].evt] = b
    BY <2>3 DEF CanceledIsDisconnected, Gate, HookAccount
  <2>4. CASE b = a
    BY <2>1, <2>4 DEF HookAccount
  <2>5. CASE b # a
    <3>1. PICK e \in Deliveries : hook[e].at \in Gate /\ HookAccount(e) = b
      BY <2>2, <2>5 DEF CanceledIsDisconnected, Gate, WorkTypes
    <3>2. hook'[e] = hook[e]
      BY <1>a, <2>5, <3>1
    <3> QED BY <3>1, <3>2 DEF HookAccount
  <2> QED BY <2>4, <2>5
<1>4. CASE GateRunning(d)
  <2>1. \/ hook'[d].at \in Gate /\ hook'[d].evt = hook[d].evt
        \/ a \notin running
    BY <1>4, <1>g DEF GateRunning, HookStages, Gate
  <2> QED BY <1>4, <1>a, <2>1, CanceledFrame DEF GateRunning, HookOnly, workVars
<1>5. CASE GateActive(d)
  <2>1. \/ hook'[d].at \in Gate /\ hook'[d].evt = hook[d].evt
        \/ sub[a].status # "canceled"
    BY <1>5, <1>g DEF GateActive, IsActive, HookStages, Gate
  <2> QED BY <1>5, <1>a, <2>1, CanceledFrame DEF GateActive, HookOnly, workVars
<1>6. CASE GateStops(d)
  <2>1. UNCHANGED <<sub, canceling, slipped>> /\ running' = running \ {a}
    BY <1>6 DEF GateStops
  <2> QED BY <1>a, <2>1, CanceledFrame
<1>7. CASE WebhookDies(d)
  <2>1. UNCHANGED <<sub, running, canceling>> /\ slipped \subseteq slipped'
    BY <1>7 DEF WebhookDies
  <2>2. hook[d].at \in Gate => a \in slipped'
    BY <1>7 DEF WebhookDies, Gate
  <2> QED BY <1>a, <2>1, <2>2, CanceledFrame
<1> QED
  BY <1>1, <1>2, <1>3, <1>4, <1>5, <1>6, <1>7
     DEF WebhookStep, WebhookArrives, WebhookLoads, IssueKey, RecordActivation, Stash,
         RecordUnknown, DuplicateRejected, HookOnly, workVars, Gate

\* The steps of a signup: an account it writes is active, or as canceled as it was.
LEMMA SignupCanceled ==
  ASSUME CanceledIsDisconnected, BillInv, WorkTypes, NEW s \in Signups, SignupStep(s)
  PROVE  CanceledIsDisconnected'
<1>1. hook' = hook /\ UNCHANGED <<running, canceling, slipped>>
  BY DEF SignupStep, SignupLoads, SignupInserts, SignupRejected, SignupOverwrites,
         SignupIssuesKey, SignupDies, SignupOnly, workVars
<1>2. \A b \in Accounts : sub'[b].status = "canceled" => sub[b].status = "canceled"
  <2>1. CASE sub' = sub
    BY <2>1
  <2>2. CASE SignupInserts(s)
    BY <2>2 DEF SignupInserts, BillInv, BillTypes
  <2>3. CASE SignupOverwrites(s)
    <3> DEFINE a == signup[s].acct
               r == Flush(sub[a], signup[s].row, AsDemo(signup[s].row, s))
    <3>1. /\ a \in Accounts /\ sub[a] \in Rows /\ signup[s].row \in Rows
          /\ signup[s].row.portal # None
      BY <2>3, SignupAccountType, CredentialRevealAssumption
         DEF SignupOverwrites, BillInv, BillTypes, SignupInv, Loaded
    <3>2. r.status \in {"active", sub[a].status}
      BY <3>1, DemoRow
    <3>3. sub' = [sub EXCEPT ![a] = r]
      BY <2>3 DEF SignupOverwrites
    <3> HIDE DEF r
    <3> QED BY <3>1, <3>2, <3>3 DEF BillInv, BillTypes
  <2> QED
    BY <2>1, <2>2, <2>3
       DEF SignupStep, SignupLoads, SignupRejected, SignupIssuesKey, SignupDies, SignupOnly
<1> QED BY <1>1, <1>2, CanceledFrame DEF WorkTypes

\* /connect, /disconnect, the admin's cancellation and the clock.
LEMMA AccountCanceled ==
  ASSUME CanceledIsDisconnected, BillInv, WorkTypes, NEW a \in Accounts, AccountStep(a)
  PROVE  CanceledIsDisconnected'
<1>1. hook' = hook
  BY DEF AccountStep, ConnectChecks, ConnectStarts, ConnectGivesUp, Disconnect, CancelMarks,
         CancelStops, CancelDies, GraceEnds, billVars, RowOnly
<1>2. CASE ConnectStarts(a)
  <2>1. \A b \in running' : b # a => b \in running
    BY <1>2 DEF ConnectStarts
  <2>2. UNCHANGED <<sub, canceling>> /\ slipped \subseteq slipped'
    BY <1>2 DEF ConnectStarts, billVars
  <2>3. sub[a].status = "canceled" => a \in slipped'
    BY <1>2 DEF ConnectStarts, MayConnect
  <2> QED BY <1>1, <2>1, <2>2, <2>3 DEF CanceledIsDisconnected, HookAccount
<1>3. CASE CancelMarks(a)
  <2>1. \A b \in Accounts : b # a => sub'[b] = sub[b]
    BY <1>3 DEF CancelMarks, BillInv, BillTypes
  <2>2. UNCHANGED <<running, slipped>> /\ canceling' = canceling \cup {a}
    BY <1>3 DEF CancelMarks
  <2> QED BY <1>1, <2>1, <2>2 DEF CanceledIsDisconnected, HookAccount, WorkTypes
<1>4. CASE CancelStops(a)
  <2>1. UNCHANGED <<sub, slipped>> /\ canceling' = canceling \ {a} /\ running' = running \ {a}
    BY <1>4 DEF CancelStops, billVars
  <2> QED BY <1>1, <2>1 DEF CanceledIsDisconnected, HookAccount
<1>5. CASE CancelDies(a)
  <2>1. UNCHANGED <<sub, running>> /\ canceling' = canceling \ {a} /\ slipped' = slipped \cup {a}
    BY <1>5 DEF CancelDies, billVars
  <2> QED BY <1>1, <2>1 DEF CanceledIsDisconnected, HookAccount
<1>6. CASE Disconnect(a)
  <2>1. UNCHANGED <<sub, canceling, slipped>> /\ running' = running \ {a}
    BY <1>6 DEF Disconnect, billVars
  <2> QED BY <1>1, <2>1 DEF CanceledIsDisconnected, HookAccount
<1>7. CASE GraceEnds(a)
  <2>1. \A b \in Accounts : sub'[b].status = sub[b].status
    BY <1>7 DEF GraceEnds, BillInv, BillTypes, Rows
  <2>2. UNCHANGED <<running, canceling, slipped>>
    BY <1>7 DEF GraceEnds, workVars
  <2> QED BY <1>1, <2>1, <2>2, CanceledFrame DEF WorkTypes
<1>8. CASE ConnectChecks(a) \/ ConnectGivesUp(a)
  <2>1. UNCHANGED <<sub, running, canceling, slipped>>
    BY <1>8 DEF ConnectChecks, ConnectGivesUp, billVars
  <2> QED BY <1>1, <2>1, CanceledFrame
<1> QED BY <1>2, <1>3, <1>4, <1>5, <1>6, <1>7, <1>8 DEF AccountStep

\* The sweep cancels nobody and connects nobody.
LEMMA SweepCanceled ==
  ASSUME CanceledIsDisconnected, BillInv, WorkTypes, SweepStep
  PROVE  CanceledIsDisconnected'
<1>1. hook' = hook /\ running' \subseteq running /\ UNCHANGED <<canceling, slipped>>
  BY DEF SweepStep, SweepSelects, SweepChecks, SweepStops, SweepMarks, SweepFails, RowOnly,
         billVars
<1>2. \A b \in Accounts : sub'[b].status = "canceled" => sub[b].status = "canceled"
  <2>1. CASE sub' = sub
    BY <2>1
  <2>2. CASE SweepMarks
    BY <2>2 DEF SweepMarks, BillInv, BillTypes, Rows
  <2> QED
    BY <2>1, <2>2 DEF SweepStep, SweepSelects, SweepChecks, SweepStops, SweepFails, billVars
<1> QED BY <1>1, <1>2, CanceledFrame DEF WorkTypes

LEMMA CanceledNext ==
  BillInv /\ WorkTypes /\ CanceledIsDisconnected /\ [Next]_vars => CanceledIsDisconnected'
<1> SUFFICES ASSUME BillInv, WorkTypes, CanceledIsDisconnected, [Next]_vars
             PROVE  CanceledIsDisconnected'
  OBVIOUS
<1>1. CASE UNCHANGED <<billVars, workVars>>
  <2>1. UNCHANGED <<sub, hook, running, canceling, slipped>>
    BY <1>1 DEF billVars, workVars
  <2> QED BY <2>1, CanceledFrame
<1> QED
  BY <1>1, WebhookCanceled, SignupCanceled, AccountCanceled, SweepCanceled DEF Next, vars

\* A canceled account has no worker, but for the call that is about to stop it, a
\* /connect that overtook the cancellation, and a call that failed half-way
\* (subscription_router.py:112-119, 246-250): nobody else connects it again.
THEOREM BillingCanceled == Spec => []CanceledIsDisconnected
<1>1. Init => WorkTypes /\ CanceledIsDisconnected
  BY DEF Init, WorkTypes, Asleep, CanceledIsDisconnected
<1>2. Spec => []WorkTypes
  BY <1>1, WorkNext, BillInvAlways, PTL DEF Spec
<1> QED BY <1>1, <1>2, CanceledNext, BillInvAlways, PTL DEF Spec

-----------------------------------------------------------------------------
(* What Billing takes from the payment providers (PaymentAdapters), for    *)
(* every notification and every answer.                                    *)

A == INSTANCE PaymentAdapters WITH Absent <- None, Empty <- ""

\* What an adapter asks for at the checkout of an account.
CheckoutsOf(account) ==
  UNION { { A!StripeCheckout(prices, account, plan), A!PaystackCheckout(prices, account, plan),
            A!FlutterwaveCheckout(prices, account, plan) } :
            prices \in [{"monthly"} -> Nat], plan \in STRING }

\* A notice is applied to the account of its checkout, or to nobody: whatever of the
\* checkout it echoes, and whichever adapter reads it (parse_webhook_event).
THEOREM PaysForItsAccount ==
  ASSUME NEW account, NEW k \in CheckoutsOf(account), NEW n, A!Echoes(k, n),
         NEW provider \in A!Providers, NEW fresh
  PROVE  A!Parse(provider, n, fresh).account \in {None, account}
<1>1. PICK prices \in [{"monthly"} -> Nat], plan \in STRING :
        k \in { A!StripeCheckout(prices, account, plan), A!PaystackCheckout(prices, account, plan),
                A!FlutterwaveCheckout(prices, account, plan) }
  BY DEF CheckoutsOf
<1>2. k.account = account /\ k.client_ref \in {None, account}
  BY <1>1 DEF A!StripeCheckout, A!PaystackCheckout, A!FlutterwaveCheckout
<1>3. n.account \in {None, account} /\ n.client_ref \in {None, account}
  BY <1>2 DEF A!Echoes
<1>4. CASE provider = "stripe"
  BY <1>3, <1>4 DEF A!Parse, A!ParseStripe, A!Or
<1>5. CASE provider = "paystack"
  BY <1>3, <1>5 DEF A!Parse, A!ParsePaystack
<1>6. CASE provider = "flutterwave"
  BY <1>3, <1>6 DEF A!Parse, A!ParseFlutterwave
<1> QED
  BY <1>4, <1>5, <1>6 DEF A!Providers

\* What names the event of a notice, or None.  An empty id is none, but to Stripe's adapter.
NameOf(provider, n) ==
  IF provider = "stripe" THEN n.id ELSE A!Or(n.id, A!Or(n.ref, None))

\* Two notices get one event id, which already_processed looks for, exactly when they
\* carry the same name, whatever their status (base.py:43); one that carries none is
\* never a repetition, not even of itself.
THEOREM RepeatsItsTransaction ==
  ASSUME NEW provider \in A!Providers, NEW m, NEW n, NEW u, NEW v, u # v,
         u # NameOf(provider, n), v # NameOf(provider, m)
  PROVE  A!Parse(provider, m, u).id = A!Parse(provider, n, v).id
           <=> NameOf(provider, m) # None /\ NameOf(provider, m) = NameOf(provider, n)
<1>1. \A x, f : A!Parse(provider, x, f).id = A!Default(NameOf(provider, x), f)
  <2>1. CASE provider = "stripe"
    BY <2>1 DEF A!Parse, A!ParseStripe, NameOf
  <2>2. CASE provider = "paystack"
    BY <2>2 DEF A!Parse, A!ParsePaystack, NameOf, A!Or, A!Default
  <2>3. CASE provider = "flutterwave"
    BY <2>3 DEF A!Parse, A!ParseFlutterwave, NameOf, A!Or, A!Default
  <2> QED
    BY <2>1, <2>2, <2>3 DEF A!Providers
<1> QED
  BY <1>1 DEF A!Default

NatLess == { ss \in Nat \X Nat : ss[1] < ss[2] }

\* Every nonempty set of numbers has a least one.
LEMMA LeastNatural ==
  ASSUME NEW S \in SUBSET Nat, S # {}
  PROVE  \E m \in S : \A k \in S : m <= k
<1>1. IsWellFoundedOn(NatLess, Nat)
  BY NatLessThanWellFounded DEF OpToRel, NatLess
<1>2. \E m \in S : \A k \in S : ~(<<k, m>> \in NatLess)
  BY <1>1, WFMin
<1>3. \A k, m \in S : ~(<<k, m>> \in NatLess) => m <= k
  BY DEF NatLess
<1> QED
  BY <1>2, <1>3

\* However many subscriptions are listed, a cancellation that is reported was confirmed
\* by the provider, and is of the first listed that is to the plan on record.
THEOREM CancelsTheFirst ==
  ASSUME NEW Ids, None \notin Ids, NEW Plans, NEW kept, NEW listed, NEW cancelled,
         NEW listing \in Seq([id : Ids, plan : Plans]), NEW done,
         done = A!FlutterwaveCancel(kept, listed, listing, cancelled)
  PROVE  done # None <=>
           /\ kept.customer # None /\ listed = 200 /\ cancelled = 200
           /\ \E i \in DOMAIN listing :
                /\ listing[i].plan = kept.subscription /\ listing[i].id = done
                /\ \A j \in 1 .. i - 1 : listing[j].plan # kept.subscription
<1> DEFINE found == { i \in DOMAIN listing : listing[i].plan = kept.subscription }
           first == CHOOSE i \in found : \A j \in found : i <= j
<1>1. DOMAIN listing = 1 .. Len(listing) /\ Len(listing) \in Nat
  OBVIOUS
<1>2. ASSUME NEW i \in DOMAIN listing
      PROVE  listing[i].id # None
  <2>1. PICK Subscriptions : Subscriptions = [id : Ids, plan : Plans]
    OBVIOUS
  <2>2. listing \in Seq(Subscriptions) /\ i \in 1 .. Len(listing)
    BY <2>1, <1>1
  <2>3. listing[i] \in Subscriptions
    BY <2>2
  <2> QED
    BY <2>1, <2>3
<1>3. A!FlutterwaveMatch(kept, listing) = IF found = {} THEN None ELSE listing[first].id
  BY DEF A!FlutterwaveMatch
<1>4. found # {} => /\ first \in DOMAIN listing /\ listing[first].plan = kept.subscription
                    /\ \A j \in 1 .. first - 1 : listing[j].plan # kept.subscription
  <2> SUFFICES ASSUME found # {}
               PROVE  /\ first \in DOMAIN listing /\ listing[first].plan = kept.subscription
                      /\ \A j \in 1 .. first - 1 : listing[j].plan # kept.subscription
    OBVIOUS
  <2>1. found \in SUBSET Nat
    BY <1>1
  <2>2. \E i \in found : \A j \in found : i <= j
    BY <2>1, LeastNatural
  <2>3. first \in found /\ \A j \in found : first <= j
    BY <2>2
  <2>4. ASSUME NEW j \in 1 .. first - 1
        PROVE  listing[j].plan # kept.subscription
    <3>1. first \in 1 .. Len(listing)
      BY <2>3, <1>1
    <3>2. j \in DOMAIN listing /\ ~(first <= j)
      BY <3>1, <1>1
    <3> QED
      BY <3>2, <2>3
  <2> QED
    BY <2>3, <2>4
<1>5. ASSUME NEW i \in DOMAIN listing, listing[i].plan = kept.subscription,
             \A j \in 1 .. i - 1 : listing[j].plan # kept.subscription
      PROVE  found # {} /\ i = first
  <2>1. i \in found
    BY <1>5
  <2>2. first \in 1 .. Len(listing) /\ listing[first].plan = kept.subscription
    BY <2>1, <1>1, <1>4
  <2>3. ~(first <= i - 1) /\ ~(i <= first - 1)
    BY <2>1, <2>2, <1>1, <1>4, <1>5
  <2> HIDE DEF first, found
  <2> QED
    BY <2>1, <2>2, <2>3, <1>1
<1> HIDE DEF first, found
<1> QED
  BY <1>2, <1>3, <1>4, <1>5 DEF A!FlutterwaveCancel
=============================================================================
