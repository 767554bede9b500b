------------------------------- MODULE Billing -------------------------------
(***************************************************************************)
(* Subscriptions: the payment webhook, the demo signup, the admin's        *)
(* cancellation, the sweep of lapsed accounts and the entry check of       *)
(* /connect (subscription_service.py, subscription_router.py, startup.py,  *)
(* trading_router.py, issue_api_key of security.py), composed with the     *)
(* one-time claim of the credentials (CredentialReveal).                   *)
(*                                                                         *)
(* A call is modelled from one committed database transaction to the next: *)
(* a row is loaded (READ COMMITTED), and what was changed in it is flushed *)
(* and committed together with the event, or not at all.  Webhooks are     *)
(* repeated, reordered and concurrent; several API processes may run.      *)
(***************************************************************************)
EXTENDS CredentialReveal, FiniteSets

CONSTANTS
  Deliveries,    \* webhook calls, each delivering one event
  Signups,       \* calls of POST /demo/signup
  Events,        \* provider events (provider, provider_event_id)
  KindOf,        \* Events -> {"succeeded", "failed", "canceled", "unknown"}
  EventFor,      \* Events -> Accounts (an event that names none changes nothing)
  CallsMayDie    \* whether a call may fail between two of its transactions

ASSUME BillingAssumption ==
  /\ Credentials = Deliveries \cup Signups
  /\ Deliveries \cap Signups = {}
  /\ None \notin Events
  /\ KindOf \in [Events -> {"succeeded", "failed", "canceled", "unknown"}]
  /\ EventFor \in [Events -> Accounts]
  /\ CallsMayDie \in BOOLEAN

VARIABLES
  sub,         \* the row of each account in `subscriptions', or NoRow
  processed,   \* processed_payment_events
  keys,        \* valid mobile API keys of each account, by the call that issued them
  running,     \* accounts with a registered MT5 worker (is_running)
  hook,        \* where each webhook call is, and the row it has loaded
  signup,      \* the same for each demo signup
  connecting,  \* accounts whose /connect has passed the check of the plan
  canceling,   \* accounts whose cancellation route has still to stop the worker
  sweep,       \* the background sweep
  applied,     \* history: which deliveries of an event changed a row they found
  issuers,     \* history: the calls that took themselves for the first activation
  slipped      \* history: accounts connected after their plan had ended, or whose
               \* disconnection failed half-way

billVars == <<sub, processed, keys, hook, signup, applied, issuers>>
workVars == <<running, connecting, canceling, sweep, slipped>>
vars     == <<revealVars, billVars, workVars>>

NoRow == [status |-> "none", plan |-> "none", grace |-> "none",
          provider |-> "none", portal |-> None]

Rows == [status   : {"none", "active", "past_due", "canceled", "suspended"},
         plan     : {"none", "starter", "demo"},
         grace    : {"none", "running", "over"},     \* grace_period_ends_at
         provider : {"none", "demo", "card"},        \* "card": one of ADAPTERS
         portal   : Credentials \cup {None}]

Exists(a) == sub[a].status # "none"

\* Mutant of IsActive: a grace period counts whatever the status is.
IsActiveInGrace(a) ==
  sub[a].status = "active" \/ sub[a].grace = "running"

\* is_active
IsActive(a) ==
  \/ sub[a].status = "active"
  \/ sub[a].status = "past_due" /\ sub[a].grace = "running"

\* get_lapsed_accounts
Lapsed == {a \in Accounts : sub[a].status = "past_due" /\ sub[a].grace = "over"}

\* The plans /connect lets in: get_plan is "live" or "demo".
MayConnect(a) == sub[a].status \in {"active", "past_due"} /\ sub[a].plan = "demo"

\* session.commit() of a loaded row: only the columns whose value differs from the
\* loaded one are in the UPDATE.
Flush(row, loaded, new) ==
  LET column(f) == IF new[f] = loaded[f] THEN row[f] ELSE new[f] IN
    [status   |-> column("status"),
     plan     |-> column("plan"),
     grace    |-> column("grace"),
     provider |-> column("provider"),
     portal   |-> column("portal")]

HookAccount(d) == EventFor[hook[d].evt]
HookKind(d)    == KindOf[hook[d].evt]

\* A call goes on; what it had loaded is forgotten once it is written back.
HookGoes(d, at) ==
  hook' = [hook EXCEPT ![d] = [at |-> at, evt |-> hook[d].evt, row |-> NoRow]]
SignupGoes(s, at) ==
  signup' = [signup EXCEPT ![s] = [at |-> at, acct |-> signup[s].acct, row |-> NoRow]]

\* The transaction that records the event, and with it what the event changed.
Record(d) == processed' = processed \cup {hook[d].evt}

\* Only the call itself moves.
HookOnly   == UNCHANGED <<revealVars, sub, processed, keys, signup, applied, issuers, workVars>>
SignupOnly == UNCHANGED <<revealVars, sub, processed, keys, hook, applied, issuers, workVars>>
\* Of the subscription state only the row moves.
RowOnly    == UNCHANGED <<revealVars, processed, keys, hook, signup, applied, issuers>>

-----------------------------------------------------------------------------
(* POST /webhook/{provider}: already_processed, apply_event, stash, gate.  *)

\* already_processed, in a session of its own.
WebhookArrives(d, e) ==
  /\ hook[d].at = "idle"
  /\ hook' = [hook EXCEPT ![d] =
       [at |-> IF e \in processed THEN "again" ELSE "fresh", evt |-> e, row |-> NoRow]]
  /\ HookOnly

\* session.get(Subscription): no row is NoRow.
WebhookLoads(d) ==
  /\ hook[d].at = "fresh"
  /\ hook' = [hook EXCEPT ![d] =
       [at |-> "loaded", evt |-> hook[d].evt, row |-> sub[HookAccount(d)]]]
  /\ HookOnly

\* Mutant of Upserted: the portal token is the account's, not a call's.
UpsertedUntyped(d) ==
  [sub[HookAccount(d)] EXCEPT !.status = "active", !.portal = HookAccount(d)]

\* Mutant of Upserted: every payment draws a new portal token.
UpsertedAfresh(d) ==
  [status |-> "active", grace |-> "none", provider |-> "card", portal |-> d,
   plan |-> IF Exists(HookAccount(d)) THEN sub[HookAccount(d)].plan ELSE "starter"]

\* The upsert of a successful payment; d names a portal token drawn by it.
Upserted(d) ==
  LET row == sub[HookAccount(d)]
      old == hook[d].row
  IN  [status   |-> "active",
       plan     |-> IF row = NoRow THEN "starter" ELSE row.plan,
       grace    |-> "none",
       provider |-> "card",
       portal   |-> IF old.portal # None THEN old.portal ELSE d]

\* Mutant of Activate: the row is looked up after the upsert, and is always found.
ActivateAsRenewal(d) ==
  LET a == HookAccount(d) IN
    /\ hook[d].at = "loaded"
    /\ HookKind(d) = "succeeded"
    /\ hook[d].row = NoRow
    /\ sub'     = [sub EXCEPT ![a] = Upserted(d)]
    /\ issuers' = [issuers EXCEPT ![a] = @ \cup {d}]
    /\ HookGoes(d, "record")
    /\ UNCHANGED <<revealVars, processed, keys, signup, applied, workVars>>

\* First activation, as far as this call knows: the row is committed at once.
Activate(d) ==
  LET a == HookAccount(d) IN
    /\ hook[d].at = "loaded"
    /\ HookKind(d) = "succeeded"
    /\ hook[d].row = NoRow
    /\ sub'     = [sub EXCEPT ![a] = Upserted(d)]
    /\ issuers' = [issuers EXCEPT ![a] = @ \cup {d}]
    /\ HookGoes(d, "issue")
    /\ UNCHANGED <<revealVars, processed, keys, signup, applied, workVars>>

\* issue_api_key, in a session of its own.
IssueKey(d) ==
  LET a == HookAccount(d) IN
    /\ hook[d].at = "issue"
    /\ keys' = [keys EXCEPT ![a] = @ \cup {d}]
    /\ HookGoes(d, "record")
    /\ UNCHANGED <<revealVars, sub, processed, signup, applied, issuers, workVars>>

\* The event of a first activation is recorded after the fact.
RecordActivation(d) ==
  /\ hook[d].at = "record"
  /\ hook[d].evt \notin processed
  /\ Record(d)
  /\ HookGoes(d, "stash")
  /\ UNCHANGED <<revealVars, sub, keys, signup, applied, issuers, workVars>>

\* stash_credentials, and the webhook has been answered.
Stash(d) ==
  /\ hook[d].at = "stash"
  /\ StashCredentials(HookAccount(d), d)
  /\ HookGoes(d, "done")
  /\ UNCHANGED <<sub, processed, keys, signup, applied, issuers, workVars>>

\* Renewal: the upsert and the event in one transaction.
Renew(d) ==
  LET a == HookAccount(d) IN
    /\ hook[d].at = "loaded"
    /\ HookKind(d) = "succeeded"
    /\ hook[d].row # NoRow
    /\ hook[d].evt \notin processed
    /\ Record(d)
    /\ sub'     = [sub EXCEPT ![a] = Upserted(d)]
    /\ applied' = [applied EXCEPT ![hook[d].evt] = @ \cup {d}]
    /\ HookGoes(d, "done")
    /\ UNCHANGED <<revealVars, keys, signup, issuers, workVars>>

\* The row after a failed payment: a new grace period, whatever the status was.
PastDue(row, loaded) ==
  [Flush(row, loaded, [loaded EXCEPT !.status = "past_due"]) EXCEPT !.grace = "running"]

Canceled(row, loaded) == Flush(row, loaded, [loaded EXCEPT !.status = "canceled"])

\* Mutant of EndOfPayment: the event is recorded without its unique constraint.
EndOfPaymentAgain(d) ==
  LET a == HookAccount(d)
      loaded == hook[d].row
  IN
    /\ hook[d].at = "loaded"
    /\ HookKind(d) \in {"failed", "canceled"}
    /\ loaded # NoRow
    /\ Record(d)
    /\ sub' = [sub EXCEPT ![a] = IF HookKind(d) = "failed"
                                 THEN PastDue(@, loaded) ELSE Canceled(@, loaded)]
    /\ applied' = [applied EXCEPT ![hook[d].evt] = @ \cup {d}]
    /\ HookGoes(d, "gate")
    /\ UNCHANGED <<revealVars, keys, signup, issuers, workVars>>

\* A failed payment or a cancellation, with its event, in one transaction; no row,
\* no change.
EndOfPayment(d) ==
  LET a == HookAccount(d)
      loaded == hook[d].row
  IN
    /\ hook[d].at = "loaded"
    /\ HookKind(d) \in {"failed", "canceled"}
    /\ hook[d].evt \notin processed
    /\ Record(d)
    /\ \/ /\ loaded = NoRow
          /\ UNCHANGED <<sub, applied>>
       \/ /\ loaded # NoRow
          /\ sub' = [sub EXCEPT ![a] = IF HookKind(d) = "failed"
                                        THEN PastDue(@, loaded) ELSE Canceled(@, loaded)]
          /\ applied' = [applied EXCEPT ![hook[d].evt] = @ \cup {d}]
    /\ HookGoes(d, "gate")
    /\ UNCHANGED <<revealVars, keys, signup, issuers, workVars>>

\* An event of another kind is only recorded.
RecordUnknown(d) ==
  /\ hook[d].at = "loaded"
  /\ HookKind(d) = "unknown"
  /\ hook[d].evt \notin processed
  /\ Record(d)
  /\ HookGoes(d, "done")
  /\ UNCHANGED <<revealVars, sub, keys, signup, applied, issuers, workVars>>

\* The unique constraint on the event: the transaction is rolled back, 500.
DuplicateRejected(d) ==
  /\ \/ hook[d].at = "record"
     \/ hook[d].at = "loaded" /\ ~(HookKind(d) = "succeeded" /\ hook[d].row = NoRow)
  /\ hook[d].evt \in processed
  /\ HookGoes(d, "rejected")
  /\ HookOnly

\* After a failed payment or a cancellation: is_running,
GateRunning(d) ==
  /\ hook[d].at = "gate"
  /\ HookGoes(d, IF HookAccount(d) \in running THEN "check" ELSE "done")
  /\ HookOnly

\* and not is_active,
GateActive(d) ==
  /\ hook[d].at = "check"
  /\ HookGoes(d, IF IsActive(HookAccount(d)) THEN "done" ELSE "stop")
  /\ HookOnly

\* then stop_worker.
GateStops(d) ==
  /\ hook[d].at = "stop"
  /\ running' = running \ {HookAccount(d)}
  /\ HookGoes(d, "done")
  /\ UNCHANGED <<revealVars, sub, processed, keys, signup, applied, issuers,
                 connecting, canceling, sweep, slipped>>

\* The call fails between two transactions; "keyless" is an activation without a key.
WebhookDies(d) ==
  /\ CallsMayDie
  /\ hook[d].at \in {"fresh", "loaded", "issue", "record", "stash", "gate", "check", "stop"}
  /\ HookGoes(d, IF hook[d].at = "issue" THEN "keyless" ELSE "dead")
  /\ slipped' = IF hook[d].at \in {"gate", "check", "stop"}
                THEN slipped \cup {HookAccount(d)} ELSE slipped
  /\ UNCHANGED <<revealVars, sub, processed, keys, signup, applied, issuers,
                 running, connecting, canceling, sweep>>

WebhookStep(d) ==
  \/ \E e \in Events : WebhookArrives(d, e)
  \/ WebhookLoads(d)
  \/ Activate(d) \/ IssueKey(d) \/ RecordActivation(d) \/ Stash(d)
  \/ Renew(d) \/ EndOfPayment(d) \/ RecordUnknown(d) \/ DuplicateRejected(d)
  \/ GateRunning(d) \/ GateActive(d) \/ GateStops(d)
  \/ WebhookDies(d)

-----------------------------------------------------------------------------
(* POST /demo/signup: activate_demo.                                       *)

SignupLoads(s, a) ==
  /\ signup[s].at = "idle"
  /\ signup' = [signup EXCEPT ![s] = [at |-> "loaded", acct |-> a, row |-> sub[a]]]
  /\ SignupOnly

\* No row was found, and there is none yet: INSERT.
SignupInserts(s) ==
  LET a == signup[s].acct IN
    /\ signup[s].at = "loaded"
    /\ signup[s].row = NoRow
    /\ ~Exists(a)
    /\ sub'     = [sub EXCEPT ![a] = [status |-> "active", plan |-> "demo",
                       grace |-> "none", provider |-> "demo", portal |-> s]]
    /\ issuers' = [issuers EXCEPT ![a] = @ \cup {s}]
    /\ SignupGoes(s, "issue")
    /\ UNCHANGED <<revealVars, processed, keys, hook, applied, workVars>>

\* The row has appeared since: IntegrityError, 500.
SignupRejected(s) ==
  /\ signup[s].at = "loaded"
  /\ signup[s].row = NoRow
  /\ Exists(signup[s].acct)
  /\ SignupGoes(s, "rejected")
  /\ SignupOnly

\* The row activate_demo makes of the one it found.
AsDemo(loaded, s) ==
  [status   |-> "active",
   plan     |-> "demo",
   grace    |-> loaded.grace,
   provider |-> loaded.provider,
   portal   |-> IF loaded.portal # None THEN loaded.portal ELSE s]

\* The account exists, on whatever plan: it becomes an active demo.
SignupOverwrites(s) ==
  LET a == signup[s].acct
      loaded == signup[s].row
  IN
    /\ signup[s].at = "loaded"
    /\ loaded # NoRow
    /\ sub' = [sub EXCEPT ![a] = Flush(@, loaded, AsDemo(loaded, s))]
    /\ SignupGoes(s, "issue")
    /\ UNCHANGED <<revealVars, processed, keys, hook, applied, issuers, workVars>>

\* issue_api_key; the credentials are in the answer, not stashed.
SignupIssuesKey(s) ==
  /\ signup[s].at = "issue"
  /\ keys' = [keys EXCEPT ![signup[s].acct] = @ \cup {s}]
  /\ SignupGoes(s, "done")
  /\ UNCHANGED <<revealVars, sub, processed, hook, applied, issuers, workVars>>

SignupDies(s) ==
  /\ CallsMayDie
  /\ signup[s].at \in {"loaded", "issue"}
  /\ SignupGoes(s, IF signup[s].at = "issue" THEN "keyless" ELSE "dead")
  /\ SignupOnly

SignupStep(s) ==
  \/ \E a \in Accounts : SignupLoads(s, a)
  \/ SignupInserts(s) \/ SignupRejected(s) \/ SignupOverwrites(s)
  \/ SignupIssuesKey(s) \/ SignupDies(s)

-----------------------------------------------------------------------------
(* The worker of an account: /connect, /disconnect, the admin's            *)
(* cancellation.  WorkerFleet has the details of what `running' stands for.*)

\* /connect: get_plan.
ConnectChecks(a) ==
  /\ a \notin connecting
  /\ MayConnect(a)
  /\ connecting' = connecting \cup {a}
  /\ UNCHANGED <<revealVars, billVars, running, canceling, sweep, slipped>>

\* The credentials have been saved and read back: ensure_worker.
ConnectStarts(a) ==
  /\ a \in connecting
  /\ connecting' = connecting \ {a}
  /\ running'    = running \cup {a}
  /\ slipped'    = IF MayConnect(a) THEN slipped ELSE slipped \cup {a}
  /\ UNCHANGED <<revealVars, billVars, canceling, sweep>>

\* Execution disabled (400), the pool is full (503), or an exception.
ConnectGivesUp(a) ==
  /\ a \in connecting
  /\ connecting' = connecting \ {a}
  /\ UNCHANGED <<revealVars, billVars, running, canceling, sweep, slipped>>

Disconnect(a) ==
  /\ a \in running
  /\ running' = running \ {a}
  /\ UNCHANGED <<revealVars, billVars, connecting, canceling, sweep, slipped>>

\* POST /{account}/cancel: the provider has confirmed, mark_canceled.  (Its load and
\* its write of the one column status are serialisable with every other call.)
CancelMarks(a) ==
  /\ a \notin canceling
  /\ sub[a].provider = "card"
  /\ sub' = [sub EXCEPT ![a].status = "canceled"]
  /\ canceling' = canceling \cup {a}
  /\ RowOnly
  /\ UNCHANGED <<running, connecting, sweep, slipped>>

\* stop_worker, if is_running.  (A worker that starts between the two has slipped.)
CancelStops(a) ==
  /\ a \in canceling
  /\ canceling' = canceling \ {a}
  /\ running'   = running \ {a}
  /\ UNCHANGED <<revealVars, billVars, connecting, sweep, slipped>>

CancelDies(a) ==
  /\ CallsMayDie
  /\ a \in canceling
  /\ canceling' = canceling \ {a}
  /\ slipped'   = slipped \cup {a}
  /\ UNCHANGED <<revealVars, billVars, running, connecting, sweep>>

-----------------------------------------------------------------------------
(* _subscription_sweep_loop, and the clock.                                *)

Asleep == [at |-> "asleep", todo |-> {}, acct |-> None]

GraceEnds(a) ==
  /\ sub[a].grace = "running"
  /\ sub' = [sub EXCEPT ![a].grace = "over"]
  /\ RowOnly
  /\ UNCHANGED workVars

\* get_lapsed_accounts: the list is read once per iteration.
SweepSelects ==
  /\ sweep.at = "asleep"
  /\ Lapsed # {}
  /\ sweep' = [at |-> "next", todo |-> Lapsed, acct |-> None]
  /\ UNCHANGED <<revealVars, billVars, running, connecting, canceling, slipped>>

\* is_running of the next account of the list.
SweepChecks(a) ==
  /\ sweep.at = "next"
  /\ a \in sweep.todo
  /\ sweep' = [at |-> IF a \in running THEN "stop" ELSE "mark",
               todo |-> sweep.todo \ {a}, acct |-> a]
  /\ UNCHANGED <<revealVars, billVars, running, connecting, canceling, slipped>>

SweepStops ==
  /\ sweep.at = "stop"
  /\ running' = running \ {sweep.acct}
  /\ sweep'   = [sweep EXCEPT !.at = "mark"]
  /\ UNCHANGED <<revealVars, billVars, connecting, canceling, slipped>>

\* mark_suspended of the row, if there is one, whatever its status is by now.
SweepMarks ==
  /\ sweep.at = "mark"
  /\ sub'   = IF Exists(sweep.acct)
              THEN [sub EXCEPT ![sweep.acct].status = "suspended"] ELSE sub
  /\ sweep' = IF sweep.todo = {} THEN Asleep
              ELSE [sweep EXCEPT !.at = "next", !.acct = None]
  /\ RowOnly
  /\ UNCHANGED <<running, connecting, canceling, slipped>>

\* An exception ends the iteration, for the accounts left in the list too.
SweepFails ==
  /\ CallsMayDie
  /\ sweep.at # "asleep"
  /\ sweep' = Asleep
  /\ UNCHANGED <<revealVars, billVars, running, connecting, canceling, slipped>>

SweepStep ==
  \/ SweepSelects
  \/ \E a \in Accounts : SweepChecks(a)
  \/ SweepStops \/ SweepMarks \/ SweepFails

-----------------------------------------------------------------------------
Init ==
  /\ RevealInit
  /\ sub        = [a \in Accounts |-> NoRow]
  /\ processed  = {}
  /\ keys       = [a \in Accounts |-> {}]
  /\ running    = {}
  /\ hook       = [d \in Deliveries |-> [at |-> "idle", evt |-> None, row |-> NoRow]]
  /\ signup     = [s \in Signups |-> [at |-> "idle", acct |-> None, row |-> NoRow]]
  /\ connecting = {}
  /\ canceling  = {}
  /\ sweep      = Asleep
  /\ applied    = [e \in Events |-> {}]
  /\ issuers    = [a \in Accounts |-> {}]
  /\ slipped    = {}

AccountStep(a) ==
  \/ ConnectChecks(a) \/ ConnectStarts(a) \/ ConnectGivesUp(a) \/ Disconnect(a)
  \/ CancelMarks(a) \/ CancelStops(a) \/ CancelDies(a)
  \/ GraceEnds(a)

Next ==
  \/ \E d \in Deliveries : WebhookStep(d)
  \/ \E s \in Signups : SignupStep(s)
  \/ \E a \in Accounts : AccountStep(a)
  \/ SweepStep
  \/ RevealStep /\ UNCHANGED <<billVars, workVars>>

Spec == Init /\ [][Next]_vars

-----------------------------------------------------------------------------
HookStages == {"idle", "again", "fresh", "loaded", "issue", "record", "stash", "gate",
               "check", "stop", "done", "rejected", "keyless", "dead"}

SignupStages == {"idle", "loaded", "issue", "done", "rejected", "keyless", "dead"}

\* What the database holds, and the calls that change it.
BillTypes ==
  /\ sub       \in [Accounts -> Rows]
  /\ processed \in SUBSET Events
  /\ keys      \in [Accounts -> SUBSET Credentials]
  /\ hook      \in [Deliveries -> [at : HookStages, evt : Events \cup {None}, row : Rows]]
  /\ signup    \in [Signups -> [at : SignupStages, acct : Accounts \cup {None}, row : Rows]]
  /\ applied   \in [Events -> SUBSET Deliveries]
  /\ issuers   \in [Accounts -> SUBSET Credentials]

WorkTypes ==
  /\ running    \subseteq Accounts
  /\ connecting \subseteq Accounts
  /\ canceling  \subseteq Accounts
  /\ slipped    \subseteq Accounts
  /\ sweep      \in [at : {"asleep", "next", "stop", "mark"},
                     todo : SUBSET Accounts, acct : Accounts \cup {None}]

BillingTypeOK == RevealTypeOK /\ BillTypes /\ WorkTypes

StageOf(k) == IF k \in Deliveries THEN hook[k].at ELSE signup[k].at

\* Every account that has come to life owes its life to a first activation, and every
\* first activation has issued an API key, is about to, or failed between the commit
\* of the row and that of the key (subscription_service.py:117-118).
ActivationHasKey ==
  \A a \in Accounts :
    /\ Exists(a) => issuers[a] # {}
    /\ \A k \in issuers[a] : k \in keys[a] \/ StageOf(k) \in {"issue", "keyless"}

\* Webhooks are "delivered more than once" (subscription_service.py:44): however the
\* deliveries of one event race, at most one of them changes a row it found.
AppliedOnce == \A e \in Events : Cardinality(applied[e]) <= 1

\* "Preserve the existing portal token across renewals" (subscription_service.py:81):
\* the token of an account is always one that a first activation drew, so it changes
\* only if two calls both took themselves for the first.
PortalTokenKept == \A a \in Accounts : Exists(a) => sub[a].portal \in issuers[a]

\* A canceled account has no worker, unless the webhook or the route that canceled it
\* is still about to stop it, a /connect overtook the cancellation, or the call failed
\* half-way (subscription_router.py:112-119, 246-250).
CanceledIsDisconnected ==
  \A a \in running :
    sub[a].status = "canceled" =>
      \/ a \in canceling \cup slipped
      \/ \E d \in Deliveries :
           hook[d].at \in {"gate", "check", "stop"} /\ HookAccount(d) = a

\* A webhook commits a successful payment for the account.
Pays(a) ==
  \E d \in Deliveries :
    /\ hook[d].at = "loaded" /\ hook'[d].at # "loaded"
    /\ HookKind(d) = "succeeded" /\ HookAccount(d) = a

\* The life cycle of subscription_service.py:12-15: after its first activation an
\* account becomes active by a payment only, past_due only while it is active, and
\* suspended only when it is past_due and its grace period has expired; nothing but a
\* payment brings it back from there or from canceled.
StatusLifecycle ==
  [][\A a \in Accounts :
       LET from == sub[a].status
           to   == sub'[a].status
       IN  from # to => \/ to = "active" /\ (from = "none" \/ Pays(a))
                        \/ to = "past_due" /\ from = "active"
                        \/ to = "suspended" /\ from = "past_due" /\ sub[a].grace = "over"
                        \/ to = "canceled" /\ from # "none"]_vars

\* "Start a demo or subscribe to download and trade" (trading_router.py:88): an account
\* whose card payments are up to date is let in by /connect.
PaidMayConnect ==
  \A a \in Accounts :
    sub[a].provider = "card" /\ sub[a].status = "active" => MayConnect(a)
=============================================================================
