------------------------------- MODULE ApiKeys -------------------------------
(***************************************************************************)
(* API keys: verification, issue, revocation, forced and ordinary rotation *)
(* (security.py, admin_router.py), the portal's mobile key                 *)
(* (portal_router.py), and the admin key an API process makes sure of when *)
(* it starts (startup.py).                                                 *)
(*                                                                         *)
(* A call loads a row, checks it, and commits the columns it has changed;  *)
(* in between any other call or start may commit.  A key is named by the   *)
(* call or start that drew it, or is a value of ADMIN_BOOTSTRAP_KEY: rows   *)
(* are unique by the hash of the key.                                      *)
(***************************************************************************)
EXTENDS Naturals

CONSTANTS
  Calls,     \* requests to the endpoints that take an API key
  Starts,    \* starts of an API process (a restart is another start)
  Boots,     \* values ADMIN_BOOTSTRAP_KEY takes
  Accounts,
  None

Keys == Calls \cup Starts \cup Boots

ASSUME ApiKeysAssumption ==
  /\ None \notin Keys \cup Accounts
  /\ Boots \cap (Calls \cup Starts) = {}
  /\ Calls \cap Starts = {}

VARIABLES
  key,       \* api_keys
  call,      \* where each call is, and the row it has loaded
  start,     \* where each start is, its settings, and what it has loaded
  shut,      \* history: keys whose revocation, rotation or forced rotation was answered
  reopened,  \* history: bootstrap keys a start has re-activated
  withdrawn  \* history: keys revoked on request or by a reset

vars == <<key, call, start, shut, reopened, withdrawn>>

NoKey == [is |-> FALSE, acct |-> None, admin |-> FALSE, revoked |-> FALSE,
          forced |-> FALSE, expired |-> FALSE, replaces |-> None]

KeyRows == [is : BOOLEAN, acct : Accounts \cup {None}, admin : BOOLEAN, revoked : BOOLEAN,
            forced : BOOLEAN, expired : BOOLEAN, replaces : Keys \cup {None}]

NoCall  == [op |-> "none", at |-> "idle", by |-> None, ref |-> None, row |-> NoKey,
            late |-> FALSE]
NoStart == [at |-> "down", boot |-> None, force |-> FALSE, seen |-> FALSE, rows |-> {},
            row |-> NoKey]

Issued(a, adm, old) == [NoKey EXCEPT !.is = TRUE, !.acct = a, !.admin = adm, !.replaces = old]

\* What verify_api_key lets pass.
Usable(k) == key[k].is /\ ~key[k].revoked /\ ~key[k].expired /\ ~key[k].forced

Admins == {k \in Keys : key[k].is /\ key[k].admin}

AdminOps == {"issue", "issue_admin", "revoke", "force", "rotate"}
Targeted == {"revoke", "force", "rotate"}

Loaded(c, op) == call[c].op = op /\ call[c].at = "loaded"

Goes(c, at, row) == call' = [call EXCEPT ![c] = [@ EXCEPT !.at = at, !.row = row]]
Ends(c, at) ==
  call' = [call EXCEPT ![c] = [NoCall EXCEPT !.at = at, !.late = call[c].late]]

History == <<shut, reopened, withdrawn>>

-----------------------------------------------------------------------------
(* verify_api_key, then require_admin or require_account_match             *)

\* ref is what the call is about: a key for the calls that name one, else an account.
VerifyLoads(c, k, op, ref) ==
  /\ call[c].at = "idle"
  /\ key[k].is
  /\ ref \in IF op \in Targeted THEN Keys ELSE Accounts
  /\ call' = [call EXCEPT ![c] =
       IF Usable(k)
       THEN [op |-> op, at |-> "checked", by |-> k, ref |-> ref, row |-> key[k],
             late |-> k \in shut \ reopened]
       ELSE [NoCall EXCEPT !.at = "refused", !.late = k \in shut \ reopened]]
  /\ UNCHANGED <<key, start, History>>

\* Mutant of VerifyCommits: all columns of the loaded row are written back.
VerifyCommitsRow(c) ==
  /\ call[c].at = "checked"
  /\ Goes(c, "authed", NoKey)
  /\ key' = [key EXCEPT ![call[c].by] = call[c].row]
  /\ UNCHANGED <<start, History>>

\* last_used_at is the one column written.
VerifyCommits(c) ==
  /\ call[c].at = "checked"
  /\ Goes(c, "authed", NoKey)
  /\ UNCHANGED <<key, start, History>>

Allowed(c) ==
  \/ key[call[c].by].admin
  \/ call[c].op = "use" /\ key[call[c].by].acct = call[c].ref

Forbidden(c) ==
  /\ call[c].at = "authed"
  /\ ~Allowed(c)
  /\ Ends(c, "refused")
  /\ UNCHANGED <<key, start, History>>

\* An endpoint of the account does its work.
Serves(c) ==
  /\ call[c].at = "authed"
  /\ call[c].op = "use"
  /\ Allowed(c)
  /\ Ends(c, "done")
  /\ UNCHANGED <<key, start, History>>

\* POST /portal/mobile-key: past the portal token and the subscription it imports a
\* function security.py does not have: 500, before anything is revoked or issued.
MobileKeyFails(c) ==
  /\ call[c].at = "idle"
  /\ Ends(c, "failed")
  /\ UNCHANGED <<key, start, History>>

-----------------------------------------------------------------------------
(* issue_api_key, revoke_api_key, force_rotate_key and the rotation        *)

Inserts(c, row) == key' = [key EXCEPT ![c] = row]

Issue(c) ==
  /\ call[c].at = "authed"
  /\ call[c].op \in {"issue", "issue_admin"}
  /\ Allowed(c)
  /\ Inserts(c, IF call[c].op = "issue" THEN Issued(call[c].ref, FALSE, None)
                                        ELSE Issued(None, TRUE, None))
  /\ Goes(c, "committed", NoKey)
  /\ UNCHANGED <<start, History>>

\* Mutant of RevokeLoads: a rotation revokes the old key before it issues the new one.
RevokeLoadsEarly(c) ==
  /\ \/ call[c].at = "authed" /\ call[c].op = "revoke" /\ Allowed(c)
     \/ Loaded(c, "rotate")
  /\ key[call[c].ref].is
  /\ Goes(c, "revoking", key[call[c].ref])
  /\ UNCHANGED <<key, start, History>>

\* The row revoke_api_key selects: for the route of its own, or to end a rotation.
RevokeLoads(c) ==
  /\ \/ call[c].at = "authed" /\ call[c].op = "revoke" /\ Allowed(c)
     \/ call[c].at = "issued"
  /\ key[call[c].ref].is
  /\ Goes(c, "revoking", key[call[c].ref])
  /\ UNCHANGED <<key, start, History>>

\* A row loaded as revoked is not written again.
RevokeCommits(c) ==
  /\ call[c].at = "revoking"
  /\ IF call[c].row.revoked THEN UNCHANGED key
                            ELSE key' = [key EXCEPT ![call[c].ref].revoked = TRUE]
  /\ withdrawn' = IF call[c].op = "revoke" THEN withdrawn \cup {call[c].ref} ELSE withdrawn
  /\ Goes(c, "committed", NoKey)
  /\ UNCHANGED <<start, shut, reopened>>

ForceLoads(c) ==
  /\ call[c].at = "authed" /\ call[c].op = "force" /\ Allowed(c)
  /\ key[call[c].ref].is
  /\ ~key[call[c].ref].revoked
  /\ Goes(c, "loaded", NoKey)
  /\ UNCHANGED <<key, start, History>>

ForceCommits(c) ==
  /\ Loaded(c, "force")
  /\ key' = [key EXCEPT ![call[c].ref].forced = TRUE]
  /\ Goes(c, "committed", NoKey)
  /\ UNCHANGED <<start, History>>

\* The rotation reads the old row in a transaction of its own, whatever its state.
RotateLoads(c) ==
  /\ call[c].at = "authed" /\ call[c].op = "rotate" /\ Allowed(c)
  /\ key[call[c].ref].is
  /\ Goes(c, "loaded", key[call[c].ref])
  /\ UNCHANGED <<key, start, History>>

\* Mutant of RotateIssues: the replacement is issued for the id of the old key.
RotateIssuesSwapped(c) ==
  /\ Loaded(c, "rotate")
  /\ Inserts(c, Issued(call[c].ref, call[c].row.admin, call[c].ref))
  /\ Goes(c, "issued", NoKey)
  /\ UNCHANGED <<start, History>>

RotateIssues(c) ==
  /\ Loaded(c, "rotate")
  /\ Inserts(c, Issued(call[c].row.acct, call[c].row.admin, call[c].ref))
  /\ Goes(c, "issued", NoKey)
  /\ UNCHANGED <<start, History>>

\* 404: no such key, or (forced rotation) a revoked one.
NotFound(c) ==
  /\ call[c].at = "authed"
  /\ call[c].op \in Targeted
  /\ ~key[call[c].ref].is \/ (call[c].op = "force" /\ key[call[c].ref].revoked)
  /\ Ends(c, "refused")
  /\ UNCHANGED <<key, start, History>>

\* The audit row is written, and the call answered.
Answers(c) ==
  /\ call[c].at = "committed"
  /\ shut' = IF call[c].op \in Targeted THEN shut \cup {call[c].ref} ELSE shut
  /\ Ends(c, "done")
  /\ UNCHANGED <<key, start, reopened, withdrawn>>

\* expires_at: bootstrap keys have none.
KeyExpires(k) ==
  /\ k \notin Boots
  /\ key[k].is
  /\ key' = [key EXCEPT ![k].expired = TRUE]
  /\ UNCHANGED <<call, start, History>>

-----------------------------------------------------------------------------
(* on_startup: _bootstrap_admin_key                                        *)

Up(s, at) == start' = [start EXCEPT ![s] = [NoStart EXCEPT !.at = at]]

\* Are there rows of admin keys?  Revoked and unusable ones count.
BootReads(s, b, f) ==
  /\ start[s].at = "down"
  /\ start' = [start EXCEPT ![s] =
       [NoStart EXCEPT !.at = "read", !.boot = b, !.force = f, !.seen = (Admins # {})]]
  /\ UNCHANGED <<key, call, History>>

\* Mutant of MayReset: a reset without a key to put in place is not refused.
MayResetAnyway(s) == start[s].force

MayReset(s) == start[s].force /\ start[s].boot # None

\* Nothing to do: a reset refused, or keys there and no bootstrap key to add.
BootLeaves(s) ==
  /\ start[s].at = "read"
  /\ start[s].boot = None
  /\ start[s].force \/ start[s].seen
  /\ ~MayReset(s)
  /\ Up(s, "up")
  /\ UNCHANGED <<key, call, History>>

ResetLoads(s) ==
  /\ start[s].at = "read"
  /\ MayReset(s)
  /\ start' = [start EXCEPT ![s] =
                  [@ EXCEPT !.at = "wiping", !.rows = {k \in Admins : ~key[k].revoked}]]
  /\ UNCHANGED <<key, call, History>>

\* All admin keys are revoked and the bootstrap key is inserted, in one transaction.  A
\* row of this key is in the way of the insert: everything is rolled back, the start fails.
ResetCommits(s) ==
  LET b == start[s].boot IN
    /\ start[s].at = "wiping"
    /\ IF b \in Admins
       THEN /\ Up(s, "failed")
            /\ UNCHANGED <<key, withdrawn>>
       ELSE /\ Up(s, "up")
            /\ key' = [k \in Keys |->
                 IF k = b THEN Issued(None, TRUE, None)
                 ELSE IF k \in start[s].rows THEN [key[k] EXCEPT !.revoked = TRUE] ELSE key[k]]
            /\ withdrawn' = withdrawn \cup start[s].rows
    /\ UNCHANGED <<call, shut, reopened>>

\* There are admin keys: is the bootstrap key one of them?
SyncLoads(s) ==
  /\ start[s].at = "read"
  /\ ~start[s].force /\ start[s].seen /\ start[s].boot # None
  /\ start' = [start EXCEPT ![s] = [@ EXCEPT !.at = "syncing", !.row = key[start[s].boot]]]
  /\ UNCHANGED <<key, call, History>>

InsertsBoot(s) ==
  IF start[s].boot \in Admins
  THEN /\ Up(s, "failed")
       /\ UNCHANGED key
  ELSE /\ Up(s, "up")
       /\ key' = [key EXCEPT ![start[s].boot] = Issued(None, TRUE, None)]

\* It is added, re-activated (a forced rotation stays), or left alone.
SyncCommits(s) ==
  LET b == start[s].boot IN
    /\ start[s].at = "syncing"
    /\ \/ /\ ~start[s].row.is
          /\ InsertsBoot(s)
          /\ UNCHANGED reopened
       \/ /\ start[s].row.is /\ start[s].row.revoked
          /\ Up(s, "up")
          /\ key' = [key EXCEPT ![b].revoked = FALSE]
          /\ reopened' = reopened \cup {b}
       \/ /\ start[s].row.is /\ ~start[s].row.revoked
          /\ Up(s, "up")
          /\ UNCHANGED <<key, reopened>>
    /\ UNCHANGED <<call, shut, withdrawn>>

\* No row of an admin key was seen: the bootstrap key, or one drawn here.
BootFirst(s) ==
  /\ start[s].at = "read"
  /\ ~start[s].force /\ ~start[s].seen
  /\ IF start[s].boot # None
     THEN InsertsBoot(s)
     ELSE /\ Up(s, "up")
          /\ key' = [key EXCEPT ![s] = Issued(None, TRUE, None)]
  /\ UNCHANGED <<call, History>>

-----------------------------------------------------------------------------
Init ==
  /\ key       = [k \in Keys |-> NoKey]
  /\ call      = [c \in Calls |-> NoCall]
  /\ start     = [s \in Starts |-> NoStart]
  /\ shut      = {}
  /\ reopened  = {}
  /\ withdrawn = {}

CallStep(c) ==
  \/ \E k \in Keys, op \in AdminOps \cup {"use"}, ref \in Keys \cup Accounts :
       VerifyLoads(c, k, op, ref)
  \/ VerifyCommits(c) \/ Forbidden(c) \/ Serves(c) \/ MobileKeyFails(c)
  \/ Issue(c) \/ RevokeLoads(c) \/ RevokeCommits(c) \/ ForceLoads(c) \/ ForceCommits(c)
  \/ RotateLoads(c) \/ RotateIssues(c) \/ NotFound(c) \/ Answers(c)

StartStep(s) ==
  \/ \E b \in Boots \cup {None}, f \in BOOLEAN : BootReads(s, b, f)
  \/ BootLeaves(s) \/ ResetLoads(s) \/ ResetCommits(s)
  \/ SyncLoads(s) \/ SyncCommits(s) \/ BootFirst(s)

Next ==
  \/ \E c \in Calls : CallStep(c)
  \/ \E s \in Starts : StartStep(s)
  \/ \E k \in Keys : KeyExpires(k)

\* No fairness: a call or a start that raises, or whose process ends, is one that takes
\* no further step, and may be so anywhere between two commits.
Spec == Init /\ [][Next]_vars

-----------------------------------------------------------------------------
TypeOK ==
  /\ key   \in [Keys -> KeyRows]
  /\ call  \in [Calls -> [op : AdminOps \cup {"none", "use"},
                          at : {"idle", "checked", "authed", "loaded", "issued", "revoking",
                                "committed", "done", "refused", "failed"},
                          by : Keys \cup {None}, ref : Keys \cup Accounts \cup {None},
                          row : KeyRows, late : BOOLEAN]]
  /\ start \in [Starts -> [at : {"down", "read", "wiping", "syncing", "up", "failed"},
                           boot : Boots \cup {None}, force : BOOLEAN, seen : BOOLEAN,
                           rows : SUBSET Keys, row : KeyRows]]
  /\ shut      \subseteq Keys
  /\ reopened  \subseteq Boots
  /\ withdrawn \subseteq Keys

\* A call that begins after a key was revoked, rotated away or marked for rotation, and
\* this was answered, is refused ("Invalid or revoked API key", security.py:61; "next API
\* use returns 401", admin_router.py:203), whatever overlapping calls still commit.  The
\* one exception is a bootstrap key a later start has re-activated.
ClosedIsRefused ==
  \A c \in Calls : call[c].late => call[c].at = "refused"

\* A rotation never leaves its account without a key, wherever it fails and however many
\* overlap: a key nobody asked to revoke is revoked only once a replacement of the same
\* account and kind is in place ("Issue a replacement key for the same account, revoke
\* the old one", admin_router.py:235).
RotatedHasReplacement ==
  \A k \in Keys :
    key[k].revoked /\ k \notin withdrawn =>
      \E j \in Keys : /\ key[j].is /\ key[j].replaces = k
                      /\ key[j].acct = key[k].acct /\ key[j].admin = key[k].admin

UsableAdmin == \E k \in Admins : Usable(k)

\* No step of a start, with whatever settings and beside whatever calls, takes the last
\* usable admin key away ("refusing to wipe admin keys", startup.py:153).
BootstrapKeepsAdmin ==
  [][start' # start /\ UsableAdmin => UsableAdmin']_vars
=============================================================================
