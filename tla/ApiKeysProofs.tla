---------------------------- MODULE ApiKeysProofs ----------------------------
(***************************************************************************)
(* Proofs about ApiKeys, for any number of keys, of overlapping calls and   *)
(* of starts of API processes.                                             *)
(***************************************************************************)
EXTENDS ApiKeys, TLAPS

-----------------------------------------------------------------------------
(* The inductive invariant.                                                *)

\* Only a call that has come to its insert, and a start that has come to its end, have
\* a row named after them; bootstrap keys are admin keys; what is revoked is there.
Born ==
  /\ \A c \in Calls :
       call[c].at \in {"idle", "checked", "authed", "loaded"} => ~key[c].is
  /\ \A s \in Starts : start[s].at # "up" => ~key[s].is
  /\ \A b \in Boots : key[b].is => key[b].admin
  /\ \A k \in Keys : key[k].revoked => key[k].is

\* What was closed is not usable, unless a start has re-activated it.
Closed ==
  \A k \in shut : key[k].is /\ (key[k].revoked \/ key[k].forced \/ k \in reopened)

\* What a call knows of the key it works on.
Knows(c) ==
  LET k == call[c].ref IN
    /\ call[c].op \in Targeted => k \in Keys
    /\ call[c].op = "issue" => k \in Accounts
    /\ call[c].at = "revoking" /\ call[c].row.revoked => key[k].revoked \/ k \in reopened
    /\ call[c].at = "revoking" => call[c].op \in {"revoke", "rotate"} /\ key[k].is
    /\ call[c].at = "issued" => call[c].op = "rotate"
    /\ call[c].at = "committed" /\ call[c].op \in Targeted =>
         key[k].is /\ (key[k].revoked \/ key[k].forced \/ k \in reopened)
    /\ Loaded(c, "force") => key[k].is
    /\ Loaded(c, "rotate") =>
         key[k].is /\ call[c].row.acct = key[k].acct /\ call[c].row.admin = key[k].admin
    /\ call[c].op = "rotate" /\ call[c].at \in {"issued", "revoking", "committed"} =>
         /\ key[k].is /\ key[c].is /\ key[c].replaces = k
         /\ key[c].acct = key[k].acct /\ key[c].admin = key[k].admin

\* What a start knows of the rows it is about to write.
Starting(s) ==
  /\ start[s].at \in {"wiping", "syncing"} => start[s].boot \in Boots
  /\ start[s].at = "wiping" => \A k \in start[s].rows : key[k].is

KeysInv ==
  /\ TypeOK /\ Born /\ Closed /\ ClosedIsRefused /\ RotatedHasReplacement
  /\ \A c \in Calls : Knows(c)
  /\ \A s \in Starts : Starting(s)

\* A key of the same account and kind has been issued in its place.
Replaced(k) ==
  \E j \in Keys : /\ key[j].is /\ key[j].replaces = k
                  /\ key[j].acct = key[k].acct /\ key[j].admin = key[k].admin

\* What every step does to a row that is there: it stays, and stays closed unless a start
\* re-activates it.
Grows ==
  /\ shut \subseteq shut' /\ reopened \subseteq reopened' /\ withdrawn \subseteq withdrawn'
  /\ \A k \in Keys : key[k].is =>
       /\ key'[k].is /\ key'[k].acct = key[k].acct /\ key'[k].admin = key[k].admin
       /\ key'[k].replaces = key[k].replaces
       /\ key[k].forced => key'[k].forced
       /\ key[k].revoked => key'[k].revoked \/ k \in reopened'

CallStates ==
  [op : AdminOps \cup {"none", "use"},
   at : {"idle", "checked", "authed", "loaded", "issued", "revoking", "committed", "done",
         "refused", "failed"},
   by : Keys \cup {None}, ref : Keys \cup Accounts \cup {None}, row : KeyRows, late : BOOLEAN]

-----------------------------------------------------------------------------
LEMMA Rows ==
  /\ NoKey \in KeyRows
  /\ ~NoKey.is
  /\ \A a \in Accounts \cup {None}, adm \in BOOLEAN, old \in Keys \cup {None} :
       /\ Issued(a, adm, old) \in KeyRows
       /\ Issued(a, adm, old).is /\ ~Issued(a, adm, old).revoked
       /\ Issued(a, adm, old).acct = a /\ Issued(a, adm, old).admin = adm
       /\ Issued(a, adm, old).replaces = old
       /\ ~Issued(a, adm, old).forced /\ ~Issued(a, adm, old).expired
<1>1. NoKey \in KeyRows /\ ~NoKey.is
  BY DEF NoKey, KeyRows
<1>2. SUFFICES ASSUME NEW a \in Accounts \cup {None}, NEW adm \in BOOLEAN,
                      NEW old \in Keys \cup {None}
               PROVE  /\ Issued(a, adm, old) \in KeyRows
                      /\ Issued(a, adm, old).is /\ ~Issued(a, adm, old).revoked
                      /\ Issued(a, adm, old).acct = a /\ Issued(a, adm, old).admin = adm
                      /\ Issued(a, adm, old).replaces = old
                      /\ ~Issued(a, adm, old).forced /\ ~Issued(a, adm, old).expired
  BY <1>1
<1>3. Issued(a, adm, old).is /\ Issued(a, adm, old).acct = a
  BY Zenon DEF NoKey, Issued
<1>4. Issued(a, adm, old).admin = adm /\ Issued(a, adm, old).replaces = old
  BY Zenon DEF NoKey, Issued
<1>5. /\ ~Issued(a, adm, old).revoked
      /\ ~Issued(a, adm, old).forced /\ ~Issued(a, adm, old).expired
  BY Zenon DEF NoKey, Issued
<1>6. Issued(a, adm, old) \in KeyRows
  BY Zenon DEF NoKey, KeyRows, Issued
<1> QED BY <1>3, <1>4, <1>5, <1>6

LEMMA FreshAdmin ==
  LET row == Issued(None, TRUE, None) IN
    /\ row \in KeyRows /\ row.is /\ row.admin /\ ~row.revoked /\ ~row.forced /\ ~row.expired
BY DEF NoKey, KeyRows, Issued

LEMMA GoesMoves ==
  ASSUME TypeOK, NEW c \in Calls, NEW row \in KeyRows,
         NEW at \in {"authed", "loaded", "issued", "revoking", "committed"}, Goes(c, at, row)
  PROVE  /\ call' \in [Calls -> CallStates]
         /\ call'[c].at = at /\ call'[c].row = row /\ call'[c].op = call[c].op
         /\ call'[c].by = call[c].by /\ call'[c].ref = call[c].ref
         /\ call'[c].late = call[c].late
         /\ \A d \in Calls : d # c => call'[d] = call[d]
<1>1. call \in [Calls -> CallStates]
  BY DEF TypeOK, CallStates
<1> QED BY ZenonT(120), <1>1 DEF Goes, CallStates

LEMMA EndsMoves ==
  ASSUME TypeOK, NEW c \in Calls, NEW at \in {"done", "refused", "failed"}, Ends(c, at)
  PROVE  /\ call' \in [Calls -> CallStates]
         /\ call'[c].at = at /\ call'[c].op = "none" /\ call'[c].late = call[c].late
         /\ \A d \in Calls : d # c => call'[d] = call[d]
<1>1. call \in [Calls -> CallStates]
  BY DEF TypeOK, CallStates
<1> QED BY <1>1, Rows DEF Ends, CallStates, NoCall

\* A call that does not move knows what it knew.
LEMMA KnowsStill ==
  ASSUME KeysInv, Grows, NEW c \in Calls, call'[c] = call[c]
  PROVE  Knows(c)'
<1>1. Knows(c) /\ c \in Keys
  BY DEF KeysInv, Keys
<1>2. call[c].op \in Targeted => call[c].ref \in Keys
  BY <1>1 DEF Knows
<1>3. /\ call[c].at = "revoking" => call[c].op \in Targeted
      /\ call[c].op = "rotate" => call[c].op \in Targeted
      /\ call[c].op = "force" => call[c].op \in Targeted
  BY <1>1 DEF Knows, Targeted
<1> QED BY <1>1, <1>2, <1>3 DEF Knows, Grows, Loaded

\* A start that does not move knows what it knew.
LEMMA StartingStill ==
  ASSUME KeysInv, Grows, NEW s \in Starts, start'[s] = start[s]
  PROVE  Starting(s)'
BY DEF KeysInv, TypeOK, Grows, Starting

\* What Grows keeps of the invariant, whoever has moved.
LEMMA RowsStill ==
  ASSUME KeysInv, Grows,
         \A k \in Keys :
           key'[k].revoked => key[k].revoked \/ k \in withdrawn' \/ (key[k].is /\ Replaced(k))
  PROVE  RotatedHasReplacement'
<1> SUFFICES ASSUME NEW k \in Keys, key'[k].revoked, k \notin withdrawn'
             PROVE  \E j \in Keys : /\ key'[j].is /\ key'[j].replaces = k
                                    /\ key'[j].acct = key'[k].acct
                                    /\ key'[j].admin = key'[k].admin
  BY DEF RotatedHasReplacement
<1>1. key[k].is /\ Replaced(k)
  BY DEF Grows, KeysInv, Born, RotatedHasReplacement, Replaced
<1>2. PICK j \in Keys : /\ key[j].is /\ key[j].replaces = k
                        /\ key[j].acct = key[k].acct /\ key[j].admin = key[k].admin
  BY <1>1 DEF Replaced
<1> QED BY <1>1, <1>2 DEF Grows

LEMMA ClosedStill ==
  ASSUME KeysInv, Grows, shut' = shut
  PROVE  Closed'
BY DEF KeysInv, Grows, Closed, TypeOK

\* Only the calls move.
LEMMA CallsOnly ==
  ASSUME KeysInv, UNCHANGED <<key, start, shut, reopened, withdrawn>>, NEW c \in Calls,
         call' \in [Calls -> CallStates], \A d \in Calls : d # c => call'[d] = call[d],
         Knows(c)', call'[c].late => call'[c].at = "refused",
         call'[c].at \in {"idle", "checked", "authed", "loaded"} =>
           call[c].at \in {"idle", "checked", "authed", "loaded"}
  PROVE  KeysInv' /\ Grows
<1>1. Grows
  BY DEF Grows
<1>2. TypeOK'
  BY DEF KeysInv, TypeOK, CallStates
<1>3. Born'
  BY DEF KeysInv, Born
<1>4. Closed' /\ RotatedHasReplacement'
  BY DEF KeysInv, Closed, RotatedHasReplacement
<1>5. ClosedIsRefused'
  BY DEF KeysInv, ClosedIsRefused
<1>6. \A d \in Calls : Knows(d)'
  BY <1>1, KnowsStill
<1>7. \A s \in Starts : Starting(s)'
  BY <1>1, StartingStill
<1> QED BY <1>1, <1>2, <1>3, <1>4, <1>5, <1>6, <1>7 DEF KeysInv

-----------------------------------------------------------------------------
(* Calls that load, check or answer.                                       *)

LEMMA VerifyStep ==
  ASSUME KeysInv, NEW c \in Calls, NEW k \in Keys, NEW op \in AdminOps \cup {"use"},
         NEW ref \in Keys \cup Accounts, VerifyLoads(c, k, op, ref)
  PROVE  KeysInv' /\ Grows
<1> DEFINE late == k \in shut \ reopened
           r == IF Usable(k)
                THEN [op |-> op, at |-> "checked", by |-> k, ref |-> ref, row |-> key[k],
                      late |-> late]
                ELSE [NoCall EXCEPT !.at = "refused", !.late = late]
<1>1. call' = [call EXCEPT ![c] = r] /\ call[c].at = "idle"
  BY DEF VerifyLoads
<1>2. call \in [Calls -> CallStates] /\ key[k] \in KeyRows
  BY DEF KeysInv, TypeOK, CallStates
<1>3. r \in CallStates
  <2>1. late \in BOOLEAN
    OBVIOUS
  <2> HIDE DEF late
  <2>2. [op |-> op, at |-> "checked", by |-> k, ref |-> ref, row |-> key[k], late |-> late]
           \in CallStates
    BY <1>2, <2>1 DEF CallStates
  <2>3. [NoCall EXCEPT !.at = "refused", !.late = late] \in CallStates
    BY <2>1, Rows DEF CallStates, NoCall
  <2> QED BY <2>2, <2>3
<1>4. Usable(k) => ~late
  BY DEF Usable, KeysInv, Closed
<1>5. /\ r.at = "checked" \/ r.at = "refused"
      /\ r.late => r.at = "refused"
      /\ r.at = "checked" => r.op = op /\ r.ref = ref
      /\ r.at = "refused" => r.op = "none"
  BY <1>4 DEF NoCall
<1>6. (op \in Targeted => ref \in Keys) /\ (op = "issue" => ref \in Accounts)
  BY DEF VerifyLoads, Targeted
<1> HIDE DEF r
<1>7. call'[c] = r /\ call' \in [Calls -> CallStates]
  BY <1>1, <1>2, <1>3
<1>8. \A d \in Calls : d # c => call'[d] = call[d]
  BY <1>1, <1>2
<1>9. Knows(c)'
  BY <1>5, <1>6, <1>7 DEF Knows, Loaded, Targeted
<1> QED BY <1>1, <1>5, <1>7, <1>8, <1>9, CallsOnly DEF VerifyLoads, History

\* The steps of a call that only end it.
LEMMA EndStep ==
  ASSUME KeysInv, NEW c \in Calls, NEW at \in {"done", "refused", "failed"}, Ends(c, at),
         call[c].at # "refused", UNCHANGED <<key, start, shut, reopened, withdrawn>>
  PROVE  KeysInv' /\ Grows
<1>1. /\ call' \in [Calls -> CallStates] /\ call'[c].at = at /\ call'[c].op = "none"
      /\ call'[c].late = call[c].late /\ \A d \in Calls : d # c => call'[d] = call[d]
  BY EndsMoves DEF KeysInv
<1>2. Knows(c)'
  BY <1>1 DEF Knows, Loaded, Targeted
<1>3. ~call[c].late
  BY DEF KeysInv, ClosedIsRefused
<1> QED BY <1>1, <1>2, <1>3, CallsOnly

\* The steps of a call that only load.
LEMMA LoadStep ==
  ASSUME KeysInv, NEW c \in Calls,
         \/ VerifyCommits(c) \/ RevokeLoads(c) \/ ForceLoads(c) \/ RotateLoads(c)
  PROVE  KeysInv' /\ Grows
<1> DEFINE k == call[c].ref
<1>0. ~call[c].late \/ call[c].at = "refused"
  BY DEF KeysInv, ClosedIsRefused
<1>9. Knows(c)
  BY DEF KeysInv
<1>1. CASE VerifyCommits(c)
  <2>1. /\ call' \in [Calls -> CallStates] /\ call'[c].at = "authed"
        /\ call'[c].op = call[c].op /\ call'[c].ref = call[c].ref
        /\ call'[c].late = call[c].late /\ \A d \in Calls : d # c => call'[d] = call[d]
    BY <1>1, GoesMoves, Rows DEF VerifyCommits, KeysInv
  <2>2. Knows(c)'
    BY <2>1, <1>1, <1>9 DEF Knows, Loaded, VerifyCommits, History
  <2> QED BY <2>1, <2>2, <1>0, <1>1, CallsOnly DEF VerifyCommits, History
<1>2. CASE RevokeLoads(c)
  <2>0. k \in Keys /\ key[k] \in KeyRows /\ call[c].op \in {"revoke", "rotate"}
    BY <1>2, <1>9 DEF RevokeLoads, Knows, KeysInv, TypeOK, Targeted
  <2>1. /\ call' \in [Calls -> CallStates] /\ call'[c].at = "revoking"
        /\ call'[c].row = key[k]
        /\ call'[c].op = call[c].op /\ call'[c].ref = k
        /\ call'[c].late = call[c].late /\ \A d \in Calls : d # c => call'[d] = call[d]
    BY <1>2, <2>0, GoesMoves DEF RevokeLoads, KeysInv
  <2>2. Knows(c)'
    BY <2>0, <2>1, <1>2, <1>9 DEF Knows, Loaded, RevokeLoads, History
  <2> QED BY <2>1, <2>2, <1>0, <1>2, CallsOnly DEF RevokeLoads, History
<1>3. CASE ForceLoads(c)
  <2>1. /\ call' \in [Calls -> CallStates] /\ call'[c].at = "loaded"
        /\ call'[c].op = call[c].op /\ call'[c].ref = k
        /\ call'[c].late = call[c].late /\ \A d \in Calls : d # c => call'[d] = call[d]
    BY <1>3, GoesMoves, Rows DEF ForceLoads, KeysInv
  <2>2. Knows(c)'
    BY <2>1, <1>3, <1>9 DEF Knows, Loaded, ForceLoads, History, Targeted
  <2> QED BY <2>1, <2>2, <1>0, <1>3, CallsOnly DEF ForceLoads, History
<1>4. CASE RotateLoads(c)
  <2>0. k \in Keys /\ key[k] \in KeyRows
    BY <1>4, <1>9 DEF RotateLoads, Knows, KeysInv, TypeOK, Targeted
  <2>1. /\ call' \in [Calls -> CallStates] /\ call'[c].at = "loaded"
        /\ call'[c].row = key[k]
        /\ call'[c].op = call[c].op /\ call'[c].ref = k
        /\ call'[c].late = call[c].late /\ \A d \in Calls : d # c => call'[d] = call[d]
    BY <1>4, <2>0, GoesMoves DEF RotateLoads, KeysInv
  <2>2. Knows(c)'
    BY <2>0, <2>1, <1>4, <1>9 DEF Knows, Loaded, RotateLoads, History, Targeted
  <2> QED BY <2>1, <2>2, <1>0, <1>4, CallsOnly DEF RotateLoads, History
<1> QED BY <1>1, <1>2, <1>3, <1>4

LEMMA AnswerStep ==
  ASSUME KeysInv, NEW c \in Calls, Answers(c)
  PROVE  KeysInv' /\ Grows
<1>1. /\ call' \in [Calls -> CallStates] /\ call'[c].at = "done" /\ call'[c].op = "none"
      /\ call'[c].late = call[c].late /\ \A d \in Calls : d # c => call'[d] = call[d]
  BY EndsMoves DEF KeysInv, Answers
<1>2. Knows(c) /\ ~call[c].late
  BY DEF KeysInv, ClosedIsRefused, Answers
<1>3. Knows(c)'
  BY <1>1 DEF Knows, Loaded, Targeted
<1>4. Grows
  BY DEF Grows, Answers
<1>5. TypeOK'
  BY <1>1, <1>2 DEF KeysInv, TypeOK, CallStates, Answers, Knows
<1>6. Born'
  BY <1>1 DEF KeysInv, Born, Answers
<1>7. Closed'
  BY <1>2 DEF KeysInv, Closed, Answers, Knows
<1>8. RotatedHasReplacement'
  BY DEF KeysInv, RotatedHasReplacement, Answers
<1>9. ClosedIsRefused'
  BY <1>1, <1>2 DEF KeysInv, ClosedIsRefused
<1>10. \A d \in Calls : Knows(d)'
  BY <1>1, <1>3, <1>4, KnowsStill
<1>11. \A s \in Starts : Starting(s)'
  BY <1>4, StartingStill DEF Answers
<1> QED BY <1>4, <1>5, <1>6, <1>7, <1>8, <1>9, <1>10, <1>11 DEF KeysInv

-----------------------------------------------------------------------------
(* Steps that write a row.                                                 *)

\* A new row, for a key that has none.
LEMMA InsertKeeps ==
  ASSUME KeysInv, NEW k \in Keys, ~key[k].is, NEW a \in Accounts \cup {None},
         NEW adm \in BOOLEAN, NEW old \in Keys \cup {None},
         key' = [key EXCEPT ![k] = Issued(a, adm, old)],
         UNCHANGED <<shut, reopened, withdrawn>>
  PROVE  /\ Grows /\ key' \in [Keys -> KeyRows] /\ key'[k] = Issued(a, adm, old)
         /\ \A j \in Keys : j # k => key'[j] = key[j]
         /\ RotatedHasReplacement' /\ Closed'
<1>1. key \in [Keys -> KeyRows] /\ Issued(a, adm, old) \in KeyRows
  BY Rows DEF KeysInv, TypeOK
<1>2. /\ key' \in [Keys -> KeyRows] /\ key'[k] = Issued(a, adm, old)
      /\ \A j \in Keys : j # k => key'[j] = key[j]
  BY <1>1
<1>3. Grows
  BY <1>2 DEF Grows
<1>4. \A j \in Keys : key'[j].revoked => key[j].revoked
  BY <1>2, Rows
<1> QED BY <1>2, <1>3, <1>4, RowsStill, ClosedStill

\* One flag of a row set, and perhaps one of them cleared by a start.
LEMMA FlagKeeps ==
  ASSUME KeysInv, NEW k \in Keys, NEW row \in KeyRows, key' = [key EXCEPT ![k] = row],
         row.is = key[k].is, row.acct = key[k].acct, row.admin = key[k].admin,
         row.replaces = key[k].replaces, key[k].forced => row.forced,
         key[k].revoked => row.revoked \/ k \in reopened',
         row.revoked => key[k].revoked \/ k \in withdrawn' \/ (key[k].is /\ Replaced(k)),
         shut' = shut, reopened \subseteq reopened', withdrawn \subseteq withdrawn'
  PROVE  /\ Grows /\ key' \in [Keys -> KeyRows] /\ key'[k] = row
         /\ \A j \in Keys : j # k => key'[j] = key[j]
         /\ RotatedHasReplacement' /\ Closed'
<1>1. key \in [Keys -> KeyRows]
  BY DEF KeysInv, TypeOK
<1>2. /\ key' \in [Keys -> KeyRows] /\ key'[k] = row
      /\ \A j \in Keys : j # k => key'[j] = key[j]
  BY <1>1
<1>3. Grows
  BY <1>2 DEF Grows
<1>4. \A j \in Keys : key'[j].revoked =>
        key[j].revoked \/ j \in withdrawn' \/ (key[j].is /\ Replaced(j))
  BY <1>2
<1> QED BY <1>2, <1>3, <1>4, RowsStill, ClosedStill

LEMMA IssueStep ==
  ASSUME KeysInv, NEW c \in Calls, Issue(c) \/ RotateIssues(c)
  PROVE  KeysInv' /\ Grows
<1>0. /\ c \in Keys /\ ~key[c].is /\ Knows(c) /\ ~call[c].late
      /\ call \in [Calls -> CallStates] /\ c \notin Boots
  BY ApiKeysAssumption DEF Issue, RotateIssues, KeysInv, Born, Loaded, Keys, ClosedIsRefused, TypeOK,
     CallStates
<1> DEFINE issued(a, adm, old) ==
      /\ Grows /\ key' \in [Keys -> KeyRows] /\ key'[c] = Issued(a, adm, old)
      /\ \A j \in Keys : j # c => key'[j] = key[j]
      /\ RotatedHasReplacement' /\ Closed'
<1>1. CASE Issue(c)
  <2>1. /\ call' \in [Calls -> CallStates] /\ call'[c].at = "committed"
        /\ call'[c].op = call[c].op /\ call'[c].late = call[c].late
        /\ call'[c].ref = call[c].ref /\ \A d \in Calls : d # c => call'[d] = call[d]
    BY <1>1, GoesMoves, Rows DEF Issue, KeysInv
  <2>2. PICK a \in Accounts \cup {None}, adm \in BOOLEAN :
          key' = [key EXCEPT ![c] = Issued(a, adm, None)]
    <3>1. CASE call[c].op = "issue"
      <4>1. key' = [key EXCEPT ![c] = Issued(call[c].ref, FALSE, None)]
        BY <1>1, <3>1 DEF Issue, Inserts
      <4>2. call[c].ref \in Accounts
        BY <1>0, <3>1 DEF Knows
      <4> QED BY <4>1, <4>2
    <3>2. CASE call[c].op = "issue_admin"
      <4>1. key' = [key EXCEPT ![c] = Issued(None, TRUE, None)]
        BY <1>1, <3>2 DEF Issue, Inserts
      <4> QED BY <4>1
    <3> QED BY <1>1, <3>1, <3>2 DEF Issue
  <2>3. issued(a, adm, None)
    BY <1>0, <1>1, <2>2, InsertKeeps DEF Issue, History
  <2>4. Knows(c)'
    BY <1>0, <1>1, <2>1 DEF Knows, Issue, Loaded, Targeted
  <2>5. TypeOK'
    BY <1>1, <2>1, <2>3 DEF KeysInv, TypeOK, CallStates, Issue, History
  <2>6. Born'
    BY SMTT(90), <1>0, <1>1, <2>1, <2>3, Rows, ApiKeysAssumption DEF KeysInv, Born, Issue, Keys
  <2>7. ClosedIsRefused'
    BY <1>0, <2>1 DEF KeysInv, ClosedIsRefused
  <2>8. \A d \in Calls : Knows(d)'
    BY <2>1, <2>3, <2>4, KnowsStill
  <2>9. \A s \in Starts : Starting(s)'
    BY <1>1, <2>3, StartingStill DEF Issue
  <2> QED BY <2>3, <2>5, <2>6, <2>7, <2>8, <2>9 DEF KeysInv
<1>2. CASE RotateIssues(c)
  <2>1. /\ call' \in [Calls -> CallStates] /\ call'[c].at = "issued" /\ call'[c].ref = call[c].ref
        /\ call'[c].op = "rotate" /\ call'[c].late = call[c].late
        /\ \A d \in Calls : d # c => call'[d] = call[d]
    BY <1>2, GoesMoves, Rows DEF RotateIssues, KeysInv, Loaded
  <2>2. /\ call[c].ref \in Keys /\ key[call[c].ref].is /\ call[c].ref # c
        /\ call[c].row.acct = key[call[c].ref].acct /\ call[c].row.admin = key[call[c].ref].admin
        /\ call[c].row.acct \in Accounts \cup {None} /\ call[c].row.admin \in BOOLEAN
    BY <1>0, <1>2 DEF RotateIssues, Knows, Loaded, Targeted, CallStates, KeyRows
  <2>3. issued(call[c].row.acct, call[c].row.admin, call[c].ref)
    BY <1>0, <1>2, <2>2, InsertKeeps DEF RotateIssues, History, Inserts
  <2>4. Knows(c)'
    <3>1. /\ key'[c].is /\ key'[c].replaces = call[c].ref
          /\ key'[c].acct = call[c].row.acct /\ key'[c].admin = call[c].row.admin
      BY <2>2, <2>3, Rows
    <3>2. key'[call[c].ref] = key[call[c].ref]
      BY <2>2, <2>3
    <3>3. /\ call'[c].ref \in Keys /\ key'[call'[c].ref].is
          /\ key'[c].acct = key'[call'[c].ref].acct /\ key'[c].admin = key'[call'[c].ref].admin
          /\ key'[c].replaces = call'[c].ref
      BY <2>1, <2>2, <3>1, <3>2
    <3> QED BY <2>1, <3>1, <3>3 DEF Knows, Loaded, Targeted
  <2>5. TypeOK'
    BY <1>2, <2>1, <2>3 DEF KeysInv, TypeOK, CallStates, RotateIssues, History
  <2>6. Born'
    BY SMTT(90), <1>0, <1>2, <2>1, <2>2, <2>3, Rows, ApiKeysAssumption DEF KeysInv, Born, RotateIssues, Keys
  <2>7. ClosedIsRefused'
    BY <1>0, <2>1 DEF KeysInv, ClosedIsRefused
  <2>8. \A d \in Calls : Knows(d)'
    BY <2>1, <2>3, <2>4, KnowsStill
  <2>9. \A s \in Starts : Starting(s)'
    BY <1>2, <2>3, StartingStill DEF RotateIssues
  <2> QED BY <2>3, <2>5, <2>6, <2>7, <2>8, <2>9 DEF KeysInv
<1> QED BY <1>1, <1>2

\* revoke_api_key and force_rotate_key commit.
LEMMA FlagStep ==
  ASSUME KeysInv, NEW c \in Calls, RevokeCommits(c) \/ ForceCommits(c)
  PROVE  KeysInv' /\ Grows
<1> DEFINE k == call[c].ref
<1>0. /\ Knows(c) /\ ~call[c].late /\ call[c].op \in Targeted
      /\ k \in Keys /\ key[k].is /\ key[k] \in KeyRows /\ key \in [Keys -> KeyRows]
  <2>1. Knows(c) /\ ~call[c].late
    BY DEF RevokeCommits, ForceCommits, KeysInv, ClosedIsRefused, Loaded
  <2>2. call[c].op \in Targeted /\ key[k].is
    BY <2>1 DEF RevokeCommits, ForceCommits, Knows, Loaded, Targeted
  <2> QED BY <2>1, <2>2 DEF Knows, KeysInv, TypeOK
<1>1. /\ call' \in [Calls -> CallStates] /\ call'[c].at = "committed"
      /\ call'[c].op = call[c].op /\ call'[c].ref = k /\ call'[c].late = call[c].late
      /\ \A d \in Calls : d # c => call'[d] = call[d]
  BY GoesMoves, Rows DEF RevokeCommits, ForceCommits, KeysInv
<1>2. /\ Grows /\ key' \in [Keys -> KeyRows] /\ withdrawn' \subseteq Keys
      /\ \A j \in Keys : key'[j].is <=> key[j].is
      /\ \A j \in Keys : key'[j].revoked => key'[j].is
      /\ key'[k].revoked \/ key'[k].forced \/ k \in reopened
      /\ RotatedHasReplacement' /\ Closed' /\ UNCHANGED <<start, shut, reopened>>
  <2>1. CASE RevokeCommits(c) /\ call[c].row.revoked
    <3>1. Grows
      BY <2>1 DEF RevokeCommits, Grows
    <3>2. RotatedHasReplacement' /\ Closed'
      BY <2>1, <3>1, RowsStill, ClosedStill DEF RevokeCommits
    <3> QED BY <1>0, <2>1, <3>1, <3>2 DEF RevokeCommits, KeysInv, TypeOK, Born, Knows
  <2>2. CASE RevokeCommits(c) /\ ~call[c].row.revoked
    <3> DEFINE row == [key[k] EXCEPT !.revoked = TRUE]
    <3>1. /\ row \in KeyRows /\ row.is = key[k].is /\ row.acct = key[k].acct
          /\ row.admin = key[k].admin /\ row.replaces = key[k].replaces
          /\ row.forced = key[k].forced /\ row.revoked
      BY <1>0 DEF KeyRows
    <3>2. key' = [key EXCEPT ![k] = row]
      BY <1>0, <2>2 DEF RevokeCommits
    <3>3. k \in withdrawn' \/ (key[k].is /\ Replaced(k))
      BY <1>0, <2>2 DEF RevokeCommits, Knows, Replaced, Keys
    <3>4. /\ UNCHANGED <<start, shut, reopened>> /\ withdrawn \subseteq withdrawn'
          /\ withdrawn' \subseteq Keys
      BY <1>0, <2>2 DEF RevokeCommits, KeysInv, TypeOK
    <3> HIDE DEF row
    <3>5. /\ Grows /\ key' \in [Keys -> KeyRows] /\ key'[k] = row
          /\ \A j \in Keys : j # k => key'[j] = key[j]
          /\ RotatedHasReplacement' /\ Closed'
      BY <1>0, <3>1, <3>2, <3>3, <3>4, FlagKeeps
    <3> QED BY <1>0, <3>1, <3>4, <3>5 DEF KeysInv, Born
  <2>3. CASE ForceCommits(c)
    <3> DEFINE row == [key[k] EXCEPT !.forced = TRUE]
    <3>1. /\ row \in KeyRows /\ row.is = key[k].is /\ row.acct = key[k].acct
          /\ row.admin = key[k].admin /\ row.replaces = key[k].replaces
          /\ row.forced /\ row.revoked = key[k].revoked
      BY <1>0 DEF KeyRows
    <3>2. key' = [key EXCEPT ![k] = row]
      BY <1>0, <2>3 DEF ForceCommits
    <3>4. UNCHANGED <<start, shut, reopened, withdrawn>> /\ withdrawn' \subseteq Keys
      BY <1>0, <2>3 DEF ForceCommits, KeysInv, TypeOK, History
    <3> HIDE DEF row
    <3>5. /\ Grows /\ key' \in [Keys -> KeyRows] /\ key'[k] = row
          /\ \A j \in Keys : j # k => key'[j] = key[j]
          /\ RotatedHasReplacement' /\ Closed'
      BY <1>0, <3>1, <3>2, <3>4, FlagKeeps
    <3> QED BY <1>0, <3>1, <3>4, <3>5 DEF KeysInv, Born
  <2> QED BY <2>1, <2>2, <2>3
<1>3. TypeOK'
  BY <1>1, <1>2 DEF KeysInv, TypeOK, CallStates
<1>4. Born'
  <2>1. \A b \in Boots : key'[b].is => key'[b].admin
    BY <1>2 DEF Grows, KeysInv, Born, Keys
  <2> QED BY <1>1, <1>2, <2>1 DEF KeysInv, Born, Keys
<1>5. ClosedIsRefused'
  BY <1>0, <1>1 DEF KeysInv, ClosedIsRefused
<1>6. Knows(c)'
  <2>1. key'[k].is /\ key'[k].acct = key[k].acct /\ key'[k].admin = key[k].admin
    BY <1>0, <1>2 DEF Grows
  <2>2. call[c].op = "rotate" =>
          /\ key'[c].is /\ key'[c].replaces = k
          /\ key'[c].acct = key'[k].acct /\ key'[c].admin = key'[k].admin
    BY <1>0, <1>2, <2>1 DEF RevokeCommits, ForceCommits, Loaded, Knows, Grows, Keys
  <2> QED BY <1>0, <1>1, <1>2, <2>1, <2>2 DEF Knows, Loaded, Targeted
<1>7. \A d \in Calls : Knows(d)'
  BY <1>1, <1>2, <1>6, KnowsStill
<1>8. \A s \in Starts : Starting(s)'
  BY <1>2, StartingStill
<1> QED BY <1>2, <1>3, <1>4, <1>5, <1>7, <1>8 DEF KeysInv

LEMMA ExpiryStep ==
  ASSUME KeysInv, NEW k \in Keys, KeyExpires(k)
  PROVE  KeysInv' /\ Grows
<1> DEFINE row == [key[k] EXCEPT !.expired = TRUE]
<1>0. key[k] \in KeyRows /\ key[k].is
  BY DEF KeysInv, TypeOK, KeyExpires
<1>1. /\ row \in KeyRows /\ row.is = key[k].is /\ row.acct = key[k].acct
      /\ row.admin = key[k].admin /\ row.replaces = key[k].replaces
      /\ row.forced = key[k].forced /\ row.revoked = key[k].revoked
  BY <1>0 DEF KeyRows
<1>2. key' = [key EXCEPT ![k] = row] /\ UNCHANGED <<call, start, shut, reopened, withdrawn>>
  BY <1>0 DEF KeyExpires, KeysInv, TypeOK, History
<1> HIDE DEF row
<1>3. /\ Grows /\ key' \in [Keys -> KeyRows] /\ key'[k] = row
      /\ \A j \in Keys : j # k => key'[j] = key[j]
      /\ RotatedHasReplacement' /\ Closed'
  BY <1>1, <1>2, FlagKeeps
<1>4. TypeOK'
  BY <1>2, <1>3 DEF KeysInv, TypeOK
<1>5. Born' /\ ClosedIsRefused'
  BY <1>0, <1>1, <1>2, <1>3 DEF KeysInv, Born, ClosedIsRefused, Keys
<1>6. (\A d \in Calls : Knows(d)') /\ (\A s \in Starts : Starting(s)')
  BY <1>2, <1>3, KnowsStill, StartingStill
<1> QED BY <1>3, <1>4, <1>5, <1>6 DEF KeysInv

-----------------------------------------------------------------------------
(* Starts.                                                                 *)

StartStates ==
  [at : {"down", "read", "wiping", "syncing", "up", "failed"}, boot : Boots \cup {None},
   force : BOOLEAN, seen : BOOLEAN, rows : SUBSET Keys, row : KeyRows]

\* What a start that leaves the calls alone, and lets the rows grow, keeps.
LEMMA StartKeeps ==
  ASSUME KeysInv, Grows, NEW s \in Starts, start' \in [Starts -> StartStates],
         \A r \in Starts : r # s => start'[r] = start[r], Starting(s)',
         UNCHANGED <<call, shut>>, key' \in [Keys -> KeyRows],
         reopened' \subseteq Boots, withdrawn' \subseteq Keys, RotatedHasReplacement', Born'
  PROVE  KeysInv'
<1>1. TypeOK'
  BY DEF KeysInv, TypeOK, StartStates
<1>2. Closed' /\ ClosedIsRefused'
  BY ClosedStill DEF KeysInv, ClosedIsRefused
<1>3. (\A d \in Calls : Knows(d)') /\ (\A r \in Starts : Starting(r)')
  BY KnowsStill, StartingStill
<1> QED BY <1>1, <1>2, <1>3 DEF KeysInv

\* The steps that read, and those that end with nothing written.
LEMMA StartReads ==
  ASSUME KeysInv, NEW s \in Starts, UNCHANGED <<key, call, shut, reopened, withdrawn>>,
         NEW r \in StartStates, start' = [start EXCEPT ![s] = r],
         start[s].at # "up",
         r.at \in {"wiping", "syncing"} => r.boot \in Boots,
         r.at = "wiping" => \A k \in r.rows : key[k].is
  PROVE  KeysInv' /\ Grows
<1>1. start \in [Starts -> StartStates]
  BY DEF KeysInv, TypeOK, StartStates
<1>2. /\ start' \in [Starts -> StartStates] /\ start'[s] = r
      /\ \A q \in Starts : q # s => start'[q] = start[q]
  BY <1>1
<1>3. Grows
  BY DEF Grows
<1>4. Starting(s)'
  BY <1>2 DEF Starting
<1>5. Born' /\ RotatedHasReplacement'
  BY <1>2 DEF KeysInv, Born, RotatedHasReplacement
<1>6. key' \in [Keys -> KeyRows] /\ reopened' \subseteq Boots /\ withdrawn' \subseteq Keys
  BY DEF KeysInv, TypeOK
<1> QED BY <1>2, <1>3, <1>4, <1>5, <1>6, StartKeeps

LEMMA StartTypes ==
  ASSUME KeysInv, NEW s \in Starts, NEW at \in {"up", "failed"}, Up(s, at)
  PROVE  /\ start' \in [Starts -> StartStates] /\ start'[s].at = at
         /\ \A q \in Starts : q # s => start'[q] = start[q]
         /\ Starting(s)'
         /\ start' = [start EXCEPT ![s] = [NoStart EXCEPT !.at = at]]
         /\ [NoStart EXCEPT !.at = at] \in StartStates
<1>1. start \in [Starts -> StartStates]
  BY DEF KeysInv, TypeOK, StartStates
<1>2. [NoStart EXCEPT !.at = at] \in StartStates /\ [NoStart EXCEPT !.at = at].at = at
  BY Rows DEF NoStart, StartStates
<1> QED BY <1>1, <1>2 DEF Up, Starting

LEMMA ReadStep ==
  ASSUME KeysInv, NEW s \in Starts,
         \/ \E b \in Boots \cup {None}, f \in BOOLEAN : BootReads(s, b, f)
         \/ BootLeaves(s) \/ ResetLoads(s) \/ SyncLoads(s)
  PROVE  KeysInv' /\ Grows
<1>0. start \in [Starts -> StartStates] /\ key \in [Keys -> KeyRows]
  BY DEF KeysInv, TypeOK, StartStates
<1>1. ASSUME NEW b \in Boots \cup {None}, NEW f \in BOOLEAN, BootReads(s, b, f)
      PROVE  KeysInv' /\ Grows
  <2> DEFINE seen == Admins # {}
             r == [NoStart EXCEPT !.at = "read", !.boot = b, !.force = f, !.seen = seen]
  <2>1. seen \in BOOLEAN
    OBVIOUS
  <2>2. start' = [start EXCEPT ![s] = r]
    BY <1>1 DEF BootReads
  <2> HIDE DEF seen
  <2>3. r \in StartStates /\ r.at = "read"
    BY <2>1, Rows DEF NoStart, StartStates
  <2> HIDE DEF r
  <2> QED BY <1>1, <2>2, <2>3, StartReads DEF BootReads, History
<1>2. CASE BootLeaves(s)
  <2>1. /\ start' = [start EXCEPT ![s] = [NoStart EXCEPT !.at = "up"]]
        /\ [NoStart EXCEPT !.at = "up"] \in StartStates
    BY <1>2, StartTypes DEF BootLeaves
  <2>2. [NoStart EXCEPT !.at = "up"].at = "up"
    BY DEF NoStart
  <2> QED BY <1>2, <2>1, <2>2, StartReads DEF BootLeaves, History
<1>3. CASE ResetLoads(s)
  <2> DEFINE rows == {k \in Admins : ~key[k].revoked}
             r == [start[s] EXCEPT !.at = "wiping", !.rows = rows]
  <2>1. rows \in SUBSET Keys /\ \A k \in rows : key[k].is
    BY DEF Admins
  <2>2. start[s].boot \in Boots /\ start[s].at # "up"
    BY <1>0, <1>3 DEF ResetLoads, MayReset, StartStates
  <2>3. start' = [start EXCEPT ![s] = r]
    BY <1>0, <1>3 DEF ResetLoads
  <2> HIDE DEF rows
  <2>4. r \in StartStates /\ r.boot \in Boots /\ r.rows = rows
    BY <1>0, <2>1, <2>2 DEF StartStates
  <2> HIDE DEF r
  <2> QED BY <1>3, <2>1, <2>2, <2>3, <2>4, StartReads DEF ResetLoads, History
<1>4. CASE SyncLoads(s)
  <2> DEFINE r == [start[s] EXCEPT !.at = "syncing", !.row = key[start[s].boot]]
  <2>1. /\ start[s].boot \in Boots /\ start[s].at # "up"
        /\ key[start[s].boot] \in KeyRows
    BY <1>0, <1>4 DEF SyncLoads, StartStates, Keys
  <2>2. start' = [start EXCEPT ![s] = r]
    BY <1>0, <1>4 DEF SyncLoads
  <2>3. r \in StartStates /\ r.boot \in Boots /\ r.at = "syncing"
    BY <1>0, <2>1 DEF StartStates
  <2> HIDE DEF r
  <2> QED BY <1>4, <2>1, <2>2, <2>3, StartReads DEF SyncLoads, History
<1> QED BY <1>1, <1>2, <1>3, <1>4

\* A start that inserts the key k, its own or a bootstrap key that is not there.
LEMMA InsertStep ==
  ASSUME KeysInv, NEW s \in Starts, NEW k \in Boots \cup {s}, ~key[k].is, Up(s, "up"),
         key' = [key EXCEPT ![k] = Issued(None, TRUE, None)],
         UNCHANGED <<call, shut, reopened, withdrawn>>
  PROVE  /\ KeysInv' /\ Grows
         /\ UsableAdmin => UsableAdmin'
<1>0. k \in Keys /\ k \notin Calls /\ k \notin Starts \ {s}
  BY ApiKeysAssumption DEF Keys
<1>1. /\ Grows /\ key' \in [Keys -> KeyRows] /\ key'[k] = Issued(None, TRUE, None)
      /\ \A j \in Keys : j # k => key'[j] = key[j]
      /\ RotatedHasReplacement' /\ Closed'
  BY <1>0, InsertKeeps
<1>2. /\ start' \in [Starts -> StartStates] /\ start'[s].at = "up" /\ Starting(s)'
      /\ \A q \in Starts : q # s => start'[q] = start[q]
  BY StartTypes
<1>3. Born'
  BY <1>0, <1>1, <1>2, FreshAdmin DEF KeysInv, Born, Keys
<1>4. reopened' \subseteq Boots /\ withdrawn' \subseteq Keys
  BY DEF KeysInv, TypeOK
<1>5. KeysInv'
  BY <1>1, <1>2, <1>3, <1>4, StartKeeps
<1>6. UsableAdmin => UsableAdmin'
  BY <1>0, <1>1, FreshAdmin DEF UsableAdmin, Usable, Admins
<1> QED BY <1>1, <1>5, <1>6

LEMMA WriteStep ==
  ASSUME KeysInv, NEW s \in Starts, ResetCommits(s) \/ SyncCommits(s) \/ BootFirst(s)
  PROVE  /\ KeysInv' /\ Grows
         /\ UsableAdmin => UsableAdmin'
<1> DEFINE b == start[s].boot
<1>0. /\ key \in [Keys -> KeyRows] /\ b \in Boots \cup {None} /\ s \in Keys
      /\ start[s].rows \subseteq Keys /\ Boots \subseteq Keys
      /\ \A k \in Boots : k \notin Admins => ~key[k].is
  BY DEF KeysInv, TypeOK, Keys, Born, Admins
<1>1. ASSUME Up(s, "up") \/ Up(s, "failed"), start[s].at # "up",
             UNCHANGED <<key, call, shut, reopened, withdrawn>>
      PROVE  /\ KeysInv' /\ Grows
             /\ UsableAdmin => UsableAdmin'
  <2>1. PICK at \in {"up", "failed"} : Up(s, at)
    BY <1>1
  <2>2. /\ start' = [start EXCEPT ![s] = [NoStart EXCEPT !.at = at]]
        /\ [NoStart EXCEPT !.at = at] \in StartStates
    BY <2>1, StartTypes
  <2>3. [NoStart EXCEPT !.at = at].at = at
    BY DEF NoStart
  <2>4. KeysInv' /\ Grows
    BY <1>1, <2>2, <2>3, StartReads
  <2> QED BY <1>1, <2>4 DEF UsableAdmin, Usable, Admins
<1>2. ASSUME InsertsBoot(s), b \in Boots, start[s].at # "up",
             UNCHANGED <<call, shut, reopened, withdrawn>>
      PROVE  /\ KeysInv' /\ Grows
             /\ UsableAdmin => UsableAdmin'
  <2>1. CASE b \in Admins
    BY <1>1, <1>2, <2>1 DEF InsertsBoot
  <2>2. CASE b \notin Admins
    <3>1. /\ ~key[b].is /\ Up(s, "up") /\ key' = [key EXCEPT ![b] = Issued(None, TRUE, None)]
      BY <1>0, <1>2, <2>2 DEF InsertsBoot
    <3> QED BY <1>2, <3>1, InsertStep
  <2> QED BY <2>1, <2>2
<1>3. CASE ResetCommits(s)
  <2>0. b \in Boots /\ (\A k \in start[s].rows : key[k].is) /\ start[s].at # "up"
    BY <1>3 DEF ResetCommits, KeysInv, Starting
  <2>1. CASE b \in Admins
    BY <1>1, <1>3, <2>0, <2>1 DEF ResetCommits
  <2>2. CASE b \notin Admins
    <3>1. /\ ~key[b].is /\ b \notin Starts /\ b \notin Calls /\ Up(s, "up")
          /\ UNCHANGED <<call, shut, reopened>> /\ withdrawn' = withdrawn \cup start[s].rows
          /\ key' = [k \in Keys |->
               IF k = b THEN Issued(None, TRUE, None)
               ELSE IF k \in start[s].rows THEN [key[k] EXCEPT !.revoked = TRUE] ELSE key[k]]
      BY <1>0, <1>3, <2>0, <2>2, ApiKeysAssumption DEF ResetCommits
    <3>2. key'[b] = Issued(None, TRUE, None)
      BY <1>0, <2>0, <3>1
    <3>3. \A k \in Keys : k # b =>
            /\ key'[k] \in KeyRows /\ key'[k].is = key[k].is /\ key'[k].acct = key[k].acct
            /\ key'[k].admin = key[k].admin /\ key'[k].replaces = key[k].replaces
            /\ key'[k].forced = key[k].forced
            /\ key[k].revoked => key'[k].revoked
            /\ key'[k].revoked => key[k].revoked \/ k \in start[s].rows
      BY <1>0, <3>1 DEF KeyRows
    <3>4. key' \in [Keys -> KeyRows]
      BY <3>1, <3>2, <3>3, Rows
    <3>5. Grows
      BY ZenonT(120), <3>1, <3>3 DEF Grows
    <3>6. RotatedHasReplacement'
      BY <3>1, <3>2, <3>3, <3>5, Rows, RowsStill
    <3>7. /\ start' \in [Starts -> StartStates] /\ start'[s].at = "up" /\ Starting(s)'
          /\ \A q \in Starts : q # s => start'[q] = start[q]
      BY <3>1, StartTypes
    <3>8. Born'
      <4>1. \A k \in Keys : k # b => (key'[k].revoked => key'[k].is)
        BY <2>0, <3>3 DEF KeysInv, Born
      <4>2. \A k \in Keys : key'[k].revoked => key'[k].is
        BY <3>2, <4>1, FreshAdmin
      <4>3. \A k \in Boots : key'[k].is => key'[k].admin
        BY ZenonT(120), <1>0, <3>2, <3>3, FreshAdmin DEF KeysInv, Born
      <4>4. \A c \in Calls : key'[c].is = key[c].is
        BY <3>1, <3>3 DEF Keys
      <4>5. \A q \in Starts : key'[q].is = key[q].is
        BY <3>1, <3>3 DEF Keys
      <4> QED BY <3>1, <3>7, <4>2, <4>3, <4>4, <4>5 DEF KeysInv, Born
    <3>9. reopened' \subseteq Boots /\ withdrawn' \subseteq Keys
      BY <1>0, <3>1 DEF KeysInv, TypeOK
    <3>10. KeysInv'
      BY <3>1, <3>4, <3>5, <3>6, <3>7, <3>8, <3>9, StartKeeps
    <3>11. UsableAdmin'
      BY <1>0, <2>0, <3>2, FreshAdmin DEF UsableAdmin, Usable, Admins
    <3> QED BY <3>5, <3>10, <3>11
  <2> QED BY <2>1, <2>2
<1>4. CASE SyncCommits(s)
  <2>0. b \in Boots /\ start[s].at # "up" /\ UNCHANGED <<call, shut, withdrawn>>
    BY <1>4 DEF SyncCommits, KeysInv, Starting
  <2>1. CASE InsertsBoot(s) /\ UNCHANGED reopened
    BY <1>2, <2>0, <2>1
  <2>2. CASE Up(s, "up") /\ UNCHANGED <<key, reopened>>
    BY <1>1, <2>0, <2>2
  <2>3. CASE /\ Up(s, "up") /\ key' = [key EXCEPT ![b].revoked = FALSE]
             /\ reopened' = reopened \cup {b}
    <3> DEFINE row == [key[b] EXCEPT !.revoked = FALSE]
    <3>1. /\ row \in KeyRows /\ row.is = key[b].is /\ row.acct = key[b].acct
          /\ row.admin = key[b].admin /\ row.replaces = key[b].replaces
          /\ row.forced = key[b].forced /\ ~row.revoked /\ row.expired = key[b].expired
      BY <1>0, <2>0 DEF KeyRows
    <3>2. key' = [key EXCEPT ![b] = row]
      BY <1>0, <2>0, <2>3
    <3> HIDE DEF row
    <3>3. /\ Grows /\ key' \in [Keys -> KeyRows] /\ key'[b] = row
          /\ \A j \in Keys : j # b => key'[j] = key[j]
          /\ RotatedHasReplacement' /\ Closed'
      <4>1. /\ b \in Keys /\ shut' = shut /\ b \in reopened' /\ reopened \subseteq reopened'
            /\ withdrawn \subseteq withdrawn'
        BY <1>0, <2>0, <2>3
      <4> HIDE DEF b
      <4> QED BY <3>1, <3>2, <4>1, FlagKeeps
    <3>4. /\ start' \in [Starts -> StartStates] /\ start'[s].at = "up" /\ Starting(s)'
          /\ \A q \in Starts : q # s => start'[q] = start[q]
      BY <2>3, StartTypes
    <3>5. b \notin Starts /\ b \notin Calls
      BY <2>0, ApiKeysAssumption
    <3>6. Born'
      BY <2>0, <3>1, <3>3, <3>4, <3>5 DEF KeysInv, Born, Keys
    <3>7. reopened' \subseteq Boots /\ withdrawn' \subseteq Keys
      BY <2>0, <2>3 DEF KeysInv, TypeOK
    <3>8. KeysInv'
      BY <2>0, <3>3, <3>4, <3>6, <3>7, StartKeeps
    <3>9. UsableAdmin => UsableAdmin'
      BY <1>0, <2>0, <3>1, <3>3 DEF UsableAdmin, Usable, Admins
    <3> QED BY <3>3, <3>8, <3>9
  <2> QED BY <1>4, <2>1, <2>2, <2>3 DEF SyncCommits
<1>5. CASE BootFirst(s)
  <2>0. start[s].at # "up" /\ UNCHANGED <<call, shut, reopened, withdrawn>>
    BY <1>5 DEF BootFirst, History
  <2>1. CASE b # None
    BY <1>0, <1>2, <1>5, <2>0, <2>1 DEF BootFirst
  <2>2. CASE b = None
    <3>1. /\ ~key[s].is /\ Up(s, "up") /\ key' = [key EXCEPT ![s] = Issued(None, TRUE, None)]
      BY <1>5, <2>0, <2>2 DEF BootFirst, KeysInv, Born
    <3> QED BY <2>0, <3>1, InsertStep
  <2> QED BY <2>1, <2>2
<1> QED BY <1>3, <1>4, <1>5

-----------------------------------------------------------------------------
LEMMA KeysInit == Init => KeysInv
<1> SUFFICES ASSUME Init PROVE KeysInv
  OBVIOUS
<1>1. \A c \in Calls : call[c] = NoCall
  BY DEF Init
<1>2. \A s \in Starts : start[s] = NoStart
  BY DEF Init
<1>3. \A k \in Keys : key[k] = NoKey
  BY DEF Init
<1>4. TypeOK
  BY Rows DEF Init, TypeOK, NoCall, NoStart, KeyRows
<1>5. Born /\ Closed /\ ClosedIsRefused /\ RotatedHasReplacement
  BY <1>1, <1>2, <1>3, Rows DEF Init, Born, Closed, ClosedIsRefused, RotatedHasReplacement,
     NoCall, NoStart, NoKey, Keys
<1>6. (\A c \in Calls : Knows(c)) /\ (\A s \in Starts : Starting(s))
  BY <1>1, <1>2 DEF Knows, Starting, NoCall, NoStart, Loaded, Targeted
<1> QED BY <1>4, <1>5, <1>6 DEF KeysInv

LEMMA CallSteps ==
  ASSUME KeysInv, NEW c \in Calls, CallStep(c)
  PROVE  KeysInv'
<1>1. CASE \E k \in Keys, op \in AdminOps \cup {"use"}, ref \in Keys \cup Accounts :
             VerifyLoads(c, k, op, ref)
  BY <1>1, VerifyStep
<1>2. CASE Forbidden(c)
  BY <1>2, EndStep DEF Forbidden, History
<1>3. CASE Serves(c)
  BY <1>3, EndStep DEF Serves, History
<1>4. CASE MobileKeyFails(c)
  BY <1>4, EndStep DEF MobileKeyFails, History
<1>5. CASE NotFound(c)
  BY <1>5, EndStep DEF NotFound, History
<1> QED BY <1>1, <1>2, <1>3, <1>4, <1>5, LoadStep, IssueStep, FlagStep, AnswerStep DEF CallStep

LEMMA KeysNext == KeysInv /\ [Next]_vars => KeysInv'
<1> SUFFICES ASSUME KeysInv, [Next]_vars PROVE KeysInv'
  OBVIOUS
<1>1. CASE \E c \in Calls : CallStep(c)
  BY <1>1, CallSteps
<1>2. CASE \E s \in Starts : StartStep(s)
  BY <1>2, ReadStep, WriteStep DEF StartStep
<1>3. CASE \E k \in Keys : KeyExpires(k)
  BY <1>3, ExpiryStep
<1>4. CASE UNCHANGED vars
  <2>1. /\ UNCHANGED <<key, call, start>> /\ UNCHANGED <<shut, reopened, withdrawn>>
    BY <1>4 DEF vars, History
  <2>2. TypeOK' /\ Born' /\ Closed'
    BY <2>1 DEF KeysInv, TypeOK, Born, Closed
  <2>3. ClosedIsRefused' /\ RotatedHasReplacement'
    BY <2>1 DEF KeysInv, ClosedIsRefused, RotatedHasReplacement
  <2>4. \A c \in Calls : Knows(c)'
    BY <2>1 DEF KeysInv, Knows, Loaded
  <2>5. \A s \in Starts : Starting(s)'
    BY <2>1 DEF KeysInv, Starting
  <2> QED BY <2>2, <2>3, <2>4, <2>5 DEF KeysInv
<1> QED BY <1>1, <1>2, <1>3, <1>4 DEF Next

THEOREM KeysInductive == Spec => []KeysInv
BY KeysInit, KeysNext, PTL DEF Spec

\* The type invariant of the key rows, the calls and the starts of the admin key code.
THEOREM KeysTypes == Spec => []TypeOK
<1>1. KeysInv => TypeOK
  BY DEF KeysInv
<1> QED BY <1>1, KeysInductive, PTL

\* A call that begins after a key's revocation, rotation or forced rotation was answered
\* is refused, for any number of overlapping calls and restarts.
THEOREM KeysClosed == Spec => []ClosedIsRefused
<1>1. KeysInv => ClosedIsRefused
  BY DEF KeysInv
<1> QED BY <1>1, KeysInductive, PTL

\* A key is never revoked by a rotation before its replacement is in place.
THEOREM KeysRotation == Spec => []RotatedHasReplacement
<1>1. KeysInv => RotatedHasReplacement
  BY DEF KeysInv
<1> QED BY <1>1, KeysInductive, PTL

\* No step of a start takes the last usable admin key away.
THEOREM KeysBootstrap == Spec => BootstrapKeepsAdmin
<1>1. KeysInv /\ [Next]_vars => [start' # start /\ UsableAdmin => UsableAdmin']_vars
  <2> SUFFICES ASSUME KeysInv, Next, start' # start, UsableAdmin PROVE UsableAdmin'
    BY DEF vars
  <2>1. CASE \E c \in Calls : CallStep(c)
    BY <2>1 DEF CallStep, VerifyLoads, VerifyCommits, Forbidden, Serves, MobileKeyFails, Issue,
       RevokeLoads, RevokeCommits, ForceLoads, ForceCommits, RotateLoads, RotateIssues,
       NotFound, Answers
  <2>2. CASE \E k \in Keys : KeyExpires(k)
    BY <2>2 DEF KeyExpires
  <2>3. ASSUME NEW s \in Starts, StartStep(s) PROVE UsableAdmin'
    <3>1. CASE ResetCommits(s) \/ SyncCommits(s) \/ BootFirst(s)
      BY <3>1, WriteStep
    <3>2. CASE \/ \E b \in Boots \cup {None}, f \in BOOLEAN : BootReads(s, b, f)
               \/ BootLeaves(s) \/ ResetLoads(s) \/ SyncLoads(s)
      <4>1. key' = key
        BY <3>2 DEF BootReads, BootLeaves, ResetLoads, SyncLoads
      <4> QED BY <4>1 DEF UsableAdmin, Usable, Admins
    <3> QED BY <2>3, <3>1, <3>2 DEF StartStep
  <2> QED BY <2>1, <2>2, <2>3 DEF Next
<1> QED BY <1>1, KeysInductive, PTL DEF Spec, BootstrapKeepsAdmin
=============================================================================
