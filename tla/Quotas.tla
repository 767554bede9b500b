-------------------------------- MODULE Quotas --------------------------------
(***************************************************************************)
(* What a plan allows: phones (device_binding_service.py), downloads with  *)
(* a token (the same, download_router.py) and orders of a day              *)
(* (trade_limit_service.py), while plans are assigned and bindings cleared *)
(* (admin_router.py, device_router.py).                                    *)
(*                                                                         *)
(* Each service call reads in one or two statements and writes what it has *)
(* read plus one, or one row more, in a later one; nothing is locked, so    *)
(* calls of any kind interleave between those statements.                  *)
(***************************************************************************)
EXTENDS Naturals, FiniteSets

CONSTANTS
  Calls,      \* calls to register, download and consume
  Accounts, Phones, Tokens,
  Plans,      \* PLAN_CATALOG: the limits of each plan
  PaidRow,    \* the limits of a row a payment inserts: defaults of the columns
  MaxUses,    \* the most uses a download token is issued for
  Days,       \* the days of the run
  None

Limits == [devices : Nat, trades : Nat]   \* trades = 0: no limit

ASSUME QuotasAssumption ==
  /\ Plans \subseteq Limits /\ PaidRow \in Limits
  /\ MaxUses \in Nat
  /\ Days \subseteq Nat /\ 0 \in Days
  /\ None \notin Limits \cup Phones \cup Tokens \cup Accounts

VARIABLES
  sub,       \* subscriptions: the limits of the row of an account, or None
  bound,     \* device_bindings
  token,     \* download_tokens
  count,     \* trade_daily_counters: trade_count by account and day
  days,      \* the pairs of account and day that have a row there
  today,
  call,      \* where each call is, and what it has read
  granted,   \* history: the limits each account has ever had
  raced,     \* history: what two calls of a kind have worked on at the same time
  files,     \* history: downloads answered with the file, by token
  orders     \* history: consume calls that returned, by account and day, and whether
             \* one of them had read that there is no limit

vars == <<sub, bound, token, count, days, today, call, granted, raced, files, orders>>

NoOrder == [made |-> 0, free |-> FALSE]

NoToken == [is |-> FALSE, max |-> 0, uses |-> 0, expired |-> FALSE]

\* x: the account or token worked on; phone, limit, seen, day: what the call has read.
NoCall == [op |-> "none", at |-> "idle", x |-> None, phone |-> None, limit |-> 0,
           seen |-> 0, day |-> 0, late |-> FALSE]

Ended == {"ok", "bound", "rejected", "done", "failed"}
Flying(c) == call[c].at \notin Ended \cup {"idle"}

At(c, op, at) == call[c].op = op /\ call[c].at = at

Ends(c, at) == call' = [call EXCEPT ![c] = [NoCall EXCEPT !.at = at, !.late = call[c].late]]

\* A call begins: its history is that of an overlap when another works on the same.
Begins(c, r) ==
  /\ call[c].at = "idle"
  /\ call' = [call EXCEPT ![c] = r]
  /\ raced' = IF \E d \in Calls : Flying(d) /\ call[d].op = r.op /\ call[d].x = r.x
              THEN raced \cup {<<r.op, r.x>>} ELSE raced

-----------------------------------------------------------------------------
(* DeviceBindingService.register, behind POST /api/devices/register         *)

\* Without a row, one device.
MaxDevices(a) == IF sub[a] = None THEN 1 ELSE sub[a].devices

\* late: the account is full when the call begins, and the phone is none of its own.
RegisterReadsLimit(c, a, p) ==
  /\ Begins(c, [NoCall EXCEPT !.op = "register", !.at = "limited", !.x = a, !.phone = p,
                  !.limit = MaxDevices(a),
                  !.late = p \notin bound[a] /\ Cardinality(bound[a]) >= MaxDevices(a)])
  /\ UNCHANGED <<sub, bound, token, count, days, today, granted, files, orders>>

\* A phone that is bound is seen again, and no more.
RegisterLooks(c) ==
  /\ At(c, "register", "limited")
  /\ IF call[c].phone \in bound[call[c].x]
     THEN Ends(c, "ok")
     ELSE call' = [call EXCEPT ![c].at = "unbound"]
  /\ UNCHANGED <<sub, bound, token, count, days, today, granted, raced, files, orders>>

\* Mutant of Full: one more than the limit.
FullLater(n, limit) == n > limit

Full(n, limit) == n >= limit

RegisterCounts(c) ==
  /\ At(c, "register", "unbound")
  /\ IF Full(Cardinality(bound[call[c].x]), call[c].limit)
     THEN Ends(c, "rejected")
     ELSE call' = [call EXCEPT ![c].at = "inserting"]
  /\ UNCHANGED <<sub, bound, token, count, days, today, granted, raced, files, orders>>

\* Mutant of RegisterInserts: the two ids change places.
RegisterInsertsSwapped(c) ==
  /\ At(c, "register", "inserting")
  /\ Ends(c, IF call[c].phone \in bound[call[c].x] THEN "failed" ELSE "bound")
  /\ bound' = [bound EXCEPT ![call[c].x] = @ \cup {call[c].x}]
  /\ UNCHANGED <<sub, token, count, days, today, granted, raced, files, orders>>

\* uq_account_device: a phone that has been bound since makes the insert fail.
RegisterInserts(c) ==
  /\ At(c, "register", "inserting")
  /\ Ends(c, IF call[c].phone \in bound[call[c].x] THEN "failed" ELSE "bound")
  /\ bound' = [bound EXCEPT ![call[c].x] = @ \cup {call[c].phone}]
  /\ UNCHANGED <<sub, token, count, days, today, granted, raced, files, orders>>

\* The account has room again, or may have: a call under way may find it.
Unlates(a) ==
  call' = [c \in Calls |->
             IF call[c].op = "register" /\ call[c].x = a THEN [call[c] EXCEPT !.late = FALSE]
                                                         ELSE call[c]]

\* DELETE /api/devices/binding/{account_id}; 404 when there is none.
ClearBinding(a) ==
  /\ bound[a] # {}
  /\ bound' = [bound EXCEPT ![a] = {}]
  /\ Unlates(a)
  /\ UNCHANGED <<sub, token, count, days, today, granted, raced, files, orders>>

-----------------------------------------------------------------------------
(* The plan of an account                                                   *)

Writes(a, limits) ==
  /\ sub' = [sub EXCEPT ![a] = limits]
  /\ granted' = [granted EXCEPT ![a] = @ \cup {limits}]
  /\ Unlates(a)
  /\ UNCHANGED <<bound, token, count, days, today, raced, files, orders>>

\* POST /api/admin/tenants/set-plan, and the demo plan of a signup: a smaller plan unbinds
\* no phone and takes back no order.
SetPlan(a, plan) == Writes(a, plan)

\* The first payment of an account inserts a row; later ones leave its limits alone.
PaymentInserts(a) == sub[a] = None /\ Writes(a, PaidRow)

-----------------------------------------------------------------------------
(* Download tokens                                                          *)

\* POST /api/download/token, for n uses.
IssueToken(t, n) ==
  /\ ~token[t].is
  /\ token' = [token EXCEPT ![t] = [NoToken EXCEPT !.is = TRUE, !.max = n]]
  /\ UNCHANGED <<sub, bound, count, days, today, call, granted, raced, files, orders>>

\* GET /api/portal/download-url, for an account whose subscription is active (Billing), and
\* the last step of a demo signup: one use.
PortalIssues(a, t) == sub[a] # None /\ IssueToken(t, 1)

TokenExpires(t) ==
  /\ token[t].is
  /\ token' = [token EXCEPT ![t].expired = TRUE]
  /\ UNCHANGED <<sub, bound, count, days, today, call, granted, raced, files, orders>>

\* consume_download_token selects the row.  late: a single use, and a file was sent for it.
DownloadLoads(c, t) ==
  LET late == token[t].max = 1 /\ files[t] > 0 IN
    /\ Begins(c, IF token[t].is /\ ~token[t].expired /\ ~Full(token[t].uses, token[t].max)
                 THEN [NoCall EXCEPT !.op = "download", !.at = "loaded", !.x = t,
                                     !.seen = token[t].uses, !.late = late]
                 ELSE [NoCall EXCEPT !.at = "rejected", !.late = late])
    /\ UNCHANGED <<sub, bound, token, count, days, today, granted, files, orders>>

\* The use is committed, and only then is the file looked for: without it, 500.
DownloadCommits(c) ==
  LET t == call[c].x IN
    /\ At(c, "download", "loaded")
    /\ token' = [token EXCEPT ![t].uses = call[c].seen + 1]
    /\ \/ Ends(c, "done") /\ files' = [files EXCEPT ![t] = @ + 1]
       \/ Ends(c, "failed") /\ UNCHANGED files
    /\ UNCHANGED <<sub, bound, count, days, today, granted, raced, orders>>

-----------------------------------------------------------------------------
(* TradeLimitService.consume                                                *)

\* Without a row, no limit.
MaxTrades(a) == IF sub[a] = None THEN 0 ELSE sub[a].trades

ConsumeReadsLimit(c, a) ==
  /\ Begins(c, [NoCall EXCEPT !.op = "consume", !.at = "limited", !.x = a,
                              !.limit = MaxTrades(a)])
  /\ UNCHANGED <<sub, bound, token, count, days, today, granted, files, orders>>

\* The day is read when the limit has come, and kept while the row is asked for.
ConsumeReadsDay(c) ==
  /\ At(c, "consume", "limited")
  /\ call' = [call EXCEPT ![c] = [@ EXCEPT !.at = "dated", !.day = today]]
  /\ UNCHANGED <<sub, bound, token, count, days, today, granted, raced, files, orders>>

\* Mutant of ConsumeLoads: the counter is that of the account, whatever its day.
ConsumeLoadsAnyDay(c) ==
  LET a == call[c].x
      d == call[c].day
      n == IF <<a, 0>> \in days THEN count[a][0] ELSE 0 IN
    /\ At(c, "consume", "dated")
    /\ IF call[c].limit > 0 /\ Full(n, call[c].limit)
       THEN Ends(c, "rejected")
       ELSE call' = [call EXCEPT ![c] =
              [@ EXCEPT !.at = IF <<a, d>> \in days THEN "loaded" ELSE "new", !.seen = n]]
    /\ UNCHANGED <<sub, bound, token, count, days, today, granted, raced, files, orders>>

\* The row of the day, or a new one in memory.
ConsumeLoads(c) ==
  LET a == call[c].x
      d == call[c].day
      n == IF <<a, d>> \in days THEN count[a][d] ELSE 0 IN
    /\ At(c, "consume", "dated")
    /\ IF call[c].limit > 0 /\ Full(n, call[c].limit)
       THEN Ends(c, "rejected")
       ELSE call' = [call EXCEPT ![c] =
              [@ EXCEPT !.at = IF <<a, d>> \in days THEN "loaded" ELSE "new", !.seen = n]]
    /\ UNCHANGED <<sub, bound, token, count, days, today, granted, raced, files, orders>>

\* uq_account_day: of two first orders of a day one fails, counted nowhere.
ConsumeCommits(c) ==
  LET a == call[c].x  d == call[c].day IN
    /\ At(c, "consume", "loaded") \/ At(c, "consume", "new")
    /\ IF call[c].at = "new" /\ <<a, d>> \in days
       THEN Ends(c, "failed") /\ UNCHANGED <<count, days, orders>>
       ELSE /\ Ends(c, "done")
            /\ count' = [count EXCEPT ![a][d] = call[c].seen + 1]
            /\ days' = days \cup {<<a, d>>}
            /\ orders' = [orders EXCEPT ![a][d] = [made |-> @.made + 1,
                                                  free |-> @.free \/ call[c].limit = 0]]
    /\ UNCHANGED <<sub, bound, token, today, granted, raced, files>>

\* POST /api/trading/market-order, the one route that would consume: past
\* allows_live_trading it asks its body for an "app" the body does not have, and ends in
\* 500 before it consumes.
MarketOrder(c) ==
  /\ call[c].at = "idle"
  /\ Ends(c, "rejected") \/ Ends(c, "failed")
  /\ UNCHANGED <<sub, bound, token, count, days, today, granted, raced, files, orders>>

Midnight ==
  /\ today + 1 \in Days
  /\ today' = today + 1
  /\ UNCHANGED <<sub, bound, token, count, days, call, granted, raced, files, orders>>

-----------------------------------------------------------------------------
Init ==
  /\ sub     = [a \in Accounts |-> None]
  /\ bound   = [a \in Accounts |-> {}]
  /\ token   = [t \in Tokens |-> NoToken]
  /\ count   = [a \in Accounts |-> [d \in Days |-> 0]]
  /\ days    = {}
  /\ today   = 0
  /\ call    = [c \in Calls |-> NoCall]
  /\ granted = [a \in Accounts |-> {[devices |-> 1, trades |-> 0]}]
  /\ raced   = {}
  /\ files   = [t \in Tokens |-> 0]
  /\ orders  = [a \in Accounts |-> [d \in Days |-> NoOrder]]

CallStep(c) ==
  \/ \E a \in Accounts, p \in Phones : RegisterReadsLimit(c, a, p)
  \/ RegisterLooks(c) \/ RegisterCounts(c) \/ RegisterInserts(c)
  \/ \E t \in Tokens : DownloadLoads(c, t)
  \/ DownloadCommits(c)
  \/ \E a \in Accounts : ConsumeReadsLimit(c, a)
  \/ ConsumeReadsDay(c) \/ ConsumeLoads(c) \/ ConsumeCommits(c) \/ MarketOrder(c)

Next ==
  \/ \E c \in Calls : CallStep(c)
  \/ \E a \in Accounts, plan \in Plans : SetPlan(a, plan)
  \/ \E a \in Accounts : ClearBinding(a) \/ PaymentInserts(a)
  \/ \E t \in Tokens, n \in 1 .. MaxUses : IssueToken(t, n)
  \/ \E a \in Accounts, t \in Tokens : PortalIssues(a, t)
  \/ \E t \in Tokens : TokenExpires(t)
  \/ Midnight

\* No fairness: a call may stop between any two of its statements.
Spec == Init /\ [][Next]_vars

-----------------------------------------------------------------------------
QuotasTypeOK ==
  /\ sub     \in [Accounts -> Limits \cup {None}]
  /\ bound   \in [Accounts -> SUBSET Phones]
  /\ token   \in [Tokens -> [is : BOOLEAN, max : Nat, uses : Nat, expired : BOOLEAN]]
  /\ count   \in [Accounts -> [Days -> Nat]]
  /\ days    \subseteq Accounts \X Days
  /\ today   \in Days
  /\ call    \in [Calls -> [op : {"none", "register", "download", "consume"},
                            at : Ended \cup {"idle", "limited", "unbound", "inserting",
                                             "dated", "loaded", "new"},
                            x : Accounts \cup Tokens \cup {None}, phone : Phones \cup {None},
                            limit : Nat, seen : Nat, day : Days, late : BOOLEAN]]
  /\ granted \in [Accounts -> SUBSET Limits]
  /\ raced   \subseteq {"register", "download", "consume"} \X (Accounts \cup Tokens)
  /\ files   \in [Tokens -> Nat]
  /\ orders  \in [Accounts -> [Days -> [made : Nat, free : BOOLEAN]]]

\* A call that begins when what it asks for is used up gets nothing, whatever other calls
\* still write: a phone that comes when the account is full, unless a plan is assigned or
\* the bindings are cleared meanwhile ("Another phone ... is rejected",
\* device_router.py:73), and a download for which a single-use token has already given the
\* file ("already-used download token", download_router.py:33).
UsedUpIsRefused ==
  \A c \in Calls : call[c].late => call[c].at \notin {"inserting", "bound", "loaded", "done"}

\* Overlapping calls are the only way past a limit ("Device registration respects
\* max_devices", COMMERCIAL_PLANS.md:15): otherwise the phones stay within a plan the
\* account has had, a token gives no more files than it was issued for, and the counter
\* of a day is the number of its orders and within a plan of the account, unless one of
\* them came when the account had no plan, which is no limit.
OnlyRacesExceed ==
  /\ \A a \in Accounts : <<"register", a>> \notin raced =>
       \E l \in granted[a] : Cardinality(bound[a]) <= l.devices
  /\ \A t \in Tokens : <<"download", t>> \notin raced => files[t] <= token[t].max
  /\ \A a \in Accounts, d \in Days : <<"consume", a>> \notin raced =>
       /\ count[a][d] = orders[a][d].made
       /\ orders[a][d].free \/ \E l \in granted[a] : count[a][d] <= l.trades
=============================================================================
