----------------------------- MODULE QuotasProofs -----------------------------
(***************************************************************************)
(* Quotas, proved for every number of calls, accounts, phones, tokens and  *)
(* days and for every plan: its types, that what is used up is refused,    *)
(* and that only overlapping calls exceed a plan.                          *)
(*                                                                         *)
(* The argument is about one call at a time.  While no other call of its   *)
(* kind works on the same account or token (Alone), what it has read stays *)
(* true until it writes: the count of phones below the limit (Room), the   *)
(* uses of the token (Unused), the orders of the day (Counted).            *)
(***************************************************************************)
EXTENDS Quotas, FiniteSetTheorems, TLAPS

CallRows == [op : {"none", "register", "download", "consume"},
             at : Ended \cup {"idle", "limited", "unbound", "inserting", "dated", "loaded", "new"},
             x : Accounts \cup Tokens \cup {None}, phone : Phones \cup {None},
             limit : Nat, seen : Nat, day : Days, late : BOOLEAN]

\* What the progress of a call says of its fields.
Ending(r)      == r.op = "none" /\ r.at \in Ended \cup {"idle"}
Registering(r) == /\ r.op = "register" /\ r.at \in {"limited", "unbound", "inserting"}
                  /\ r.x \in Accounts /\ r.phone \in Phones
Downloading(r) == r.op = "download" /\ r.at = "loaded" /\ r.x \in Tokens
Consuming(r)   == /\ r.op = "consume" /\ r.at \in {"limited", "dated", "loaded", "new"}
                  /\ r.x \in Accounts

Shape(r) == Ending(r) \/ Registering(r) \/ Downloading(r) \/ Consuming(r)

Shapes == \A c \in Calls : Shape(call[c])

\* The limits of an account are among those it has had; so is what a call has read.
Grants ==
  /\ \A a \in Accounts : /\ [devices |-> 1, trades |-> 0] \in granted[a]
                         /\ sub[a] # None => sub[a] \in granted[a]
                         /\ IsFiniteSet(bound[a])
  /\ \A c \in Calls :
       /\ Registering(call[c]) => \E l \in granted[call[c].x] : call[c].limit = l.devices
       /\ Consuming(call[c]) => \E l \in granted[call[c].x] : call[c].limit = l.trades

Base == QuotasTypeOK /\ Shapes

-----------------------------------------------------------------------------
(* The ways a call changes.                                                *)

\* A call that ends forgets what it worked on, not whether it came too late.
LEMMA EndsFacts ==
  ASSUME Base, NEW c \in Calls, NEW at \in Ended, Ends(c, at)
  PROVE  /\ call' \in [Calls -> CallRows]
         /\ \A d \in Calls : d # c => call'[d] = call[d]
         /\ Ending(call'[c]) /\ call'[c].at = at /\ call'[c].late = call[c].late
<1> DEFINE r == [NoCall EXCEPT !.at = at, !.late = call[c].late]
<1>1. call \in [Calls -> CallRows] /\ 0 \in Days
  BY QuotasAssumption DEF Base, QuotasTypeOK, CallRows
<1>2. r \in CallRows /\ r.op = "none" /\ r.at = at /\ r.late = call[c].late
  BY <1>1 DEF NoCall, CallRows, Ended
<1>3. call' = [call EXCEPT ![c] = r]
  BY DEF Ends
<1> HIDE DEF r
<1> QED BY <1>1, <1>2, <1>3 DEF Ending

\* A call that begins takes its record, and is noted when another works on the same.
LEMMA BeginsFacts ==
  ASSUME Base, NEW c \in Calls, NEW r \in CallRows, Begins(c, r)
  PROVE  /\ call[c].at = "idle" /\ call[c].op = "none"
         /\ call' \in [Calls -> CallRows]
         /\ \A d \in Calls : d # c => call'[d] = call[d]
         /\ call'[c] = r
         /\ raced \subseteq raced'
         /\ raced' \subseteq raced \cup {<<r.op, r.x>>}
         /\ \A d \in Calls : Flying(d) /\ call[d].op = r.op /\ call[d].x = r.x
                               => <<r.op, r.x>> \in raced'
<1>1. call \in [Calls -> CallRows]
  BY DEF Base, QuotasTypeOK, CallRows
<1>2. call[c].at = "idle" /\ call' = [call EXCEPT ![c] = r]
  BY DEF Begins
<1>3. call[c].op = "none"
  BY <1>2 DEF Base, Shapes, Shape, Ending, Registering, Downloading, Consuming
<1>4. raced' = IF \E d \in Calls : Flying(d) /\ call[d].op = r.op /\ call[d].x = r.x
               THEN raced \cup {<<r.op, r.x>>} ELSE raced
  BY DEF Begins
<1> QED BY <1>1, <1>2, <1>3, <1>4

\* A call that goes on keeps all but where it is.
LEMMA GoesFacts ==
  ASSUME Base, NEW c \in Calls, NEW at \in {"unbound", "inserting"},
         call' = [call EXCEPT ![c].at = at]
  PROVE  /\ call' \in [Calls -> CallRows]
         /\ \A d \in Calls : d # c => call'[d] = call[d]
         /\ call'[c] = [call[c] EXCEPT !.at = at]
<1>1. call \in [Calls -> CallRows]
  BY DEF Base, QuotasTypeOK, CallRows
<1>2. [call[c] EXCEPT !.at = at] \in CallRows
  BY <1>1 DEF CallRows
<1> QED BY <1>1, <1>2

\* Room for an account changes only whether its calls come too late.
LEMMA UnlatesFacts ==
  ASSUME Base, NEW a \in Accounts, Unlates(a)
  PROVE  /\ call' \in [Calls -> CallRows]
         /\ \A c \in Calls :
              /\ call'[c].op = call[c].op /\ call'[c].at = call[c].at
              /\ call'[c].x = call[c].x /\ call'[c].phone = call[c].phone
              /\ call'[c].limit = call[c].limit /\ call'[c].seen = call[c].seen
              /\ call'[c].day = call[c].day
              /\ call'[c].late => call[c].late /\ ~(call[c].op = "register" /\ call[c].x = a)
<1>1. call \in [Calls -> CallRows]
  BY DEF Base, QuotasTypeOK, CallRows
<1>2. \A c \in Calls : call'[c] = IF call[c].op = "register" /\ call[c].x = a
                                  THEN [call[c] EXCEPT !.late = FALSE] ELSE call[c]
  BY DEF Unlates
<1>3. \A c \in Calls : [call[c] EXCEPT !.late = FALSE] \in CallRows
  BY <1>1 DEF CallRows
<1>4. call' \in [Calls -> CallRows]
  BY <1>1, <1>3 DEF Unlates
<1> QED BY <1>1, <1>2, <1>4 DEF CallRows

-----------------------------------------------------------------------------
(* Types.                                                                  *)

\* The empty tables of the start.
LEMMA InitBase == Init => Base
BY QuotasAssumption
DEF Init, Base, QuotasTypeOK, Shapes, Shape, Ending, NoCall, NoToken, NoOrder, Ended, Limits

\* The types of all but the calls.
Tables ==
  /\ sub     \in [Accounts -> Limits \cup {None}]
  /\ bound   \in [Accounts -> SUBSET Phones]
  /\ token   \in [Tokens -> [is : BOOLEAN, max : Nat, uses : Nat, expired : BOOLEAN]]
  /\ count   \in [Accounts -> [Days -> Nat]]
  /\ days    \subseteq Accounts \X Days
  /\ today   \in Days
  /\ granted \in [Accounts -> SUBSET Limits]
  /\ files   \in [Tokens -> Nat]
  /\ orders  \in [Accounts -> [Days -> [made : Nat, free : BOOLEAN]]]

Races == raced \subseteq {"register", "download", "consume"} \X (Accounts \cup Tokens)

\* When one call is all that moves, its own record is all there is to look at.
LEMMA OneCall ==
  ASSUME Base, NEW c \in Calls, Tables', Races',
         call' \in [Calls -> CallRows],
         \A d \in Calls : d # c => call'[d] = call[d],
         Shape(call'[c])
  PROVE  Base'
<1>1. QuotasTypeOK'
  BY DEF QuotasTypeOK, Tables, Races, CallRows
<1>2. ASSUME NEW d \in Calls PROVE Shape(call'[d])
  BY DEF Base, Shapes
<1> QED BY <1>1, <1>2 DEF Base, Shapes

\* A step of a call keeps the types.
LEMMA CallBase ==
  ASSUME Base, NEW c \in Calls, CallStep(c)
  PROVE  Base'
<1> USE DEF CallRows
<1>0. 0 \in Days /\ QuotasTypeOK /\ Shapes /\ Shape(call[c]) /\ call[c] \in CallRows
  BY QuotasAssumption DEF Base, QuotasTypeOK, Shapes
<1>1. ASSUME NEW a \in Accounts, NEW p \in Phones, RegisterReadsLimit(c, a, p) PROVE Base'
  <2> DEFINE r == [NoCall EXCEPT !.op = "register", !.at = "limited", !.x = a, !.phone = p,
                     !.limit = MaxDevices(a),
                     !.late = p \notin bound[a] /\ Cardinality(bound[a]) >= MaxDevices(a)]
  <2>1. MaxDevices(a) \in Nat
    BY <1>0 DEF MaxDevices, QuotasTypeOK, Limits
  <2>2. r \in CallRows /\ Registering(r) /\ r.op = "register" /\ r.x = a
    BY <1>0, <2>1 DEF NoCall, Registering
  <2>3. Begins(c, r) /\ UNCHANGED <<sub, bound, token, count, days, today, granted, files, orders>>
    BY <1>1 DEF RegisterReadsLimit
  <2> HIDE DEF r
  <2>4. Tables'
    BY <1>0, <2>3 DEF Tables, QuotasTypeOK
  <2>5. Races'
    <3>1. raced' \subseteq raced \cup {<<"register", a>>}
      BY <1>0, <2>2, <2>3, BeginsFacts
    <3> QED BY <1>0, <3>1 DEF Races, QuotasTypeOK
  <2> QED BY ZenonT(120), <2>2, <2>3, <2>4, <2>5, BeginsFacts, OneCall DEF Shape
<1>2. CASE RegisterLooks(c)
  <2>1. UNCHANGED <<sub, bound, token, count, days, today, granted, raced, files, orders>>
    BY <1>2 DEF RegisterLooks
  <2>2. CASE Ends(c, "ok")
    BY <1>0, <2>1, <2>2, EndsFacts DEF Base, QuotasTypeOK, Shapes, Shape, Ended
  <2>3. CASE call' = [call EXCEPT ![c].at = "unbound"]
    BY ZenonT(120), <1>0, <1>2, <2>1, <2>3, GoesFacts
    DEF Base, QuotasTypeOK, Shapes, Shape, Registering, Ending, Downloading, Consuming, RegisterLooks, At
  <2> QED BY <1>2, <2>2, <2>3 DEF RegisterLooks
<1>3. CASE RegisterCounts(c)
  <2>1. UNCHANGED <<sub, bound, token, count, days, today, granted, raced, files, orders>>
    BY <1>3 DEF RegisterCounts
  <2>2. CASE Ends(c, "rejected")
    BY <1>0, <2>1, <2>2, EndsFacts DEF Base, QuotasTypeOK, Shapes, Shape, Ended
  <2>3. CASE call' = [call EXCEPT ![c].at = "inserting"]
    BY ZenonT(120), <1>0, <1>3, <2>1, <2>3, GoesFacts
    DEF Base, QuotasTypeOK, Shapes, Shape, Registering, Ending, Downloading, Consuming, RegisterCounts, At
  <2> QED BY <1>3, <2>2, <2>3 DEF RegisterCounts
<1>4. CASE RegisterInserts(c)
  <2>1. /\ \E at \in Ended : Ends(c, at)
        /\ bound' = [bound EXCEPT ![call[c].x] = @ \cup {call[c].phone}]
        /\ UNCHANGED <<sub, token, count, days, today, granted, raced, files, orders>>
    BY <1>4 DEF RegisterInserts, Ended
  <2>2. call[c].phone \in Phones
    BY <1>0, <1>4 DEF RegisterInserts, At, Shape, Ending, Registering, Downloading, Consuming
  <2> QED BY <1>0, <2>1, <2>2, EndsFacts DEF Base, QuotasTypeOK, Shapes, Shape
<1>5. ASSUME NEW t \in Tokens, DownloadLoads(c, t) PROVE Base'
  <2> DEFINE late == token[t].max = 1 /\ files[t] > 0
             r == [NoCall EXCEPT !.op = "download", !.at = "loaded", !.x = t,
                                 !.seen = token[t].uses, !.late = late]
             q == [NoCall EXCEPT !.at = "rejected", !.late = late]
  <2>1. r \in CallRows /\ Downloading(r) /\ r.op = "download" /\ r.x = t
    BY <1>0 DEF NoCall, Downloading, QuotasTypeOK
  <2>2. q \in CallRows /\ Ending(q) /\ q.op = "none" /\ q.x = None
    BY <1>0 DEF NoCall, Ending, Ended
  <2>3. /\ Begins(c, r) \/ Begins(c, q)
        /\ UNCHANGED <<sub, bound, token, count, days, today, granted, files, orders>>
    BY <1>5 DEF DownloadLoads
  <2> HIDE DEF r, q
  <2>3a. Tables'
    BY <1>0, <2>3 DEF Tables, QuotasTypeOK
  <2>4. CASE Begins(c, r)
    <3>0. raced' \subseteq raced \cup {<<"download", t>>}
      BY <1>0, <2>1, <2>4, BeginsFacts
    <3>1. Races'
      BY <1>0, <3>0 DEF Races, QuotasTypeOK
    <3> QED BY ZenonT(120), <2>1, <2>3a, <2>4, <3>1, BeginsFacts, OneCall DEF Shape
  <2>5. CASE Begins(c, q)
    <3>1. raced' = raced
      BY <1>0, <2>2, <2>5 DEF Begins, Shapes, Shape, Flying, Ending, Registering, Downloading, Consuming
    <3>2. Races'
      BY <1>0, <3>1 DEF Races, QuotasTypeOK
    <3>3. /\ call' \in [Calls -> CallRows] /\ call'[c] = q
          /\ \A d \in Calls : d # c => call'[d] = call[d]
      BY <2>2, <2>5, BeginsFacts
    <3> QED BY <2>2, <2>3a, <3>2, <3>3, OneCall DEF Shape
  <2> QED BY <2>3, <2>4, <2>5
<1>6. CASE DownloadCommits(c)
  <2>1. call[c].x \in Tokens /\ call[c].seen \in Nat
    BY <1>0, <1>6 DEF DownloadCommits, At, Shape, Ending, Registering, Downloading, Consuming
  <2>2. \E at \in Ended : Ends(c, at)
    BY <1>6 DEF DownloadCommits, Ended
  <2>3. /\ token' = [token EXCEPT ![call[c].x].uses = call[c].seen + 1]
        /\ files' = [files EXCEPT ![call[c].x] = @ + 1] \/ files' = files
        /\ UNCHANGED <<sub, bound, count, days, today, granted, raced, orders>>
    BY <1>6 DEF DownloadCommits
  <2>4. /\ token' \in [Tokens -> [is : BOOLEAN, max : Nat, uses : Nat, expired : BOOLEAN]]
        /\ files' \in [Tokens -> Nat]
    <3> DEFINE Row == [is : BOOLEAN, max : Nat, uses : Nat, expired : BOOLEAN]
    <3>1. token \in [Tokens -> Row] /\ files \in [Tokens -> Nat]
      BY <1>0 DEF QuotasTypeOK
    <3>2. [token[call[c].x] EXCEPT !.uses = call[c].seen + 1] \in Row
      BY <2>1, <3>1
    <3> HIDE DEF Row
    <3>3. token' \in [Tokens -> Row]
      BY <2>1, <2>3, <3>1, <3>2
    <3>4. files' \in [Tokens -> Nat]
      BY <2>1, <2>3, <3>1
    <3> QED BY <3>3, <3>4 DEF Row
  <2> QED BY <1>0, <2>2, <2>3, <2>4, EndsFacts DEF Base, QuotasTypeOK, Shapes, Shape
<1>7. ASSUME NEW a \in Accounts, ConsumeReadsLimit(c, a) PROVE Base'
  <2> DEFINE r == [NoCall EXCEPT !.op = "consume", !.at = "limited", !.x = a,
                                 !.limit = MaxTrades(a)]
  <2>1. MaxTrades(a) \in Nat
    BY <1>0 DEF MaxTrades, QuotasTypeOK, Limits
  <2>2. r \in CallRows /\ Consuming(r) /\ r.op = "consume" /\ r.x = a
    BY <1>0, <2>1 DEF NoCall, Consuming, QuotasTypeOK
  <2>3. Begins(c, r) /\ UNCHANGED <<sub, bound, token, count, days, today, granted, files, orders>>
    BY <1>7 DEF ConsumeReadsLimit
  <2> HIDE DEF r
  <2>4. Tables'
    BY <1>0, <2>3 DEF Tables, QuotasTypeOK
  <2>5. Races'
    <3>1. raced' \subseteq raced \cup {<<"consume", a>>}
      BY <1>0, <2>2, <2>3, BeginsFacts
    <3> QED BY <1>0, <3>1 DEF Races, QuotasTypeOK
  <2> QED BY ZenonT(120), <2>2, <2>3, <2>4, <2>5, BeginsFacts, OneCall DEF Shape
<1>7a. CASE ConsumeReadsDay(c)
  <2>1. /\ call[c] \in CallRows /\ Consuming(call[c]) /\ today \in Days
        /\ call' = [call EXCEPT ![c] = [@ EXCEPT !.at = "dated", !.day = today]]
    BY <1>0, <1>7a DEF ConsumeReadsDay, At, Shape, Ending, Registering, Downloading, Consuming,
      QuotasTypeOK
  <2>2. PICK r : r = [call[c] EXCEPT !.at = "dated", !.day = today]
    OBVIOUS
  <2>3. r \in CallRows /\ Consuming(r)
    BY <2>1, <2>2 DEF Consuming, CallRows
  <2>4. call' = [call EXCEPT ![c] = r]
    BY <2>1, <2>2
  <2>5. UNCHANGED <<sub, bound, token, count, days, today, granted, raced, files, orders>>
    BY <1>7a DEF ConsumeReadsDay
  <2> QED BY <1>0, <2>3, <2>4, <2>5 DEF Base, QuotasTypeOK, Shapes, Shape
<1>8. CASE ConsumeLoads(c)
  <2> DEFINE a == call[c].x
             d == call[c].day
             n == IF <<a, d>> \in days THEN count[a][d] ELSE 0
  <2>0. UNCHANGED <<sub, bound, token, count, days, today, granted, raced, files, orders>>
    BY <1>8 DEF ConsumeLoads
  <2>1. a \in Accounts /\ d \in Days /\ Consuming(call[c])
    BY <1>0, <1>8 DEF ConsumeLoads, At, Shape, Ending, Registering, Downloading, Consuming
  <2>2. n \in Nat
    BY <1>0, <2>1 DEF QuotasTypeOK
  <2>3. CASE Ends(c, "rejected")
    BY <1>0, <2>0, <2>3, EndsFacts DEF Base, QuotasTypeOK, Shapes, Shape, Ended
  <2>4. ASSUME NEW at \in {"loaded", "new"},
               call' = [call EXCEPT ![c] = [@ EXCEPT !.at = at, !.seen = n]]
        PROVE  Base'
    <3>1. /\ call' = [call EXCEPT ![c] = [call[c] EXCEPT !.at = at, !.seen = n]]
          /\ [call[c] EXCEPT !.at = at, !.seen = n] \in CallRows
          /\ Consuming([call[c] EXCEPT !.at = at, !.seen = n])
      BY <1>0, <2>1, <2>2, <2>4 DEF Consuming, QuotasTypeOK
    <3> HIDE DEF n
    <3> QED BY <1>0, <2>0, <3>1 DEF Base, QuotasTypeOK, Shapes, Shape
  <2> QED BY <1>8, <2>3, <2>4 DEF ConsumeLoads
<1>9. CASE ConsumeCommits(c)
  <2>1. call[c].x \in Accounts /\ call[c].day \in Days /\ call[c].seen \in Nat /\ call[c].limit \in Nat
    BY <1>0, <1>9 DEF ConsumeCommits, At, Shape, Ending, Registering, Downloading, Consuming
  <2>2. \E at \in Ended : Ends(c, at)
    BY <1>9 DEF ConsumeCommits, Ended
  <2>3. UNCHANGED <<sub, bound, token, today, granted, raced, files>>
    BY <1>9 DEF ConsumeCommits
  <2>4. /\ count' \in [Accounts -> [Days -> Nat]]
        /\ days' \subseteq Accounts \X Days
        /\ orders' \in [Accounts -> [Days -> [made : Nat, free : BOOLEAN]]]
    <3>1. CASE UNCHANGED <<count, days, orders>>
      BY <1>0, <3>1 DEF QuotasTypeOK
    <3>2. CASE /\ count' = [count EXCEPT ![call[c].x][call[c].day] = call[c].seen + 1]
               /\ days' = days \cup {<<call[c].x, call[c].day>>}
               /\ orders' = [orders EXCEPT ![call[c].x][call[c].day] =
                    [made |-> @.made + 1, free |-> @.free \/ call[c].limit = 0]]
      BY <1>0, <2>1, <3>2 DEF QuotasTypeOK
    <3> QED BY <1>9, <3>1, <3>2 DEF ConsumeCommits
  <2> QED BY <1>0, <2>2, <2>3, <2>4, EndsFacts DEF Base, QuotasTypeOK, Shapes, Shape
<1>10. CASE MarketOrder(c)
  <2>1. /\ \E at \in Ended : Ends(c, at)
        /\ UNCHANGED <<sub, bound, token, count, days, today, granted, raced, files, orders>>
    BY <1>10 DEF MarketOrder, Ended
  <2> QED BY <1>0, <2>1, EndsFacts DEF Base, QuotasTypeOK, Shapes, Shape
<1> QED BY <1>1, <1>2, <1>3, <1>4, <1>5, <1>6, <1>7, <1>7a, <1>8, <1>9, <1>10 DEF CallStep

\* So do an assigned plan, a first payment and a cleared binding, which move no call.
LEMMA RoomBase ==
  ASSUME Base, NEW a \in Accounts, Unlates(a), Tables', raced' = raced
  PROVE  Base'
<1>1. \A c \in Calls : Shape(call'[c])
  BY UnlatesFacts DEF Base, Shapes, Shape, Ending, Registering, Downloading, Consuming
<1>2. QuotasTypeOK'
  BY UnlatesFacts DEF Base, QuotasTypeOK, Tables, CallRows
<1> QED BY <1>1, <1>2 DEF Base, Shapes

\* Tokens are issued and expire, plans are assigned, a day goes by.
LEMMA OtherBase ==
  ASSUME Base,
         \/ \E a \in Accounts, plan \in Plans : SetPlan(a, plan)
         \/ \E a \in Accounts : ClearBinding(a) \/ PaymentInserts(a)
         \/ \E t \in Tokens, n \in 1 .. MaxUses : IssueToken(t, n)
         \/ \E a \in Accounts, t \in Tokens : PortalIssues(a, t)
         \/ \E t \in Tokens : TokenExpires(t)
         \/ Midnight
  PROVE  Base'
<1> USE QuotasAssumption
<1>0. Tables /\ QuotasTypeOK
  BY DEF Base, QuotasTypeOK, Tables
<1>1. ASSUME NEW a \in Accounts, NEW l \in Limits, Writes(a, l) PROVE Base'
  <2>1. Tables'
    BY <1>0, <1>1 DEF Writes, Tables
  <2> QED BY <1>1, <2>1, RoomBase DEF Writes
<1>2. ASSUME NEW a \in Accounts, ClearBinding(a) PROVE Base'
  <2>1. Tables'
    BY <1>0, <1>2 DEF ClearBinding, Tables
  <2> QED BY <1>2, <2>1, RoomBase DEF ClearBinding
<1>3. ASSUME NEW t \in Tokens, NEW n \in Nat, IssueToken(t, n) PROVE Base'
  <2> DEFINE r == [NoToken EXCEPT !.is = TRUE, !.max = n]
             Row == [is : BOOLEAN, max : Nat, uses : Nat, expired : BOOLEAN]
  <2>1. r \in Row
    BY DEF NoToken
  <2>2. token' = [token EXCEPT ![t] = r]
    BY <1>3 DEF IssueToken
  <2> HIDE DEF r
  <2>3. token' \in [Tokens -> Row]
    BY <1>0, <2>1, <2>2 DEF Tables
  <2> QED BY <1>3, <2>3 DEF Base, QuotasTypeOK, Shapes, IssueToken
<1>4. ASSUME NEW t \in Tokens, TokenExpires(t) PROVE Base'
  <2> DEFINE Row == [is : BOOLEAN, max : Nat, uses : Nat, expired : BOOLEAN]
  <2>0. token[t] \in Row
    BY <1>0 DEF Tables
  <2>1. [token[t] EXCEPT !.expired = TRUE] \in Row
    BY <2>0
  <2>2. token' \in [Tokens -> Row]
    BY <1>0, <1>4, <2>1 DEF Tables, TokenExpires
  <2> QED BY <1>4, <2>2 DEF Base, QuotasTypeOK, Shapes, TokenExpires
<1>5. ASSUME Midnight PROVE Base'
  BY <1>5 DEF Base, QuotasTypeOK, Shapes, Midnight
<1> QED BY <1>1, <1>2, <1>3, <1>4, <1>5 DEF SetPlan, PaymentInserts, PortalIssues

\* Every step keeps the types.
LEMMA NextBase == Base /\ [Next]_vars => Base'
<1>1. ASSUME Base, UNCHANGED vars PROVE Base'
  BY <1>1 DEF vars, Base, QuotasTypeOK, Shapes
<1> QED BY <1>1, CallBase, OtherBase DEF Next

\* The types of the tables, of the calls and of what is noted of them.
THEOREM QuotasTypes == Spec => []QuotasTypeOK
<1>1. Base => QuotasTypeOK
  BY DEF Base
<1> QED BY <1>1, InitBase, NextBase, PTL DEF Spec

-----------------------------------------------------------------------------
(* Two calls that work on the same have been noted.                        *)

Working(c, op, x) == call[c].op = op /\ call[c].x = x

Alone ==
  \A c, d \in Calls : c # d /\ call[c].op # "none" /\ Working(d, call[c].op, call[c].x)
                        => <<call[c].op, call[c].x>> \in raced

\* How call c may move: it ends, goes on with its work, or begins a work that is noted
\* when another does the same.
Moves(c) ==
  /\ \A d \in Calls : d # c => call'[d] = call[d]
  /\ raced \subseteq raced'
  /\ \/ call'[c].op = "none"
     \/ /\ call'[c].op = call[c].op /\ call'[c].x = call[c].x
        /\ call'[c].limit = call[c].limit /\ call'[c].phone = call[c].phone
        /\ call'[c].late = call[c].late
     \/ /\ call[c].op = "none"
        /\ \A d \in Calls : d # c /\ Working(d, call'[c].op, call'[c].x)
                              => <<call'[c].op, call'[c].x>> \in raced'

RegisterStep(c) ==
  \/ \E a \in Accounts, p \in Phones : RegisterReadsLimit(c, a, p)
  \/ RegisterLooks(c) \/ RegisterCounts(c) \/ RegisterInserts(c)

DownloadStep(c) == (\E t \in Tokens : DownloadLoads(c, t)) \/ DownloadCommits(c)

ConsumeStep(c) ==
  \/ \E a \in Accounts : ConsumeReadsLimit(c, a)
  \/ ConsumeReadsDay(c) \/ ConsumeLoads(c) \/ ConsumeCommits(c)

\* A call that begins the work of record r moves.
LEMMA BeginsMoves ==
  ASSUME Base, NEW c \in Calls, NEW r \in CallRows, Begins(c, r), Shape(r)
  PROVE  Moves(c) /\ call'[c] = r /\ call[c].op = "none"
                  /\ (raced' = raced \/ raced' = raced \cup {<<r.op, r.x>>})
<1>1. \A d \in Calls : call[d].op # "none" => Flying(d)
  BY DEF Base, Shapes, Shape, Ending, Registering, Downloading, Consuming, Flying, Ended
<1>2. \A d \in Calls : Flying(d) /\ call[d].op = r.op /\ call[d].x = r.x
                         => <<r.op, r.x>> \in raced'
  BY BeginsFacts
<1>3. /\ call'[c] = r /\ call[c].op = "none" /\ raced \subseteq raced'
      /\ \A d \in Calls : d # c => call'[d] = call[d]
  BY BeginsFacts
<1>4. raced' = raced \/ raced' = raced \cup {<<r.op, r.x>>}
  BY DEF Begins
<1> QED BY <1>1, <1>2, <1>3, <1>4 DEF Moves, Working

\* A call that ends moves.
LEMMA EndsMoves ==
  ASSUME Base, NEW c \in Calls, NEW at \in Ended, Ends(c, at), raced' = raced
  PROVE  Moves(c) /\ call'[c].op = "none" /\ call'[c].at = at /\ call'[c].late = call[c].late
BY EndsFacts DEF Moves, Ending

\* Registrations move calls of their own kind, and the bindings.
LEMMA RegisterFrame ==
  ASSUME Base, NEW c \in Calls, RegisterStep(c)
  PROVE  /\ Moves(c)
         /\ {call[c].op, call'[c].op} \subseteq {"none", "register"}
         /\ raced' = raced \/ \E a \in Accounts : raced' = raced \cup {<<"register", a>>}
         /\ UNCHANGED <<sub, token, count, days, today, granted, files, orders>>
<1>1. ASSUME NEW a \in Accounts, NEW p \in Phones, RegisterReadsLimit(c, a, p)
      PROVE  /\ Moves(c) /\ {call[c].op, call'[c].op} \subseteq {"none", "register"}
             /\ raced' = raced \/ raced' = raced \cup {<<"register", a>>}
  <2> DEFINE r == [NoCall EXCEPT !.op = "register", !.at = "limited", !.x = a, !.phone = p,
                     !.limit = MaxDevices(a),
                     !.late = p \notin bound[a] /\ Cardinality(bound[a]) >= MaxDevices(a)]
  <2>1. MaxDevices(a) \in Nat
    BY DEF Base, MaxDevices, QuotasTypeOK, Limits
  <2>2. r \in CallRows /\ Shape(r) /\ r.op = "register" /\ r.x = a
    BY <2>1, QuotasAssumption DEF NoCall, Registering, CallRows, Shape
  <2>3. Begins(c, r)
    BY <1>1 DEF RegisterReadsLimit
  <2> HIDE DEF r
  <2> QED BY <2>2, <2>3, BeginsMoves
<1>2. ASSUME NEW at \in {"unbound", "inserting"}, call' = [call EXCEPT ![c].at = at],
             raced' = raced
      PROVE  Moves(c) /\ call'[c].op = call[c].op
  <2>1. call \in [Calls -> CallRows]
    BY DEF Base, QuotasTypeOK, CallRows
  <2>2. /\ call'[c] = [call[c] EXCEPT !.at = at]
        /\ \A d \in Calls : d # c => call'[d] = call[d]
    BY <1>2, GoesFacts
  <2> QED BY <1>2, <2>1, <2>2 DEF Moves, CallRows
<1>4. UNCHANGED <<sub, token, count, days, today, granted, files, orders>>
  BY DEF RegisterStep, RegisterReadsLimit, RegisterLooks, RegisterCounts, RegisterInserts
<1>5. /\ Moves(c) /\ {call[c].op, call'[c].op} \subseteq {"none", "register"}
      /\ raced' = raced \/ \E a \in Accounts : raced' = raced \cup {<<"register", a>>}
  <2>1. CASE \E a \in Accounts, p \in Phones : RegisterReadsLimit(c, a, p)
    BY <1>1, <2>1
  <2>2. CASE RegisterLooks(c) \/ RegisterCounts(c) \/ RegisterInserts(c)
    <3>1. raced' = raced /\ call[c].op = "register"
      BY <2>2 DEF RegisterLooks, RegisterCounts, RegisterInserts, At
    <3>2. \/ \E at \in Ended : Ends(c, at)
          \/ \E at \in {"unbound", "inserting"} : call' = [call EXCEPT ![c].at = at]
      BY <2>2 DEF RegisterLooks, RegisterCounts, RegisterInserts, Ended
    <3> QED BY <1>2, <3>1, <3>2, EndsMoves
  <2> QED BY <2>1, <2>2 DEF RegisterStep
<1> QED BY <1>4, <1>5

\* Downloads move calls of their own kind, the tokens and the files.
LEMMA DownloadFrame ==
  ASSUME Base, NEW c \in Calls, DownloadStep(c)
  PROVE  /\ Moves(c)
         /\ {call[c].op, call'[c].op} \subseteq {"none", "download"}
         /\ raced' = raced \/ \E t \in Tokens : raced' = raced \cup {<<"download", t>>}
         /\ UNCHANGED <<sub, bound, count, days, today, granted, orders>>
<1>1. ASSUME NEW t \in Tokens, DownloadLoads(c, t)
      PROVE  /\ Moves(c) /\ {call[c].op, call'[c].op} \subseteq {"none", "download"}
             /\ raced' = raced \/ raced' = raced \cup {<<"download", t>>}
  <2> DEFINE late == token[t].max = 1 /\ files[t] > 0
             r == [NoCall EXCEPT !.op = "download", !.at = "loaded", !.x = t,
                                 !.seen = token[t].uses, !.late = late]
             q == [NoCall EXCEPT !.at = "rejected", !.late = late]
  <2>0. token[t].uses \in Nat /\ 0 \in Days
    BY QuotasAssumption DEF Base, QuotasTypeOK
  <2>1. r \in CallRows /\ Shape(r) /\ r.op = "download" /\ r.x = t
    BY <2>0 DEF NoCall, Downloading, CallRows, Shape
  <2>2. q \in CallRows /\ Shape(q) /\ q.op = "none"
    BY <2>0 DEF NoCall, Ending, CallRows, Shape, Ended
  <2>3. Begins(c, r) \/ Begins(c, q)
    BY <1>1 DEF DownloadLoads
  <2> HIDE DEF r, q
  <2>4. CASE Begins(c, r)
    BY <2>1, <2>4, BeginsMoves
  <2>5. CASE Begins(c, q)
    <3>1. raced' = raced
      BY <2>2, <2>5 DEF Begins, Base, Shapes, Shape, Flying, Ending, Registering, Downloading,
        Consuming
    <3> QED BY <2>2, <2>5, <3>1, BeginsMoves
  <2> QED BY <2>3, <2>4, <2>5
<1>2. ASSUME DownloadCommits(c)
      PROVE  Moves(c) /\ {call[c].op, call'[c].op} \subseteq {"none", "download"} /\ raced' = raced
  <2>1. raced' = raced /\ call[c].op = "download" /\ \E at \in Ended : Ends(c, at)
    BY <1>2 DEF DownloadCommits, At, Ended
  <2> QED BY <2>1, EndsMoves
<1>3. UNCHANGED <<sub, bound, count, days, today, granted, orders>>
  BY DEF DownloadStep, DownloadLoads, DownloadCommits
<1> QED BY <1>1, <1>2, <1>3 DEF DownloadStep

\* Orders move calls of their own kind and the counters.
LEMMA ConsumeFrame ==
  ASSUME Base, NEW c \in Calls, ConsumeStep(c)
  PROVE  /\ Moves(c)
         /\ {call[c].op, call'[c].op} \subseteq {"none", "consume"}
         /\ raced' = raced \/ \E a \in Accounts : raced' = raced \cup {<<"consume", a>>}
         /\ UNCHANGED <<sub, bound, token, today, granted, files>>
<1>1. ASSUME NEW a \in Accounts, ConsumeReadsLimit(c, a)
      PROVE  /\ Moves(c) /\ {call[c].op, call'[c].op} \subseteq {"none", "consume"}
             /\ raced' = raced \/ raced' = raced \cup {<<"consume", a>>}
  <2> DEFINE r == [NoCall EXCEPT !.op = "consume", !.at = "limited", !.x = a,
                                 !.limit = MaxTrades(a)]
  <2>1. MaxTrades(a) \in Nat /\ 0 \in Days
    BY QuotasAssumption DEF Base, MaxTrades, QuotasTypeOK, Limits
  <2>2. r \in CallRows /\ Shape(r) /\ r.op = "consume" /\ r.x = a
    BY <2>1 DEF NoCall, Consuming, CallRows, Shape
  <2>3. Begins(c, r)
    BY <1>1 DEF ConsumeReadsLimit
  <2> HIDE DEF r
  <2> QED BY <2>2, <2>3, BeginsMoves
<1>1a. ASSUME ConsumeReadsDay(c)
       PROVE  Moves(c) /\ {call[c].op, call'[c].op} \subseteq {"none", "consume"} /\ raced' = raced
  <2>1. /\ raced' = raced /\ call[c].op = "consume"
        /\ call' = [call EXCEPT ![c] = [@ EXCEPT !.at = "dated", !.day = today]]
    BY <1>1a DEF ConsumeReadsDay, At
  <2>2. call \in [Calls -> CallRows]
    BY DEF Base, QuotasTypeOK, CallRows
  <2>3. /\ call'[c] = [call[c] EXCEPT !.at = "dated", !.day = today]
        /\ \A d \in Calls : d # c => call'[d] = call[d]
    BY <2>1, <2>2
  <2> QED BY <2>1, <2>2, <2>3 DEF Moves, CallRows
<1>2. ASSUME ConsumeLoads(c)
      PROVE  Moves(c) /\ {call[c].op, call'[c].op} \subseteq {"none", "consume"} /\ raced' = raced
  <2>1. raced' = raced /\ call[c].op = "consume"
    BY <1>2 DEF ConsumeLoads, At
  <2>2. CASE Ends(c, "rejected")
    BY <2>1, <2>2, EndsMoves DEF Ended
  <2>3. ASSUME NEW at, NEW n, call' = [call EXCEPT ![c] = [@ EXCEPT !.at = at, !.seen = n]]
        PROVE  Moves(c) /\ call'[c].op = call[c].op
    <3>1. call \in [Calls -> CallRows]
      BY DEF Base, QuotasTypeOK, CallRows
    <3>2. /\ call'[c] = [call[c] EXCEPT !.at = at, !.seen = n]
          /\ \A d \in Calls : d # c => call'[d] = call[d]
      BY <2>3, <3>1
    <3> QED BY <2>1, <3>1, <3>2 DEF Moves, CallRows
  <2> QED BY <1>2, <2>1, <2>2, <2>3 DEF ConsumeLoads
<1>3. ASSUME ConsumeCommits(c)
      PROVE  Moves(c) /\ {call[c].op, call'[c].op} \subseteq {"none", "consume"} /\ raced' = raced
  <2>1. raced' = raced /\ call[c].op = "consume" /\ \E at \in Ended : Ends(c, at)
    BY <1>3 DEF ConsumeCommits, At, Ended
  <2> QED BY <2>1, EndsMoves
<1>4. UNCHANGED <<sub, bound, token, today, granted, files>>
  BY DEF ConsumeStep, ConsumeReadsLimit, ConsumeReadsDay, ConsumeLoads, ConsumeCommits
<1> QED BY <1>1, <1>1a, <1>2, <1>3, <1>4 DEF ConsumeStep

\* The route of orders only ends.
LEMMA MarketFrame ==
  ASSUME Base, NEW c \in Calls, MarketOrder(c)
  PROVE  /\ Moves(c) /\ call[c].op = "none" /\ call'[c].op = "none"
         /\ call'[c].at \in {"rejected", "failed"} /\ call'[c].late = call[c].late
         /\ UNCHANGED <<sub, bound, token, count, days, today, granted, raced, files, orders>>
<1>1. \E at \in {"rejected", "failed"} : Ends(c, at)
  BY DEF MarketOrder
<1>2. UNCHANGED <<sub, bound, token, count, days, today, granted, raced, files, orders>>
  BY DEF MarketOrder
<1>3. call[c].op = "none"
  BY DEF MarketOrder, Base, Shapes, Shape, Ending, Registering, Downloading, Consuming
<1>4. {"rejected", "failed"} \subseteq Ended
  BY DEF Ended
<1> QED BY <1>1, <1>2, <1>3, <1>4, EndsMoves

\* Every step of a call is of one of the four kinds.
LEMMA StepKinds ==
  ASSUME NEW c \in Calls, CallStep(c)
  PROVE  RegisterStep(c) \/ DownloadStep(c) \/ ConsumeStep(c) \/ MarketOrder(c)
BY DEF CallStep, RegisterStep, DownloadStep, ConsumeStep

\* What moves no call changes none, or frees the room of an account.
Others == \/ \E a \in Accounts, plan \in Plans : SetPlan(a, plan)
          \/ \E a \in Accounts : ClearBinding(a) \/ PaymentInserts(a)
          \/ \E t \in Tokens, n \in 1 .. MaxUses : IssueToken(t, n)
          \/ \E a \in Accounts, t \in Tokens : PortalIssues(a, t)
          \/ \E t \in Tokens : TokenExpires(t)
          \/ Midnight

LEMMA OthersFrame ==
  ASSUME Base, Others \/ UNCHANGED vars
  PROVE  /\ raced' = raced /\ UNCHANGED <<count, days, files, orders>>
         /\ \A c \in Calls :
              /\ call'[c].op = call[c].op /\ call'[c].at = call[c].at
              /\ call'[c].x = call[c].x /\ call'[c].phone = call[c].phone
              /\ call'[c].limit = call[c].limit /\ call'[c].seen = call[c].seen
              /\ call'[c].day = call[c].day
<1>1. CASE Others
  BY <1>1, UnlatesFacts DEF Others, SetPlan, PaymentInserts, Writes, ClearBinding, IssueToken,
    PortalIssues, TokenExpires, Midnight
<1>2. CASE UNCHANGED vars
  BY <1>2 DEF vars
<1> QED BY <1>1, <1>2

\* Overlaps stay noted.
LEMMA NextAlone == Base /\ Alone /\ [Next]_vars => Alone'
<1> SUFFICES ASSUME Base, Alone, [Next]_vars PROVE Alone'
  OBVIOUS
<1>1. ASSUME NEW c \in Calls, Moves(c) PROVE Alone'
  BY <1>1 DEF Alone, Moves, Working
<1>2. CASE Others \/ UNCHANGED vars
  BY <1>2, OthersFrame DEF Alone, Working
<1>3. ASSUME NEW c \in Calls, CallStep(c) PROVE Moves(c)
  BY <1>3, StepKinds, RegisterFrame, DownloadFrame, ConsumeFrame, MarketFrame
<1> QED BY <1>1, <1>2, <1>3 DEF Next, Others

-----------------------------------------------------------------------------
(* Limits that were read are limits the account has had.                   *)

LEMMA InitGrants == Init => Grants
<1> SUFFICES ASSUME Init PROVE Grants
  OBVIOUS
<1>1. \A c \in Calls : call[c].op = "none"
  BY DEF Init, NoCall
<1>2. \A a \in Accounts : /\ [devices |-> 1, trades |-> 0] \in granted[a]
                          /\ sub[a] = None /\ bound[a] = {}
  BY DEF Init
<1> QED BY <1>1, <1>2, FS_EmptySet DEF Grants, Registering, Consuming

\* A limit read now is one the account has.
LEMMA LimitsRead ==
  ASSUME Base, Grants, NEW a \in Accounts
  PROVE  /\ \E l \in granted[a] : MaxDevices(a) = l.devices
         /\ \E l \in granted[a] : MaxTrades(a) = l.trades
<1>1. CASE sub[a] = None
  <2>1. [devices |-> 1, trades |-> 0] \in granted[a]
    BY DEF Grants
  <2>2. MaxDevices(a) = 1 /\ MaxTrades(a) = 0
    BY <1>1 DEF MaxDevices, MaxTrades
  <2> QED BY <2>1, <2>2
<1>2. CASE sub[a] # None
  BY <1>2 DEF Grants, MaxDevices, MaxTrades
<1> QED BY <1>1, <1>2

\* Plans are only added to what an account has had.
LEMMA GrantedGrows ==
  ASSUME Base, Grants, [Next]_vars
  PROVE  \A a \in Accounts :
           /\ granted[a] \subseteq granted'[a]
           /\ sub'[a] # None => sub'[a] \in granted'[a]
<1>0. sub \in [Accounts -> Limits \cup {None}] /\ granted \in [Accounts -> SUBSET Limits]
  BY DEF Base, QuotasTypeOK
<1>1. ASSUME NEW a \in Accounts, NEW l \in Limits, Writes(a, l)
      PROVE  \A b \in Accounts : /\ granted[b] \subseteq granted'[b]
                                 /\ sub'[b] # None => sub'[b] \in granted'[b]
  BY <1>0, <1>1 DEF Writes, Grants
<1>2. CASE UNCHANGED <<sub, granted>>
  BY <1>2 DEF Grants
<1>3. ASSUME NEW c \in Calls, CallStep(c) PROVE UNCHANGED <<sub, granted>>
  BY <1>3, StepKinds, RegisterFrame, DownloadFrame, ConsumeFrame, MarketFrame
<1>4. ASSUME Others \/ UNCHANGED vars
      PROVE  \/ UNCHANGED <<sub, granted>>
             \/ \E a \in Accounts, l \in Limits : Writes(a, l)
  BY <1>4, QuotasAssumption DEF Others, SetPlan, PaymentInserts, ClearBinding, IssueToken,
    PortalIssues, TokenExpires, Midnight, vars
<1> QED BY <1>1, <1>2, <1>3, <1>4 DEF Next, Others

\* The phones of an account change with an insert or a clearing.
LEMMA BoundChanges ==
  ASSUME Base, [Next]_vars
  PROVE  \/ UNCHANGED bound
         \/ \E c \in Calls : RegisterInserts(c)
         \/ \E a \in Accounts : ClearBinding(a)
<1>1. ASSUME NEW c \in Calls, CallStep(c) PROVE UNCHANGED bound \/ RegisterInserts(c)
  <2>1. CASE RegisterStep(c)
    BY <2>1 DEF RegisterStep, RegisterReadsLimit, RegisterLooks, RegisterCounts
  <2> QED BY <1>1, <2>1, StepKinds, DownloadFrame, ConsumeFrame, MarketFrame
<1>2. CASE Others \/ UNCHANGED vars
  BY <1>2 DEF Others, SetPlan, PaymentInserts, Writes, IssueToken, PortalIssues, TokenExpires,
    Midnight, vars
<1> QED BY <1>1, <1>2 DEF Next, Others

\* A limit that was read stays one the account has had.
LEMMA NextGrants == Base /\ Grants /\ [Next]_vars => Grants'
<1> SUFFICES ASSUME Base, Grants, [Next]_vars PROVE Grants'
  OBVIOUS
<1>1. \A a \in Accounts : /\ [devices |-> 1, trades |-> 0] \in granted'[a]
                          /\ sub'[a] # None => sub'[a] \in granted'[a]
  BY GrantedGrows DEF Grants
<1>2. ASSUME NEW a \in Accounts PROVE IsFiniteSet(bound'[a])
  <2>0. IsFiniteSet(bound[a]) /\ bound \in [Accounts -> SUBSET Phones]
    BY DEF Grants, Base, QuotasTypeOK
  <2>1. ASSUME NEW c \in Calls, RegisterInserts(c) PROVE IsFiniteSet(bound'[a])
    <3>1. bound'[a] = bound[a] \/ bound'[a] = bound[a] \cup {call[c].phone}
      BY <2>0, <2>1 DEF RegisterInserts
    <3> QED BY <2>0, <3>1, FS_AddElement
  <2>2. ASSUME NEW b \in Accounts, ClearBinding(b) PROVE IsFiniteSet(bound'[a])
    BY <2>0, <2>2, FS_EmptySet DEF ClearBinding
  <2> QED BY <2>0, <2>1, <2>2, BoundChanges
<1>3. ASSUME NEW c \in Calls
      PROVE  /\ Registering(call'[c]) => \E l \in granted'[call'[c].x] : call'[c].limit = l.devices
             /\ Consuming(call'[c]) => \E l \in granted'[call'[c].x] : call'[c].limit = l.trades
  <2>0. Shape(call[c]) /\ Shape(call'[c])
    BY NextBase DEF Base, Shapes
  <2>1. CASE call'[c].op = call[c].op /\ call'[c].x = call[c].x /\ call'[c].limit = call[c].limit
    BY <2>0, <2>1, GrantedGrows
    DEF Grants, Shape, Ending, Registering, Downloading, Consuming
  <2>2. CASE call'[c].op = "none"
    BY <2>2 DEF Registering, Consuming
  <2>3. CASE \E a \in Accounts, p \in Phones : RegisterReadsLimit(c, a, p)
    <3> PICK a \in Accounts, p \in Phones : RegisterReadsLimit(c, a, p)
      BY <2>3
    <3>1. /\ call'[c].op = "register" /\ call'[c].x = a /\ call'[c].limit = MaxDevices(a)
          /\ granted' = granted
      BY DEF RegisterReadsLimit, Begins, NoCall, Base, QuotasTypeOK
    <3> QED BY <3>1, LimitsRead DEF Consuming
  <2>4. CASE \E a \in Accounts : ConsumeReadsLimit(c, a)
    <3> PICK a \in Accounts : ConsumeReadsLimit(c, a)
      BY <2>4
    <3>1. /\ call'[c].op = "consume" /\ call'[c].x = a /\ call'[c].limit = MaxTrades(a)
          /\ granted' = granted
      BY DEF ConsumeReadsLimit, Begins, NoCall, Base, QuotasTypeOK
    <3> QED BY <3>1, LimitsRead DEF Registering
  <2>5. CASE \E t \in Tokens : DownloadLoads(c, t)
    BY <2>0, <2>5, DownloadFrame DEF DownloadStep, Registering, Consuming
  <2>6. ASSUME NEW d \in Calls, CallStep(d), d # c PROVE call'[c] = call[c]
    BY <2>6, StepKinds, RegisterFrame, DownloadFrame, ConsumeFrame, MarketFrame DEF Moves
  <2>7. ASSUME CallStep(c)
        PROVE  \/ call'[c].op = "none"
               \/ call'[c].op = call[c].op /\ call'[c].x = call[c].x /\ call'[c].limit = call[c].limit
               \/ \E a \in Accounts, p \in Phones : RegisterReadsLimit(c, a, p)
               \/ \E a \in Accounts : ConsumeReadsLimit(c, a)
               \/ \E t \in Tokens : DownloadLoads(c, t)
    <3>1. Moves(c)
      BY <2>7, StepKinds, RegisterFrame, DownloadFrame, ConsumeFrame, MarketFrame
    <3>2. \/ call[c].op # "none" \/ MarketOrder(c)
          \/ \E a \in Accounts, p \in Phones : RegisterReadsLimit(c, a, p)
          \/ \E a \in Accounts : ConsumeReadsLimit(c, a)
          \/ \E t \in Tokens : DownloadLoads(c, t)
      BY <2>7 DEF CallStep, RegisterLooks, RegisterCounts, RegisterInserts, DownloadCommits,
        ConsumeReadsDay, ConsumeLoads, ConsumeCommits, At
    <3> QED BY <3>1, <3>2, MarketFrame DEF Moves
  <2>8. CASE Others \/ UNCHANGED vars
    BY <2>1, <2>8, OthersFrame
  <2> QED BY <2>1, <2>2, <2>3, <2>4, <2>5, <2>6, <2>7, <2>8 DEF Next, Others
<1> QED BY <1>1, <1>2, <1>3 DEF Grants

LEMMA InitAlone == Init => Alone
BY DEF Init, Alone, NoCall

-----------------------------------------------------------------------------
(* Registrations.                                                          *)

\* While it is alone, a call about to insert still finds room.
Room(c) ==
  Registering(call[c]) /\ call[c].at = "inserting" /\ <<"register", call[c].x>> \notin raced
    => Cardinality(bound[call[c].x]) < call[c].limit

Rooms ==
  /\ \A c \in Calls : Room(c)
  /\ \A a \in Accounts : <<"register", a>> \notin raced =>
       \E l \in granted[a] : Cardinality(bound[a]) <= l.devices

LEMMA InitRooms == Init => Rooms
<1> SUFFICES ASSUME Init PROVE Rooms
  OBVIOUS
<1>1. \A c \in Calls : Room(c)
  BY DEF Init, Room, Registering, NoCall
<1>2. ASSUME NEW a \in Accounts
      PROVE  \E l \in granted[a] : Cardinality(bound[a]) <= l.devices
  <2>1. Cardinality(bound[a]) = 0 /\ granted[a] = {[devices |-> 1, trades |-> 0]}
    BY FS_EmptySet DEF Init
  <2>2. Cardinality(bound[a]) <= [devices |-> 1, trades |-> 0].devices
    BY <2>1
  <2> QED BY <2>1, <2>2
<1> QED BY <1>1, <1>2 DEF Rooms

\* How a call comes to be about to insert: it was, or it has just counted.
LEMMA BeforeInsert ==
  ASSUME Base, NEW c \in Calls, [Next]_vars,
         Registering(call'[c]), call'[c].at = "inserting"
  PROVE  /\ Registering(call[c]) /\ call'[c].x = call[c].x /\ call'[c].limit = call[c].limit
         /\ \/ call[c].at = "inserting" /\ ~RegisterInserts(c)
            \/ RegisterCounts(c) /\ ~Full(Cardinality(bound[call[c].x]), call[c].limit)
<1>0. Shape(call[c]) /\ call[c] \in CallRows /\ call'[c].op = "register"
  BY DEF Base, Shapes, QuotasTypeOK, CallRows, Registering
<1>1. ASSUME ~CallStep(c)
      PROVE  /\ call'[c].op = call[c].op /\ call'[c].at = call[c].at /\ call'[c].x = call[c].x
             /\ call'[c].phone = call[c].phone /\ call'[c].limit = call[c].limit
  <2>1. ASSUME NEW d \in Calls, CallStep(d) PROVE call'[c] = call[c]
    <3>1. d # c
      BY <1>1, <2>1
    <3> QED BY <2>1, <3>1, StepKinds, RegisterFrame, DownloadFrame, ConsumeFrame, MarketFrame
         DEF Moves
  <2>2. CASE Others \/ UNCHANGED vars
    BY <2>2, OthersFrame
  <2> QED BY <2>1, <2>2 DEF Next, Others
<1>2. ASSUME CallStep(c)
      PROVE  /\ RegisterCounts(c) /\ ~Full(Cardinality(bound[call[c].x]), call[c].limit)
             /\ call'[c].x = call[c].x /\ call'[c].limit = call[c].limit
             /\ call[c].op = "register"
  <2>1. RegisterStep(c)
    BY <1>0, <1>2, StepKinds, DownloadFrame, ConsumeFrame, MarketFrame
  <2>2. ASSUME NEW a \in Accounts, NEW p \in Phones, RegisterReadsLimit(c, a, p) PROVE FALSE
    <3> DEFINE r == [NoCall EXCEPT !.op = "register", !.at = "limited", !.x = a, !.phone = p,
                       !.limit = MaxDevices(a),
                       !.late = p \notin bound[a] /\ Cardinality(bound[a]) >= MaxDevices(a)]
    <3>1. call' = [call EXCEPT ![c] = r]
      BY <2>2 DEF RegisterReadsLimit, Begins
    <3>2. r.at = "limited"
      BY DEF NoCall
    <3> HIDE DEF r
    <3> QED BY <3>1, <3>2 DEF Base, QuotasTypeOK
  <2>3. ASSUME NEW at \in Ended, Ends(c, at) PROVE FALSE
    BY <1>0, <2>3, EndsFacts DEF Ending
  <2>4. ~RegisterInserts(c)
    BY <2>3 DEF RegisterInserts, Ended
  <2>5. ~RegisterLooks(c)
    <3>1. ASSUME call' = [call EXCEPT ![c].at = "unbound"] PROVE FALSE
      BY <3>1, GoesFacts DEF Base, QuotasTypeOK
    <3> QED BY <2>3, <3>1 DEF RegisterLooks, Ended
  <2>6. RegisterCounts(c)
    BY <2>1, <2>2, <2>4, <2>5 DEF RegisterStep
  <2>7. /\ ~Full(Cardinality(bound[call[c].x]), call[c].limit) /\ call[c].op = "register"
        /\ call' = [call EXCEPT ![c].at = "inserting"]
    BY <2>3, <2>6 DEF RegisterCounts, Ended, At
  <2>8. call'[c] = [call[c] EXCEPT !.at = "inserting"]
    BY <2>7, GoesFacts
  <2> QED BY <1>0, <2>6, <2>7, <2>8 DEF CallRows
<1>3. RegisterInserts(c) => CallStep(c)
  BY DEF CallStep
<1>4. ~CallStep(c) => ~RegisterInserts(c) /\ Registering(call[c]) /\ call[c].at = "inserting"
  BY <1>1, <1>3 DEF Registering
<1>5. CallStep(c) => Registering(call[c])
  BY <1>0, <1>2 DEF Shape, Ending, Registering, Downloading, Consuming
<1> QED BY <1>1, <1>2, <1>4, <1>5

\* How the phones of an account may change.
LEMMA BoundOf ==
  ASSUME Base, Grants, [Next]_vars, NEW a \in Accounts
  PROVE  /\ Cardinality(bound[a]) \in Nat /\ Cardinality(bound'[a]) \in Nat
         /\ \/ bound'[a] = bound[a]
            \/ ClearBinding(a) /\ Cardinality(bound'[a]) = 0
            \/ \E c \in Calls : /\ RegisterInserts(c) /\ call[c].x = a /\ Registering(call[c])
                                /\ bound[a] \subseteq bound'[a]
                                /\ Cardinality(bound[a]) <= Cardinality(bound'[a])
                                /\ Cardinality(bound'[a]) <= Cardinality(bound[a]) + 1
<1>0. IsFiniteSet(bound[a]) /\ bound \in [Accounts -> SUBSET Phones]
  BY DEF Grants, Base, QuotasTypeOK
<1>1. IsFiniteSet(bound'[a])
  BY NextGrants DEF Grants
<1>2. ASSUME NEW c \in Calls, RegisterInserts(c), bound'[a] # bound[a]
      PROVE  /\ call[c].x = a /\ Registering(call[c]) /\ bound[a] \subseteq bound'[a]
             /\ Cardinality(bound[a]) <= Cardinality(bound'[a])
             /\ Cardinality(bound'[a]) <= Cardinality(bound[a]) + 1
  <2>1. Registering(call[c])
    BY <1>2 DEF RegisterInserts, At, Base, Shapes, Shape, Ending, Downloading, Consuming
  <2>2. call[c].x = a /\ bound'[a] = bound[a] \cup {call[c].phone}
    BY <1>0, <1>2 DEF RegisterInserts
  <2>3. /\ \/ Cardinality(bound'[a]) = Cardinality(bound[a])
           \/ Cardinality(bound'[a]) = Cardinality(bound[a]) + 1
        /\ Cardinality(bound[a]) \in Nat
    <3>1. \A y : \/ Cardinality(bound[a] \cup {y}) = Cardinality(bound[a])
                 \/ Cardinality(bound[a] \cup {y}) = Cardinality(bound[a]) + 1
      <4> TAKE y
      <4>1. CASE y \in bound[a]
        <5>1. bound[a] \cup {y} = bound[a]
          BY <4>1
        <5> QED BY <5>1
      <4>2. CASE y \notin bound[a]
        BY <1>0, <4>2, FS_AddElement
      <4> QED BY <4>1, <4>2
    <3> QED BY <1>0, <2>2, <3>1, FS_CardinalityType
  <2> QED BY <2>1, <2>2, <2>3
<1>3. ASSUME NEW b \in Accounts, ClearBinding(b), bound'[a] # bound[a]
      PROVE  ClearBinding(a) /\ Cardinality(bound'[a]) = 0
  <2>1. b = a /\ bound'[a] = {}
    BY <1>0, <1>3 DEF ClearBinding
  <2> QED BY <1>3, <2>1, FS_EmptySet
<1>4. Cardinality(bound[a]) \in Nat /\ Cardinality(bound'[a]) \in Nat
  BY <1>0, <1>1, FS_CardinalityType
<1> QED BY <1>2, <1>3, <1>4, BoundChanges

\* An overlap stays noted.
LEMMA RacedGrows == Base /\ [Next]_vars => raced \subseteq raced'
<1> SUFFICES ASSUME Base, [Next]_vars PROVE raced \subseteq raced'
  OBVIOUS
<1>1. ASSUME NEW c \in Calls, CallStep(c) PROVE raced \subseteq raced'
  BY <1>1, StepKinds, RegisterFrame, DownloadFrame, ConsumeFrame, MarketFrame DEF Moves
<1> QED BY <1>1, OthersFrame DEF Next, Others

LEMMA NextRooms == Base /\ Alone /\ Grants /\ Rooms /\ [Next]_vars => Rooms'
<1> SUFFICES ASSUME Base, Alone, Grants, Rooms, [Next]_vars PROVE Rooms'
  OBVIOUS
<1>0. raced \subseteq raced'
  BY RacedGrows
<1>1. ASSUME NEW c \in Calls, Registering(call'[c]), call'[c].at = "inserting",
             <<"register", call'[c].x>> \notin raced'
      PROVE  Cardinality(bound'[call'[c].x]) < call'[c].limit
  <2> DEFINE a == call[c].x
  <2>1. /\ Registering(call[c]) /\ call'[c].x = a /\ call'[c].limit = call[c].limit
        /\ \/ call[c].at = "inserting" /\ ~RegisterInserts(c)
           \/ RegisterCounts(c) /\ ~Full(Cardinality(bound[a]), call[c].limit)
    BY <1>1, BeforeInsert
  <2>2. a \in Accounts /\ <<"register", a>> \notin raced /\ call[c].limit \in Nat
    BY <1>0, <1>1, <2>1 DEF Registering, Base, QuotasTypeOK
  <2>3. Cardinality(bound[a]) \in Nat /\ Cardinality(bound'[a]) \in Nat
    BY <2>2, BoundOf
  <2>4. Cardinality(bound[a]) < call[c].limit
    <3>1. CASE call[c].at = "inserting"
      BY <2>1, <2>2, <3>1 DEF Rooms, Room
    <3>2. CASE ~Full(Cardinality(bound[a]), call[c].limit)
      BY <2>2, <2>3, <3>2 DEF Full
    <3> QED BY <2>1, <3>1, <3>2
  <2>5. ASSUME NEW d \in Calls, RegisterInserts(d), call[d].x = a, Registering(call[d])
        PROVE  FALSE
    <3>1. d # c
      BY <2>1, <2>5 DEF RegisterInserts, RegisterCounts, At
    <3>2. <<"register", a>> \in raced
      BY <2>1, <2>5, <3>1 DEF Alone, Working, Registering
    <3> QED BY <2>2, <3>2
  <2>6. bound'[a] = bound[a] \/ Cardinality(bound'[a]) = 0
    BY <2>2, <2>5, BoundOf
  <2> QED BY <2>1, <2>2, <2>3, <2>4, <2>6
<1>2. ASSUME NEW a \in Accounts, <<"register", a>> \notin raced'
      PROVE  \E l \in granted'[a] : Cardinality(bound'[a]) <= l.devices
  <2>1. /\ granted[a] \subseteq granted'[a] /\ [devices |-> 1, trades |-> 0] \in granted[a]
        /\ granted[a] \subseteq Limits
    BY GrantedGrows DEF Grants, Base, QuotasTypeOK
  <2>2. PICK l \in granted[a] : Cardinality(bound[a]) <= l.devices
    BY <1>0, <1>2 DEF Rooms
  <2>3. CASE bound'[a] = bound[a]
    BY <2>1, <2>2, <2>3
  <2>4. CASE Cardinality(bound'[a]) = 0
    <3>1. Cardinality(bound'[a]) <= [devices |-> 1, trades |-> 0].devices
      BY <2>4
    <3> QED BY <2>1, <3>1
  <2>5. ASSUME NEW c \in Calls, RegisterInserts(c), call[c].x = a, Registering(call[c]),
               Cardinality(bound'[a]) <= Cardinality(bound[a]) + 1
        PROVE  \E m \in granted'[a] : Cardinality(bound'[a]) <= m.devices
    <3>1. Cardinality(bound[a]) < call[c].limit
      BY <1>0, <1>2, <2>5 DEF Rooms, Room, RegisterInserts, At
    <3>2. PICK m \in granted[a] : call[c].limit = m.devices
      BY <2>5 DEF Grants
    <3>3. call[c].limit \in Nat /\ Cardinality(bound[a]) \in Nat /\ Cardinality(bound'[a]) \in Nat
      BY BoundOf DEF Base, QuotasTypeOK
    <3>4. Cardinality(bound'[a]) <= m.devices
      BY <2>5, <3>1, <3>2, <3>3
    <3> QED BY <2>1, <3>4
  <2> QED BY <2>3, <2>4, <2>5, BoundOf
<1>3. ASSUME NEW c \in Calls PROVE Room(c)'
  BY <1>1 DEF Room, Registering
<1> QED BY <1>2, <1>3 DEF Rooms

-----------------------------------------------------------------------------
(* Downloads.                                                              *)

\* While it is alone, a call that has loaded a token knows its uses, and has one left.
Unused(c) ==
  Downloading(call[c]) =>
    /\ token[call[c].x].is
    /\ <<"download", call[c].x>> \notin raced =>
         call[c].seen = token[call[c].x].uses /\ call[c].seen < token[call[c].x].max

\* A file was sent for a use that is committed.
Files ==
  /\ \A c \in Calls : Unused(c)
  /\ \A t \in Tokens :
       /\ files[t] > 0 => token[t].is /\ token[t].uses >= 1
       /\ <<"download", t>> \notin raced =>
            files[t] <= token[t].uses /\ token[t].uses <= token[t].max

LEMMA InitFiles == Init => Files
<1> SUFFICES ASSUME Init PROVE Files
  OBVIOUS
<1>1. \A c \in Calls : Unused(c)
  BY DEF Init, Unused, Downloading, NoCall
<1>2. \A t \in Tokens : files[t] = 0 /\ token[t].uses = 0 /\ token[t].max = 0
  BY DEF Init, NoToken
<1> QED BY <1>1, <1>2 DEF Files

\* What a download sees of its token, and does to it.
LEMMA Loads ==
  ASSUME Base, NEW c \in Calls, NEW t \in Tokens, DownloadLoads(c, t)
  PROVE  /\ UNCHANGED <<token, files>>
         /\ \/ /\ call'[c].op = "download" /\ call'[c].at = "loaded" /\ call'[c].x = t
               /\ call'[c].seen = token[t].uses
               /\ token[t].is /\ token[t].uses < token[t].max
            \/ Ending(call'[c]) /\ call'[c].at = "rejected"
         /\ call'[c].late <=> (token[t].max = 1 /\ files[t] > 0)
<1> DEFINE late == token[t].max = 1 /\ files[t] > 0
           r == [NoCall EXCEPT !.op = "download", !.at = "loaded", !.x = t,
                               !.seen = token[t].uses, !.late = late]
           q == [NoCall EXCEPT !.at = "rejected", !.late = late]
<1>1. token[t].uses \in Nat /\ token[t].max \in Nat
  BY DEF Base, QuotasTypeOK
<1>2. IF token[t].is /\ ~token[t].expired /\ ~Full(token[t].uses, token[t].max)
      THEN call' = [call EXCEPT ![c] = r] ELSE call' = [call EXCEPT ![c] = q]
  BY DEF DownloadLoads, Begins
<1>3. /\ r.op = "download" /\ r.at = "loaded" /\ r.x = t /\ r.seen = token[t].uses
      /\ r.late = late
  BY DEF NoCall
<1>4. q.op = "none" /\ q.at = "rejected" /\ q.late = late
  BY DEF NoCall
<1>5. UNCHANGED <<token, files>>
  BY DEF DownloadLoads
<1>6. call \in [Calls -> CallRows]
  BY DEF Base, QuotasTypeOK, CallRows
<1> HIDE DEF r, q
<1>7. CASE token[t].is /\ ~Full(token[t].uses, token[t].max) /\ call' = [call EXCEPT ![c] = r]
  <2>1. token[t].uses < token[t].max
    BY <1>1, <1>7 DEF Full
  <2> QED BY <1>3, <1>5, <1>6, <1>7, <2>1
<1>8. CASE call' = [call EXCEPT ![c] = q]
  BY <1>4, <1>5, <1>6, <1>8 DEF Ending, Ended
<1> QED BY <1>2, <1>7, <1>8

LEMMA Commits ==
  ASSUME Base, NEW c \in Calls, DownloadCommits(c)
  PROVE  LET t == call[c].x IN
         /\ Downloading(call[c]) /\ t \in Tokens /\ Ending(call'[c])
         /\ \A u \in Tokens : u # t => token'[u] = token[u] /\ files'[u] = files[u]
         /\ token'[t].is = token[t].is /\ token'[t].max = token[t].max
         /\ token'[t].uses = call[c].seen + 1
         /\ files'[t] = files[t] \/ files'[t] = files[t] + 1
<1> DEFINE t == call[c].x
<1>1. Downloading(call[c])
  BY DEF DownloadCommits, At, Base, Shapes, Shape, Ending, Registering, Consuming
<1>2. /\ token' = [token EXCEPT ![t].uses = call[c].seen + 1]
      /\ files' = [files EXCEPT ![t] = @ + 1] \/ files' = files
      /\ \E at \in Ended : Ends(c, at)
  BY DEF DownloadCommits, Ended
<1>3. t \in Tokens /\ Ending(call'[c])
  BY <1>1, <1>2, EndsFacts DEF Downloading
<1>4. /\ token \in [Tokens -> [is : BOOLEAN, max : Nat, uses : Nat, expired : BOOLEAN]]
      /\ files \in [Tokens -> Nat]
  BY DEF Base, QuotasTypeOK
<1>5. token'[t] = [token[t] EXCEPT !.uses = call[c].seen + 1]
  BY <1>2, <1>3, <1>4
<1>6. token[t] \in [is : BOOLEAN, max : Nat, uses : Nat, expired : BOOLEAN]
  BY <1>3, <1>4
<1>7. /\ token'[t].is = token[t].is /\ token'[t].max = token[t].max
      /\ token'[t].uses = call[c].seen + 1
  BY <1>5, <1>6
<1> HIDE DEF t
<1>8. /\ \A u \in Tokens : u # t => token'[u] = token[u] /\ files'[u] = files[u]
      /\ files'[t] = files[t] \/ files'[t] = files[t] + 1
  BY <1>2, <1>3, <1>4
<1> QED BY <1>1, <1>3, <1>7, <1>8 DEF t

\* How a token changes when no download does it: it is issued, or expires.
LEMMA TokenOf ==
  ASSUME Base, NEW t \in Tokens, Others \/ UNCHANGED vars
  PROVE  \/ ~token[t].is /\ token'[t].uses = 0
         \/ /\ token'[t].is = token[t].is
            /\ token'[t].uses = token[t].uses /\ token'[t].max = token[t].max
<1> DEFINE Row == [is : BOOLEAN, max : Nat, uses : Nat, expired : BOOLEAN]
<1>0. token \in [Tokens -> Row] /\ token[t] \in Row
  BY DEF Base, QuotasTypeOK
<1>1. ASSUME NEW u \in Tokens, NEW n, IssueToken(u, n)
      PROVE  token'[t] = token[t] \/ (~token[t].is /\ token'[t].uses = 0)
  <2> DEFINE r == [NoToken EXCEPT !.is = TRUE, !.max = n]
  <2>1. r.uses = 0
    BY DEF NoToken
  <2>2. ~token[u].is /\ token' = [token EXCEPT ![u] = r]
    BY <1>1 DEF IssueToken
  <2> HIDE DEF r, Row
  <2> QED BY <1>0, <2>1, <2>2
<1>2. ASSUME NEW u \in Tokens, TokenExpires(u)
      PROVE  token'[t] = token[t] \/ token'[t] = [token[t] EXCEPT !.expired = TRUE]
  BY <1>0, <1>2 DEF TokenExpires
<1>3. CASE token' = token
  BY <1>3
<1>4. \/ token' = token
      \/ \E u \in Tokens, n \in 1 .. MaxUses : IssueToken(u, n)
      \/ \E u \in Tokens : IssueToken(u, 1)
      \/ \E u \in Tokens : TokenExpires(u)
  BY DEF Others, SetPlan, PaymentInserts, Writes, ClearBinding, PortalIssues, Midnight, vars
<1> QED BY <1>0, <1>1, <1>2, <1>3, <1>4

LEMMA NextFiles == Base /\ Alone /\ Files /\ [Next]_vars => Files'
<1> SUFFICES ASSUME Base, Alone, Files, [Next]_vars PROVE Files'
  OBVIOUS
<1>0. /\ raced \subseteq raced' /\ files \in [Tokens -> Nat]
      /\ \A t \in Tokens : token[t].uses \in Nat /\ token[t].max \in Nat
      /\ \A d \in Calls : Shape(call[d]) /\ call[d].seen \in Nat
  BY RacedGrows DEF Base, Shapes, QuotasTypeOK
<1>1. ASSUME NEW c \in Calls, NEW t \in Tokens, DownloadLoads(c, t) PROVE Files'
  <2>1. \A d \in Calls : d # c => call'[d] = call[d]
    BY <1>1, DownloadFrame DEF DownloadStep, Moves
  <2>2. Unused(c)'
    <3>1. CASE Ending(call'[c])
      BY <3>1 DEF Unused, Ending, Downloading
    <3>2. CASE /\ call'[c].x = t /\ call'[c].seen = token[t].uses /\ token[t].is
               /\ token[t].uses < token[t].max
      BY <1>1, <3>2, Loads DEF Unused
    <3> QED BY <1>1, <3>1, <3>2, Loads
  <2>3. ASSUME NEW d \in Calls, d # c PROVE Unused(d)'
    BY <1>0, <1>1, <2>1, <2>3, Loads DEF Files, Unused
  <2>4. UNCHANGED <<token, files>>
    BY <1>1, Loads
  <2> QED BY <1>0, <2>2, <2>3, <2>4 DEF Files
<1>2. ASSUME NEW c \in Calls, DownloadCommits(c) PROVE Files'
  <2> DEFINE t == call[c].x
  <2>1. /\ Downloading(call[c]) /\ t \in Tokens /\ Ending(call'[c])
        /\ \A u \in Tokens : u # t => token'[u] = token[u] /\ files'[u] = files[u]
        /\ token'[t].is = token[t].is /\ token'[t].max = token[t].max
        /\ token'[t].uses = call[c].seen + 1
        /\ files'[t] = files[t] \/ files'[t] = files[t] + 1
    BY <1>2, Commits
  <2>2. /\ token[t].is
        /\ <<"download", t>> \notin raced =>
             call[c].seen = token[t].uses /\ call[c].seen < token[t].max
    BY <2>1 DEF Files, Unused
  <2>3. raced' = raced /\ \A d \in Calls : d # c => call'[d] = call[d]
    BY <1>2, DownloadFrame DEF DownloadStep, Moves, DownloadCommits
  <2>4. Unused(c)'
    BY <2>1 DEF Unused, Ending, Downloading
  <2>5. ASSUME NEW d \in Calls, d # c PROVE Unused(d)'
    <3>1. CASE Downloading(call[d]) /\ call[d].x = t
      <4>1. <<"download", t>> \in raced
        BY <2>1, <2>5, <3>1 DEF Alone, Working, Downloading
      <4> QED BY <2>1, <2>2, <2>3, <2>5, <3>1, <4>1 DEF Unused
    <3>2. CASE Downloading(call[d]) /\ call[d].x # t
      <4>1. call[d].x \in Tokens
        BY <3>2 DEF Downloading
      <4>2. token'[call[d].x] = token[call[d].x] /\ call'[d] = call[d]
        BY <2>1, <2>3, <2>5, <3>2, <4>1
      <4> QED BY <2>3, <4>2 DEF Files, Unused
    <3> QED BY <2>3, <2>5, <3>1, <3>2 DEF Unused
  <2>6. ASSUME NEW u \in Tokens
        PROVE  /\ files'[u] > 0 => token'[u].is /\ token'[u].uses >= 1
               /\ <<"download", u>> \notin raced' =>
                    files'[u] <= token'[u].uses /\ token'[u].uses <= token'[u].max
    <3> HIDE DEF t
    <3>1. CASE u = t
      <4>1. call[c].seen \in Nat /\ files[t] \in Nat /\ token[t].max \in Nat /\ token[t].uses \in Nat
        BY <1>0, <2>1
      <4>2. <<"download", t>> \notin raced =>
              files[t] <= token[t].uses /\ token[t].uses <= token[t].max
        BY <2>1 DEF Files
      <4>3. /\ token'[t].is /\ token'[t].uses = call[c].seen + 1 /\ token'[t].max = token[t].max
            /\ files'[t] = files[t] \/ files'[t] = files[t] + 1
        BY <2>1, <2>2
      <4>4. ASSUME <<"download", t>> \notin raced
            PROVE  files'[t] <= token'[t].uses /\ token'[t].uses <= token'[t].max
        <5>1. call[c].seen = token[t].uses /\ call[c].seen < token[t].max /\ files[t] <= token[t].uses
          BY <2>2, <4>2, <4>4
        <5> QED BY <4>1, <4>3, <5>1
      <4>5. token'[t].uses >= 1
        BY <4>1, <4>3
      <4> QED BY <2>3, <3>1, <4>3, <4>4, <4>5
    <3>2. CASE u # t
      BY <2>1, <2>3, <3>2 DEF Files
    <3> QED BY <3>1, <3>2
  <2> QED BY <2>4, <2>5, <2>6 DEF Files
<1>3. ASSUME NEW c \in Calls,
             RegisterStep(c) \/ ConsumeStep(c) \/ MarketOrder(c)
      PROVE  Files'
  <2>1. /\ \A d \in Calls : d # c => call'[d] = call[d]
        /\ call'[c].op # "download" /\ UNCHANGED <<token, files>>
    BY <1>3, RegisterFrame, ConsumeFrame, MarketFrame DEF Moves
  <2>2. ASSUME NEW d \in Calls PROVE Unused(d)'
    <3>1. CASE d = c
      BY <2>1, <3>1 DEF Unused, Downloading
    <3>2. CASE d # c
      BY <1>0, <2>1, <3>2 DEF Files, Unused
    <3> QED BY <3>1, <3>2
  <2> QED BY <1>0, <2>1, <2>2 DEF Files
<1>4. CASE Others \/ UNCHANGED vars
  <2>1. /\ files' = files /\ raced' = raced
        /\ \A d \in Calls : /\ Downloading(call'[d]) <=> Downloading(call[d])
                            /\ call'[d].x = call[d].x /\ call'[d].seen = call[d].seen
    BY <1>4, OthersFrame DEF Downloading
  <2>2. \A t \in Tokens : \/ ~token[t].is /\ token'[t].uses = 0
                          \/ /\ token'[t].is = token[t].is
                             /\ token'[t].uses = token[t].uses /\ token'[t].max = token[t].max
    BY <1>4, TokenOf
  <2>3. ASSUME NEW d \in Calls PROVE Unused(d)'
    <3>1. Unused(d)
      BY DEF Files
    <3>2. Downloading(call[d]) => call[d].x \in Tokens
      BY DEF Downloading
    <3> QED BY <2>1, <2>2, <3>1, <3>2 DEF Unused
  <2>4. ASSUME NEW t \in Tokens
        PROVE  /\ files'[t] > 0 => token'[t].is /\ token'[t].uses >= 1
               /\ <<"download", t>> \notin raced' =>
                    files'[t] <= token'[t].uses /\ token'[t].uses <= token'[t].max
    <3>1. files[t] \in Nat /\ token[t].uses \in Nat /\ token'[t].max \in Nat
      BY <1>0, NextBase DEF Base, QuotasTypeOK
    <3> QED BY <2>1, <2>2, <3>1 DEF Files
  <2> QED BY <2>3, <2>4 DEF Files
<1> QED BY <1>1, <1>2, <1>3, <1>4, StepKinds DEF Next, Others, DownloadStep

-----------------------------------------------------------------------------
(* What is used up is refused.                                             *)

\* A call that came too late is refused, or has not yet counted what leaves it no room.
Lates ==
  \A c \in Calls : call[c].late =>
    \/ /\ Registering(call[c]) /\ call[c].at # "inserting"
       /\ Cardinality(bound[call[c].x]) >= call[c].limit
    \/ Ending(call[c]) /\ call[c].at \in {"ok", "rejected"}

LEMMA InitLates == Init => Lates
BY DEF Init, Lates, NoCall

\* A registration that is late has no room left, and ends refused.
LEMMA RegisterLates ==
  ASSUME Base, Lates, NEW c \in Calls, RegisterStep(c), call'[c].late
  PROVE  \/ /\ Registering(call'[c]) /\ call'[c].at # "inserting" /\ bound' = bound
            /\ Cardinality(bound[call'[c].x]) >= call'[c].limit
         \/ Ending(call'[c]) /\ call'[c].at \in {"ok", "rejected"}
<1>0. call \in [Calls -> CallRows] /\ Shape(call[c])
  BY DEF Base, QuotasTypeOK, CallRows, Shapes
<1>1. ASSUME NEW a \in Accounts, NEW p \in Phones, RegisterReadsLimit(c, a, p)
      PROVE  /\ Registering(call'[c]) /\ call'[c].at # "inserting" /\ bound' = bound
             /\ Cardinality(bound[call'[c].x]) >= call'[c].limit
  <2> DEFINE late == p \notin bound[a] /\ Cardinality(bound[a]) >= MaxDevices(a)
             r == [NoCall EXCEPT !.op = "register", !.at = "limited", !.x = a, !.phone = p,
                     !.limit = MaxDevices(a), !.late = late]
  <2>1. /\ r.op = "register" /\ r.at = "limited" /\ r.x = a /\ r.phone = p
        /\ r.limit = MaxDevices(a) /\ r.late = late
    BY DEF NoCall
  <2>2. call' = [call EXCEPT ![c] = r] /\ bound' = bound
    BY <1>1 DEF RegisterReadsLimit, Begins
  <2> HIDE DEF r
  <2>3. call'[c] = r
    BY <1>0, <2>2
  <2> QED BY <2>1, <2>2, <2>3 DEF Registering
<1>2. ASSUME NEW at \in Ended, Ends(c, at)
      PROVE  Ending(call'[c]) /\ call'[c].at = at /\ call[c].late
  BY <1>2, EndsFacts
<1>3. CASE RegisterLooks(c)
  <2>1. CASE Ends(c, "ok")
    BY <1>2, <2>1 DEF Ended
  <2>2. CASE call' = [call EXCEPT ![c].at = "unbound"]
    <3>1. call'[c] = [call[c] EXCEPT !.at = "unbound"]
      BY <2>2, GoesFacts
    <3>2. call[c].late /\ call[c].op = "register" /\ bound' = bound
      BY <1>0, <1>3, <3>1 DEF RegisterLooks, At, CallRows
    <3>3. Registering(call[c]) /\ Cardinality(bound[call[c].x]) >= call[c].limit
      BY <3>2 DEF Lates, Ending
    <3> QED BY <1>0, <3>1, <3>2, <3>3 DEF Registering, CallRows
  <2> QED BY <1>3, <2>1, <2>2 DEF RegisterLooks
<1>4. CASE RegisterCounts(c)
  <2>1. CASE Ends(c, "rejected")
    BY <1>2, <2>1 DEF Ended
  <2>2. CASE /\ call' = [call EXCEPT ![c].at = "inserting"]
             /\ ~Full(Cardinality(bound[call[c].x]), call[c].limit)
    <3>1. call'[c] = [call[c] EXCEPT !.at = "inserting"]
      BY <2>2, GoesFacts
    <3>2. call[c].late /\ call[c].op = "register"
      BY <1>0, <1>4, <3>1 DEF RegisterCounts, At, CallRows
    <3>3. Cardinality(bound[call[c].x]) >= call[c].limit
      BY <3>2 DEF Lates, Ending
    <3> QED BY <2>2, <3>3 DEF Full
  <2> QED BY <1>4, <2>1, <2>2 DEF RegisterCounts
<1>5. CASE RegisterInserts(c)
  <2>1. call[c].late
    BY <1>2, <1>5 DEF RegisterInserts, Ended
  <2>2. call[c].op = "register" /\ call[c].at = "inserting"
    BY <1>5 DEF RegisterInserts, At
  <2> QED BY <2>1, <2>2 DEF Lates, Ending
<1> QED BY <1>1, <1>3, <1>4, <1>5 DEF RegisterStep

LEMMA NextLates ==
  Base /\ Grants /\ Files /\ Lates /\ [Next]_vars => Lates'
<1> SUFFICES ASSUME Base, Grants, Files, Lates, [Next]_vars, NEW c \in Calls, call'[c].late
             PROVE  \/ /\ Registering(call'[c]) /\ call'[c].at # "inserting"
                       /\ Cardinality(bound'[call'[c].x]) >= call'[c].limit
                    \/ Ending(call'[c]) /\ call'[c].at \in {"ok", "rejected"}
  BY DEF Lates
<1>0. Shape(call[c]) /\ call[c] \in CallRows
  BY DEF Base, Shapes, QuotasTypeOK, CallRows
<1>1. CASE RegisterStep(c)
  BY <1>1, RegisterLates
<1>2. ASSUME NEW t \in Tokens, DownloadLoads(c, t)
      PROVE  Ending(call'[c]) /\ call'[c].at \in {"ok", "rejected"}
  <2>1. token[t].max = 1 /\ token[t].uses >= 1 /\ token[t].uses \in Nat
    BY <1>2, Loads DEF Files, Base, QuotasTypeOK
  <2>2. ~(token[t].uses < token[t].max)
    BY <2>1
  <2> QED BY <1>2, <2>2, Loads
<1>3. ASSUME DownloadCommits(c) \/ ConsumeLoads(c) \/ ConsumeCommits(c) PROVE FALSE
  <2>1. call[c].op \in {"download", "consume"} /\ ~call[c].late
    BY <1>3 DEF DownloadCommits, ConsumeLoads, ConsumeCommits, At, Lates, Registering, Ending
  <2>2. ASSUME NEW at \in Ended, Ends(c, at) PROVE FALSE
    BY <2>1, <2>2, EndsFacts
  <2>3. ASSUME NEW at, NEW n, call' = [call EXCEPT ![c] = [@ EXCEPT !.at = at, !.seen = n]] PROVE FALSE
    <3>1. call'[c] = [call[c] EXCEPT !.at = at, !.seen = n]
      BY <2>3 DEF Base, QuotasTypeOK
    <3> QED BY <1>0, <2>1, <3>1 DEF CallRows
  <2> QED BY <1>3, <2>2, <2>3 DEF DownloadCommits, ConsumeLoads, ConsumeCommits, Ended
<1>3a. ASSUME ConsumeReadsDay(c) PROVE FALSE
  <2>1. call[c].op = "consume" /\ ~call[c].late
    BY <1>3a DEF ConsumeReadsDay, At, Lates, Registering, Ending
  <2>2. call'[c] = [call[c] EXCEPT !.at = "dated", !.day = today]
    BY <1>3a DEF ConsumeReadsDay, Base, QuotasTypeOK
  <2> QED BY <1>0, <2>1, <2>2 DEF CallRows
<1>4. ASSUME NEW a \in Accounts, ConsumeReadsLimit(c, a) PROVE FALSE
  <2> DEFINE r == [NoCall EXCEPT !.op = "consume", !.at = "limited", !.x = a,
                                 !.limit = MaxTrades(a)]
  <2>1. ~r.late
    BY DEF NoCall
  <2>2. call' = [call EXCEPT ![c] = r]
    BY <1>4 DEF ConsumeReadsLimit, Begins
  <2> HIDE DEF r
  <2>3. call'[c] = r
    BY <2>2 DEF Base, QuotasTypeOK
  <2> QED BY <2>1, <2>3
<1>5. ASSUME MarketOrder(c) PROVE FALSE
  <2>1. call[c].late /\ call[c].at = "idle"
    BY <1>5, MarketFrame DEF MarketOrder
  <2> QED BY <2>1 DEF Lates, Registering
<1>6. ASSUME call'[c] = call[c],
             call[c].late /\ call[c].op = "register" => ~ClearBinding(call[c].x)
      PROVE  \/ /\ Registering(call'[c]) /\ call'[c].at # "inserting"
                /\ Cardinality(bound'[call'[c].x]) >= call'[c].limit
             \/ Ending(call'[c]) /\ call'[c].at \in {"ok", "rejected"}
  <2>1. CASE Ending(call[c]) /\ call[c].at \in {"ok", "rejected"}
    BY <1>6, <2>1
  <2>2. CASE /\ Registering(call[c]) /\ call[c].at # "inserting"
             /\ Cardinality(bound[call[c].x]) >= call[c].limit
    <3>1. call[c].x \in Accounts /\ call[c].limit \in Nat /\ ~ClearBinding(call[c].x)
      BY <1>0, <1>6, <2>2 DEF Registering, CallRows
    <3>2. /\ Cardinality(bound[call[c].x]) \in Nat /\ Cardinality(bound'[call[c].x]) \in Nat
          /\ Cardinality(bound[call[c].x]) <= Cardinality(bound'[call[c].x])
      BY <3>1, BoundOf
    <3> QED BY <1>6, <2>2, <3>1, <3>2
  <2> QED BY <1>6, <2>1, <2>2 DEF Lates
<1>7. ASSUME NEW d \in Calls, CallStep(d), d # c
      PROVE  call'[c] = call[c] /\ \A a \in Accounts : ~ClearBinding(a)
  <2>1. call'[c] = call[c]
    BY <1>7, StepKinds, RegisterFrame, DownloadFrame, ConsumeFrame, MarketFrame DEF Moves
  <2>2. ASSUME NEW a \in Accounts, ClearBinding(a) PROVE FALSE
    <3>1. call'[d].op = call[d].op /\ call'[d].at = call[d].at
      BY <2>2, OthersFrame DEF Others
    <3>2. \A b \in Accounts : b # a => bound'[b] = bound[b]
      BY <2>2 DEF ClearBinding, Base, QuotasTypeOK
    <3>3. bound[a] # {} /\ bound'[a] = {}
      BY <2>2 DEF ClearBinding, Base, QuotasTypeOK
    <3>4. RegisterStep(d)
      BY <1>7, <3>3, StepKinds, DownloadFrame, ConsumeFrame, MarketFrame
    <3>5. bound' # bound
      BY <3>3
    <3>6. RegisterInserts(d)
      BY <3>4, <3>5 DEF RegisterStep, RegisterReadsLimit, RegisterLooks, RegisterCounts
    <3>7. bound[a] \subseteq bound'[a]
      BY <3>6 DEF RegisterInserts, Base, QuotasTypeOK
    <3> QED BY <3>3, <3>7
  <2> QED BY <2>1, <2>2
<1>8. CASE Others \/ UNCHANGED vars
  <2>1. ASSUME NEW a \in Accounts, Unlates(a), call[c].op = "register", call[c].x = a PROVE FALSE
    BY <2>1, UnlatesFacts
  <2>2. call[c].op = "register" /\ Registering(call[c]) => ~ClearBinding(call[c].x)
    BY <2>1 DEF ClearBinding, Registering
  <2>3. call[c].late
    BY <1>8, UnlatesFacts DEF Others, SetPlan, PaymentInserts, Writes, ClearBinding, IssueToken,
      PortalIssues, TokenExpires, Midnight, vars
  <2>4. Registering(call[c]) \/ Ending(call[c])
    BY <2>3 DEF Lates
  <2>5. call[c].op = "register" => ~ClearBinding(call[c].x)
    BY <2>2, <2>4 DEF Ending
  <2>6. \/ call' = call
        \/ \E a \in Accounts : Unlates(a)
    BY <1>8 DEF Others, SetPlan, PaymentInserts, Writes, ClearBinding, IssueToken, PortalIssues,
      TokenExpires, Midnight, vars
  <2>7. call'[c] = call[c]
    <3>1. ASSUME NEW a \in Accounts, Unlates(a) PROVE call'[c] = call[c]
      BY <2>1, <3>1 DEF Unlates
    <3> QED BY <2>6, <3>1
  <2> QED BY <1>6, <2>5, <2>7
<1>9. ASSUME NEW d \in Calls, CallStep(d), d # c
      PROVE  \/ /\ Registering(call'[c]) /\ call'[c].at # "inserting"
                /\ Cardinality(bound'[call'[c].x]) >= call'[c].limit
             \/ Ending(call'[c]) /\ call'[c].at \in {"ok", "rejected"}
  <2>1. call'[c] = call[c] /\ call[c].late
    BY <1>7, <1>9
  <2>2. call[c].op = "register" => call[c].x \in Accounts
    BY <2>1 DEF Lates, Registering, Ending
  <2> QED BY <1>6, <1>7, <1>9, <2>1, <2>2
<1> QED BY <1>1, <1>2, <1>3, <1>3a, <1>4, <1>5, <1>8, <1>9, StepKinds
     DEF Next, Others, DownloadStep, ConsumeStep

\* A call that begins when what it asks for is used up gets nothing.
THEOREM QuotasUsedUp == Spec => []UsedUpIsRefused
<1> DEFINE IInv == Base /\ Alone /\ Grants /\ Files /\ Lates
<1>1. Init => IInv
  BY InitBase, InitAlone, InitGrants, InitFiles, InitLates
<1>2. IInv /\ [Next]_vars => IInv'
  BY NextBase, NextAlone, NextGrants, NextFiles, NextLates
<1>3. IInv => UsedUpIsRefused
  <2> SUFFICES ASSUME Lates, NEW c \in Calls, call[c].late
               PROVE  call[c].at \notin {"inserting", "bound", "loaded", "done"}
    BY DEF UsedUpIsRefused
  <2> QED BY DEF Lates, Registering
<1> HIDE DEF IInv
<1> QED BY <1>1, <1>2, <1>3, PTL DEF Spec

-----------------------------------------------------------------------------
(* Orders.                                                                 *)

\* While it is alone, a call that has loaded the counter of a day knows its orders, and the
\* limit it read leaves one.
Counted(c) ==
  LET a == call[c].x  d == call[c].day IN
    Consuming(call[c]) /\ call[c].at \in {"loaded", "new"} /\ <<"consume", a>> \notin raced =>
      /\ call[c].seen = count[a][d]
      /\ call[c].limit = 0 \/ call[c].seen < call[c].limit
      /\ call[c].at = "new" => <<a, d>> \notin days

Within(a, d) == /\ count[a][d] = orders[a][d].made
                /\ orders[a][d].free \/ \E l \in granted[a] : count[a][d] <= l.trades

Counters ==
  /\ \A c \in Calls : Counted(c)
  /\ \A a \in Accounts, d \in Days :
       /\ <<a, d>> \notin days => count[a][d] = 0
       /\ <<"consume", a>> \notin raced => Within(a, d)

LEMMA InitCounters == Init => Counters
<1> SUFFICES ASSUME Init PROVE Counters
  OBVIOUS
<1>1. \A c \in Calls : Counted(c)
  BY DEF Init, Counted, Consuming, NoCall
<1>2. ASSUME NEW a \in Accounts, NEW d \in Days PROVE count[a][d] = 0 /\ Within(a, d)
  <2>1. /\ count[a][d] = 0 /\ orders[a][d].made = 0
        /\ granted[a] = {[devices |-> 1, trades |-> 0]}
    BY <1>2 DEF Init, NoOrder
  <2>2. count[a][d] <= [devices |-> 1, trades |-> 0].trades
    BY <2>1
  <2> QED BY <2>1, <2>2 DEF Within
<1> QED BY <1>1, <1>2 DEF Counters

\* What an order sees of the counter of its day.
LEMMA CountsRead ==
  ASSUME Base, Counters, NEW c \in Calls, ConsumeLoads(c)
  PROVE  LET a == call[c].x  d == call[c].day IN
         \/ Ending(call'[c])
         \/ /\ call'[c].x = a /\ call'[c].day = d /\ call'[c].limit = call[c].limit
            /\ call'[c].seen = count[a][d]
            /\ call[c].limit = 0 \/ count[a][d] < call[c].limit
            /\ call'[c].at = "new" => <<a, d>> \notin days
<1> DEFINE a == call[c].x
           d == call[c].day
           n == IF <<a, d>> \in days THEN count[a][d] ELSE 0
<1>1. a \in Accounts /\ d \in Days /\ call[c].limit \in Nat /\ call[c] \in CallRows
  BY DEF ConsumeLoads, At, Base, QuotasTypeOK, CallRows, Shapes, Shape, Ending, Registering,
    Downloading, Consuming
<1>2. n = count[a][d] /\ count[a][d] \in Nat
  BY ZenonT(120), <1>1 DEF Counters, Base, QuotasTypeOK
<1>3. IF call[c].limit > 0 /\ Full(n, call[c].limit)
      THEN Ends(c, "rejected")
      ELSE call' = [call EXCEPT ![c] =
             [@ EXCEPT !.at = IF <<a, d>> \in days THEN "loaded" ELSE "new", !.seen = n]]
  BY DEF ConsumeLoads
<1> HIDE DEF n
<1>4. CASE Ends(c, "rejected")
  BY <1>4, EndsFacts DEF Ended
<1>5. ASSUME ~(call[c].limit > 0 /\ Full(n, call[c].limit)),
             call' = [call EXCEPT ![c] =
                    [@ EXCEPT !.at = IF <<a, d>> \in days THEN "loaded" ELSE "new", !.seen = n]]
      PROVE  /\ call'[c].x = a /\ call'[c].day = d /\ call'[c].limit = call[c].limit
             /\ call'[c].seen = count[a][d]
             /\ call[c].limit = 0 \/ count[a][d] < call[c].limit
             /\ call'[c].at = "new" => <<a, d>> \notin days
  <2>1. call[c].limit = 0 \/ count[a][d] < call[c].limit
    BY <1>1, <1>2, <1>5 DEF Full
  <2>2. call'[c] = [call[c] EXCEPT !.at = IF <<a, d>> \in days THEN "loaded" ELSE "new",
                                   !.seen = n]
    BY <1>5 DEF Base, QuotasTypeOK
  <2>3. /\ call'[c].x = a /\ call'[c].day = d /\ call'[c].limit = call[c].limit
        /\ call'[c].seen = n
        /\ call'[c].at = IF <<a, d>> \in days THEN "loaded" ELSE "new"
    BY <1>1, <2>2 DEF CallRows
  <2> QED BY <1>2, <2>1, <2>3
<1> QED BY <1>3, <1>4, <1>5

\* An order is counted, or fails and changes nothing.
LEMMA CountsWritten ==
  ASSUME Base, NEW c \in Calls, ConsumeCommits(c)
  PROVE  LET a == call[c].x  d == call[c].day IN
         /\ Consuming(call[c]) /\ call[c].at \in {"loaded", "new"} /\ Ending(call'[c])
         /\ d \in Days /\ raced' = raced /\ granted' = granted
         /\ \/ UNCHANGED <<count, days, orders>>
            \/ /\ \A b \in Accounts, e \in Days : <<b, e>> # <<a, d>> =>
                     count'[b][e] = count[b][e] /\ orders'[b][e] = orders[b][e]
               /\ days' = days \cup {<<a, d>>}
               /\ count'[a][d] = call[c].seen + 1
               /\ orders'[a][d].made = orders[a][d].made + 1
               /\ orders'[a][d].free <=> (orders[a][d].free \/ call[c].limit = 0)
<1> DEFINE a == call[c].x
           d == call[c].day
           o == [made |-> orders[a][d].made + 1, free |-> orders[a][d].free \/ call[c].limit = 0]
<1>1. Consuming(call[c]) /\ call[c].at \in {"loaded", "new"}
  BY DEF ConsumeCommits, At, Base, Shapes, Shape, Ending, Registering, Downloading
<1>2. a \in Accounts /\ d \in Days
  BY <1>1 DEF Consuming, Base, QuotasTypeOK
<1>3. Ending(call'[c])
  <2>1. \E at \in Ended : Ends(c, at)
    BY DEF ConsumeCommits, Ended
  <2> QED BY <2>1, EndsFacts
<1>4. raced' = raced /\ granted' = granted
  BY DEF ConsumeCommits
<1>5. /\ count \in [Accounts -> [Days -> Nat]]
      /\ orders \in [Accounts -> [Days -> [made : Nat, free : BOOLEAN]]]
  BY DEF Base, QuotasTypeOK
<1>6. \/ UNCHANGED <<count, days, orders>>
      \/ /\ count' = [count EXCEPT ![a][d] = call[c].seen + 1]
         /\ days' = days \cup {<<a, d>>}
         /\ orders' = [orders EXCEPT ![a][d] = o]
  BY <1>2, <1>5 DEF ConsumeCommits
<1>7. o.made = orders[a][d].made + 1 /\ (o.free <=> (orders[a][d].free \/ call[c].limit = 0))
  OBVIOUS
<1> HIDE DEF a, d, o
<1>8. ASSUME /\ count' = [count EXCEPT ![a][d] = call[c].seen + 1]
             /\ orders' = [orders EXCEPT ![a][d] = o]
      PROVE  /\ \A b \in Accounts, e \in Days : <<b, e>> # <<a, d>> =>
                  count'[b][e] = count[b][e] /\ orders'[b][e] = orders[b][e]
             /\ count'[a][d] = call[c].seen + 1 /\ orders'[a][d] = o
  BY <1>2, <1>5, <1>8
<1> QED BY <1>1, <1>2, <1>3, <1>4, <1>6, <1>7, <1>8 DEF a, d

\* A step that leaves the counters, and every call that has loaded one, keeps them.
LEMMA KeptCounters ==
  ASSUME Base, Grants, Counters, [Next]_vars, UNCHANGED <<count, days, orders>>,
         \A c \in Calls : \/ Counted(c)'
                          \/ /\ call'[c].op = call[c].op /\ call'[c].at = call[c].at
                             /\ call'[c].x = call[c].x /\ call'[c].day = call[c].day
                             /\ call'[c].limit = call[c].limit /\ call'[c].seen = call[c].seen
  PROVE  Counters'
<1>0. raced \subseteq raced' /\ \A a \in Accounts : granted[a] \subseteq granted'[a]
  BY RacedGrows, GrantedGrows
<1>1. ASSUME NEW c \in Calls,
             /\ call'[c].op = call[c].op /\ call'[c].at = call[c].at
             /\ call'[c].x = call[c].x /\ call'[c].day = call[c].day
             /\ call'[c].limit = call[c].limit /\ call'[c].seen = call[c].seen
      PROVE  Counted(c)'
  BY <1>0, <1>1 DEF Counters, Counted, Consuming
<1>2. ASSUME NEW a \in Accounts, NEW d \in Days, <<"consume", a>> \notin raced'
      PROVE  Within(a, d)'
  BY <1>0, <1>2 DEF Counters, Within
<1> QED BY <1>1, <1>2 DEF Counters

LEMMA NextCounters == Base /\ Alone /\ Grants /\ Counters /\ [Next]_vars => Counters'
<1> SUFFICES ASSUME Base, Alone, Grants, Counters, [Next]_vars PROVE Counters'
  OBVIOUS
<1>0. /\ raced \subseteq raced' /\ \A a \in Accounts : granted[a] \subseteq granted'[a]
      /\ \A d \in Calls : Shape(call[d])
  BY RacedGrows, GrantedGrows DEF Base, Shapes
<1>1. ASSUME NEW c \in Calls, UNCHANGED <<count, days, orders>>, Moves(c), Counted(c)'
      PROVE  Counters'
  BY <1>1, KeptCounters DEF Moves
<1>2. ASSUME NEW c \in Calls, RegisterStep(c) \/ DownloadStep(c) \/ MarketOrder(c)
      PROVE  Counters'
  <2>1. Moves(c) /\ call'[c].op # "consume" /\ UNCHANGED <<count, days, orders>>
    BY <1>2, RegisterFrame, DownloadFrame, MarketFrame
  <2>2. Counted(c)'
    BY <2>1 DEF Counted, Consuming
  <2> QED BY <1>1, <2>1, <2>2
<1>3. ASSUME NEW c \in Calls, NEW a \in Accounts, ConsumeReadsLimit(c, a) PROVE Counters'
  <2> DEFINE r == [NoCall EXCEPT !.op = "consume", !.at = "limited", !.x = a,
                                 !.limit = MaxTrades(a)]
  <2>1. r.at = "limited"
    BY DEF NoCall
  <2>2. call' = [call EXCEPT ![c] = r] /\ UNCHANGED <<count, days, orders>>
    BY <1>3 DEF ConsumeReadsLimit, Begins
  <2> HIDE DEF r
  <2>3. call'[c].at = "limited"
    BY <2>1, <2>2 DEF Base, QuotasTypeOK
  <2>4. Counted(c)'
    BY <2>3 DEF Counted
  <2> QED BY <1>1, <1>3, <2>2, <2>4, ConsumeFrame DEF ConsumeStep
<1>3a. ASSUME NEW c \in Calls, ConsumeReadsDay(c) PROVE Counters'
  <2>1. UNCHANGED <<count, days, orders>>
    BY <1>3a DEF ConsumeReadsDay
  <2>2. call'[c].at = "dated"
    BY <1>3a DEF ConsumeReadsDay, Base, QuotasTypeOK
  <2>3. Counted(c)'
    BY <2>2 DEF Counted
  <2> QED BY <1>1, <1>3a, <2>1, <2>3, ConsumeFrame DEF ConsumeStep
<1>4. ASSUME NEW c \in Calls, ConsumeLoads(c) PROVE Counters'
  <2>1. UNCHANGED <<count, days, orders>>
    BY <1>4 DEF ConsumeLoads
  <2>2. Counted(c)'
    <3>1. CASE Ending(call'[c])
      BY <3>1 DEF Counted, Consuming, Ending
    <3>2. CASE ~Ending(call'[c])
      BY <1>4, <2>1, <3>2, CountsRead DEF Counted
    <3> QED BY <3>1, <3>2
  <2> QED BY <1>1, <1>4, <2>1, <2>2, ConsumeFrame DEF ConsumeStep
<1>5. ASSUME NEW c \in Calls, ConsumeCommits(c) PROVE Counters'
  <2>1. /\ Consuming(call[c]) /\ call[c].at \in {"loaded", "new"} /\ Ending(call'[c])
        /\ call[c].day \in Days /\ raced' = raced /\ granted' = granted
    BY <1>5, CountsWritten
  <2>2. PICK a \in Accounts, d \in Days : a = call[c].x /\ d = call[c].day
    BY <2>1 DEF Consuming
  <2>3. Counted(c)' /\ Moves(c)
    BY <1>5, <2>1, ConsumeFrame DEF Counted, Consuming, Ending, ConsumeStep
  <2>4. CASE UNCHANGED <<count, days, orders>>
    BY <1>1, <2>3, <2>4
  <2>5. ASSUME /\ \A b \in Accounts, e \in Days : <<b, e>> # <<a, d>> =>
                    count'[b][e] = count[b][e] /\ orders'[b][e] = orders[b][e]
               /\ days' = days \cup {<<a, d>>}
               /\ count'[a][d] = call[c].seen + 1
               /\ orders'[a][d].made = orders[a][d].made + 1
               /\ orders'[a][d].free <=> (orders[a][d].free \/ call[c].limit = 0)
        PROVE  Counters'
    <3>1. ASSUME NEW b \in Calls, b # c PROVE Counted(b)'
      <4>1. call'[b] = call[b] /\ Counted(b)
        BY <2>3, <3>1 DEF Moves, Counters
      <4>2. CASE Consuming(call[b]) /\ call[b].x = a
        <5>1. <<"consume", a>> \in raced'
          BY <2>1, <2>2, <3>1, <4>2 DEF Alone, Working, Consuming
        <5> QED BY <4>1, <4>2, <5>1 DEF Counted
      <4>3. CASE Consuming(call[b]) /\ call[b].x # a
        <5>1. call[b].x \in Accounts /\ call[b].day \in Days
          BY <4>3 DEF Consuming, Base, QuotasTypeOK
        <5>2. <<call[b].x, call[b].day>> # <<a, d>>
          BY <4>3
        <5>3. /\ count'[call[b].x][call[b].day] = count[call[b].x][call[b].day]
              /\ <<call[b].x, call[b].day>> \in days' => <<call[b].x, call[b].day>> \in days
          BY <2>5, <5>1, <5>2
        <5> QED BY <2>1, <4>1, <5>3 DEF Counted
      <4> QED BY <4>1, <4>2, <4>3 DEF Counted
    <3>2. ASSUME <<"consume", a>> \notin raced PROVE Within(a, d)'
      <4>1. /\ call[c].seen = count[a][d]
            /\ call[c].limit = 0 \/ call[c].seen < call[c].limit
            /\ count[a][d] = orders[a][d].made
        BY <2>1, <2>2, <3>2 DEF Counters, Counted, Within
      <4>2. PICK l \in granted[a] : call[c].limit = l.trades
        BY <2>1, <2>2 DEF Grants
      <4>3. call[c].seen \in Nat /\ call[c].limit \in Nat
        BY DEF Base, QuotasTypeOK
      <4>4. CASE call[c].limit = 0
        BY <2>5, <4>1, <4>4 DEF Within
      <4>5. CASE call[c].seen < call[c].limit
        <5>1. count'[a][d] <= l.trades
          BY <2>5, <4>2, <4>3, <4>5
        <5> QED BY <2>1, <2>5, <4>1, <5>1 DEF Within
      <4> QED BY <4>1, <4>4, <4>5
    <3>3. ASSUME NEW b \in Accounts, NEW e \in Days
          PROVE  /\ <<b, e>> \notin days' => count'[b][e] = 0
                 /\ <<"consume", b>> \notin raced' => Within(b, e)'
      <4>1. CASE <<b, e>> = <<a, d>>
        <5>1. b = a /\ e = d
          BY <4>1
        <5>2. <<b, e>> \in days'
          BY <2>5, <5>1
        <5> QED BY <2>1, <3>2, <5>1, <5>2
      <4>2. CASE <<b, e>> # <<a, d>>
        <5>1. count'[b][e] = count[b][e] /\ orders'[b][e] = orders[b][e] /\ days \subseteq days'
          BY <2>5, <4>2
        <5> QED BY <2>1, <5>1 DEF Counters, Within
      <4> QED BY <4>1, <4>2
    <3>4. \A b \in Calls : Counted(b)'
      BY <2>3, <3>1
    <3> QED BY <3>3, <3>4 DEF Counters
  <2> QED BY <1>5, <2>2, <2>4, <2>5, CountsWritten
<1>6. CASE Others \/ UNCHANGED vars
  BY <1>6, OthersFrame, KeptCounters
<1> QED BY <1>2, <1>3, <1>3a, <1>4, <1>5, <1>6, StepKinds DEF Next, Others, ConsumeStep

\* Only overlapping calls exceed a plan the account has had, or the uses of a token.
THEOREM QuotasRaces == Spec => []OnlyRacesExceed
<1> DEFINE IInv == Base /\ Alone /\ Grants /\ Rooms /\ Files /\ Counters
<1>1. Init => IInv
  BY InitBase, InitAlone, InitGrants, InitRooms, InitFiles, InitCounters
<1>2. IInv /\ [Next]_vars => IInv'
  BY NextBase, NextAlone, NextGrants, NextRooms, NextFiles, NextCounters
<1>3. IInv => OnlyRacesExceed
  <2> SUFFICES ASSUME Base, Rooms, Files, Counters PROVE OnlyRacesExceed
    OBVIOUS
  <2>1. ASSUME NEW t \in Tokens, <<"download", t>> \notin raced PROVE files[t] <= token[t].max
    <3>1. files[t] <= token[t].uses /\ token[t].uses <= token[t].max
      BY <2>1 DEF Files
    <3>2. files[t] \in Nat /\ token[t].uses \in Nat /\ token[t].max \in Nat
      BY DEF Base, QuotasTypeOK
    <3> QED BY <3>1, <3>2
  <2> QED BY <2>1 DEF OnlyRacesExceed, Rooms, Counters, Within
<1> HIDE DEF IInv
<1> QED BY <1>1, <1>2, <1>3, PTL DEF Spec
=============================================================================
