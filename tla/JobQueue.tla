------------------------------ MODULE JobQueue ------------------------------
(***************************************************************************)
(* The Redis hand-off between the API and the MT5 worker processes:        *)
(* JobQueueService (job_queue_service.py), the request handlers of         *)
(* trading_router.py that call it, and the job loop of mt5_worker.py.      *)
(*                                                                         *)
(* One element of Jobs is one HTTP request to a trading endpoint; the job  *)
(* it enqueues carries a fresh uuid, so the request and its job share one  *)
(* identity.  Redis executes each command atomically, hence one action per *)
(* command; the awaits between two commands are where other processes run. *)
(*                                                                         *)
(* Which worker serves which account, and what the registry that gates a   *)
(* request says, is the environment here; WorkerFleet refines it.          *)
(***************************************************************************)
EXTENDS Naturals, Sequences, FiniteSets

CONSTANTS
  Accounts,      \* broker accounts
  Jobs,          \* HTTP requests to the trading endpoints
  Workers,       \* worker processes (one element per process ever spawned)
  AccountOf,     \* the account each request names
  Untested,      \* requests whose handler returns what it finds in the result
                 \* without a look at "success": get_account, get_positions, get_orders
  STOP,          \* the sentinel job that asks a worker to leave its loop
  None,          \* Python's None
  MaxStops,      \* bound: STOP jobs ever pushed to the queue of one account
  RedisMayFail   \* whether a Redis command of a worker or of its pool may raise

ASSUME JobQueueAssumption ==
  /\ AccountOf \in [Jobs -> Accounts]
  /\ Untested \subseteq Jobs
  /\ STOP \notin Jobs
  /\ None \notin Jobs \cup Accounts \cup Workers
  /\ MaxStops \in Nat
  /\ RedisMayFail \in BOOLEAN

Reply == {"ok", "fail"}

\* Where a request is in its handler: before is_running, past it, after LPUSH,
\* blocked in BLPOP, or finished (409, 200/400, 504, or its API process died).
Open  == {"new", "checked", "submitted", "waiting"}
Ended == {"refused", "timeout", "dead"} \cup Reply

VARIABLES
  queue,    \* queue:account:{id}; the head is the end BRPOP takes from
  req,      \* progress of each request
  results,  \* result:{job_id}; the head is the end LPUSH and BLPOP use
  ttl,      \* whether the result key carries an expiry
  serves,   \* account a worker process is looping for, or None
  step,     \* where a worker process is in its loop
  hand,     \* the job a worker has popped and not finished
  reply,    \* what a worker is about to push for the job in its hand
  outcome,  \* history: how the MT5 operation of a job ended
  sent,     \* history: everything ever pushed to a queue, in order
  done      \* history: the jobs whose MT5 operation ran, in order

clientVars == <<req, results, ttl>>
workerVars == <<serves, step, hand, reply>>
history    == <<outcome, sent, done>>
jqVars     == <<queue, clientVars, workerVars, history>>

-----------------------------------------------------------------------------
(* What the code can see and what the properties speak of.                 *)

InSeq(x, s) == \E n \in DOMAIN s : s[n] = x

Queued(j)  == InSeq(j, queue[AccountOf[j]])
Ran(j)     == InSeq(j, done[AccountOf[j]])
HeldBy(j)  == {w \in Workers : hand[w] = j}

\* Mutant of Push: RPUSH, so that the newest entry is taken first.
PushWrongEnd(a, x) ==
  /\ queue' = [queue EXCEPT ![a] = <<x>> \o @]
  /\ sent'  = [sent EXCEPT ![a] = Append(@, x)]

\* LPUSH: the new entry is the last one BRPOP will take.
Push(a, x) ==
  /\ queue' = [queue EXCEPT ![a] = Append(@, x)]
  /\ sent'  = [sent EXCEPT ![a] = Append(@, x)]

StopsSent(a) == Cardinality({n \in DOMAIN sent[a] : sent[a][n] = STOP})

\* The key of an emptied list disappears, and its expiry with it.
SetResults(j, list) ==
  /\ results' = [results EXCEPT ![j] = list]
  /\ ttl'     = [ttl EXCEPT ![j] = @ /\ list # <<>>]

\* What the requester is told of a report: 200 of a success, an error of a failure;
\* an untested failure has no "result", and is answered 200 with null or [].
Answered(j, r) == IF j \in Untested THEN "ok" ELSE r

\* A worker is back in pop_job with nothing in its hand.
BackToLoop(w) ==
  /\ step'  = [step EXCEPT ![w] = "idle"]
  /\ hand'  = [hand EXCEPT ![w] = None]
  /\ reply' = [reply EXCEPT ![w] = "none"]
  /\ UNCHANGED serves

\* A worker is out of its loop; whatever it held is gone with it.
OutOfLoop(w) ==
  /\ step'   = [step EXCEPT ![w] = "off"]
  /\ serves' = [serves EXCEPT ![w] = None]
  /\ hand'   = [hand EXCEPT ![w] = None]
  /\ reply'  = [reply EXCEPT ![w] = "none"]

-----------------------------------------------------------------------------
(* The request handlers of the API.                                        *)

\* is_running answered True: the handler goes on to submit_and_wait.
GateOpen(j) ==
  /\ req[j] = "new"
  /\ req' = [req EXCEPT ![j] = "checked"]
  /\ UNCHANGED <<queue, results, ttl, workerVars, history>>

\* is_running answered False: 409, "Account is not connected"; from /health 200
\* with healthy false.
GateClosed(j) ==
  /\ req[j] = "new"
  /\ req' = [req EXCEPT ![j] = "refused"]
  /\ UNCHANGED <<queue, results, ttl, workerVars, history>>

\* Mutant of SubmitJob: the same job is submitted again after a 504.
SubmitJobRetried(j) ==
  /\ req[j] \in {"checked", "timeout"}
  /\ Push(AccountOf[j], j)
  /\ req' = [req EXCEPT ![j] = "submitted"]
  /\ UNCHANGED <<results, ttl, workerVars, outcome, done>>

SubmitJob(j) ==
  /\ req[j] = "checked"
  /\ Push(AccountOf[j], j)
  /\ req' = [req EXCEPT ![j] = "submitted"]
  /\ UNCHANGED <<results, ttl, workerVars, outcome, done>>

\* Mutant of AwaitResult: a wait that sees only what is pushed after it began.
AwaitResultNextOnly(j) ==
  /\ req[j] = "submitted"
  /\ req' = [req EXCEPT ![j] = "waiting"]
  /\ UNCHANGED <<queue, results, ttl, workerVars, history>>

\* BLPOP reaches Redis: it takes a result that is already there, or blocks.
AwaitResult(j) ==
  /\ req[j] = "submitted"
  /\ \/ /\ results[j] = <<>>
        /\ req' = [req EXCEPT ![j] = "waiting"]
        /\ UNCHANGED <<results, ttl>>
     \/ /\ results[j] # <<>>
        /\ req' = [req EXCEPT ![j] = Answered(j, Head(results[j]))]
        /\ SetResults(j, Tail(results[j]))
  /\ UNCHANGED <<queue, workerVars, history>>

\* Mutant of TimeOut: timeout 0, which BLPOP takes for "wait for ever".
TimeOutNever(j) == req[j] = "waiting" /\ FALSE /\ UNCHANGED jqVars

\* BLPOP gave up: 504.  Nothing withdraws the job from the queue.
TimeOut(j) ==
  /\ req[j] = "waiting"
  /\ req' = [req EXCEPT ![j] = "timeout"]
  /\ UNCHANGED <<queue, results, ttl, workerVars, history>>

\* The API process that handles the requests in S dies.
RequestersDie(S) ==
  /\ req' = [j \in Jobs |-> IF j \in S /\ req[j] \in Open THEN "dead" ELSE req[j]]
  /\ UNCHANGED <<queue, results, ttl, workerVars, history>>

\* The key's expiry elapses before anybody asks for the result.
ResultExpires(j) ==
  /\ ttl[j]
  /\ SetResults(j, <<>>)
  /\ UNCHANGED <<queue, req, workerVars, history>>

\* stop_worker's call of submit_job.
SubmitStop(a) ==
  /\ StopsSent(a) < MaxStops
  /\ Push(a, STOP)
  /\ UNCHANGED <<clientVars, workerVars, outcome, done>>

-----------------------------------------------------------------------------
(* The loop of a worker process.                                           *)

\* Connected to MT5: the worker enters its loop.
EnterLoop(w, a) ==
  /\ step[w] = "off"
  /\ step'   = [step EXCEPT ![w] = "idle"]
  /\ serves' = [serves EXCEPT ![w] = a]
  /\ UNCHANGED <<queue, clientVars, hand, reply, history>>

\* Mutant of HasNext: the last entry is taken for an empty queue.
HasNextOffByOne(w) == step[w] = "idle" /\ Len(queue[serves[w]]) > 1

HasNext(w) == step[w] = "idle" /\ queue[serves[w]] # <<>>

\* Mutant of PopQueue: the entry is read but left in the queue.
PopQueuePeek(w) == queue[serves[w]] # <<>> /\ queue' = queue

PopQueue(w) == queue' = [queue EXCEPT ![serves[w]] = Tail(@)]

\* Mutant of PopJob: the STOP test of the loop is forgotten.
PopJobOrStop(w) ==
  /\ HasNext(w)
  /\ hand' = [hand EXCEPT ![w] = Head(queue[serves[w]])]
  /\ step' = [step EXCEPT ![w] = "busy"]
  /\ PopQueue(w)
  /\ UNCHANGED <<clientVars, serves, reply, history>>

PopJob(w) ==
  /\ HasNext(w)
  /\ Head(queue[serves[w]]) # STOP
  /\ hand' = [hand EXCEPT ![w] = Head(queue[serves[w]])]
  /\ step' = [step EXCEPT ![w] = "busy"]
  /\ PopQueue(w)
  /\ UNCHANGED <<clientVars, serves, reply, history>>

PopStop(w) ==
  /\ HasNext(w)
  /\ Head(queue[serves[w]]) = STOP
  /\ PopQueue(w)
  /\ OutOfLoop(w)
  /\ UNCHANGED <<clientVars, history>>

\* BRPOP timed out: WORKER_IDLE_TIMEOUT_SECONDS without a job.
IdleOut(w) ==
  /\ step[w] = "idle"
  /\ queue[serves[w]] = <<>>
  /\ OutOfLoop(w)
  /\ UNCHANGED <<queue, clientVars, history>>

\* Mutant of HandleJob: the except clause reports success.
HandleJobSwallows(w, r) ==
  /\ step[w] = "busy"
  /\ outcome' = [outcome EXCEPT ![hand[w]] = r]
  /\ done'    = [done EXCEPT ![AccountOf[hand[w]]] = Append(@, hand[w])]
  /\ reply'   = [reply EXCEPT ![w] = "ok"]
  /\ step'    = [step EXCEPT ![w] = "done"]
  /\ UNCHANGED <<queue, clientVars, serves, hand, sent>>

\* The dispatched MT5 operation returns ("ok") or raises ("fail").
HandleJob(w, r) ==
  /\ step[w] = "busy"
  /\ LET j == hand[w] IN
       /\ outcome' = [outcome EXCEPT ![j] = r]
       /\ done'    = [done EXCEPT ![AccountOf[j]] = Append(@, j)]
  /\ reply' = [reply EXCEPT ![w] = r]
  /\ step'  = [step EXCEPT ![w] = "done"]
  /\ UNCHANGED <<queue, clientVars, serves, hand, sent>>

\* LPUSH of the result.  A requester blocked in BLPOP is served by the same
\* command; otherwise the entry stays in the list.
PushResult(w) ==
  /\ step[w] = "done"
  /\ LET j == hand[w] IN
       \/ /\ req[j] = "waiting"
          /\ req' = [req EXCEPT ![j] = Answered(j, reply[w])]
          /\ UNCHANGED <<results, ttl>>
       \/ /\ req[j] # "waiting"
          /\ results' = [results EXCEPT ![j] = <<reply[w]>> \o @]
          /\ UNCHANGED <<req, ttl>>
  /\ step' = [step EXCEPT ![w] = "pushed"]
  /\ UNCHANGED <<queue, serves, hand, reply, history>>

\* EXPIRE, the second command of push_result: no effect on a missing key.
ExpireResult(w) ==
  /\ step[w] = "pushed"
  /\ ttl' = [ttl EXCEPT ![hand[w]] = results[hand[w]] # <<>>]
  /\ BackToLoop(w)
  /\ UNCHANGED <<queue, req, results, history>>

\* A command of push_result raises.  Inside the try, handle_job's except
\* clause pushes a failure instead; in the except clause itself the exception
\* ends the worker.
PushRaises(w) ==
  /\ RedisMayFail
  /\ step[w] \in {"done", "pushed"}
  /\ \/ /\ reply[w] = "ok"
        /\ reply' = [reply EXCEPT ![w] = "fail"]
        /\ step'  = [step EXCEPT ![w] = "done"]
        /\ UNCHANGED <<serves, hand>>
     \/ /\ reply[w] = "fail"
        /\ OutOfLoop(w)
  /\ UNCHANGED <<queue, clientVars, history>>

\* The process dies (crash or kill) anywhere in its loop.
WorkerDies(w) ==
  /\ step[w] # "off"
  /\ OutOfLoop(w)
  /\ UNCHANGED <<queue, clientVars, history>>

-----------------------------------------------------------------------------
Init ==
  /\ queue   = [a \in Accounts |-> <<>>]
  /\ req     = [j \in Jobs |-> "new"]
  /\ results = [j \in Jobs |-> <<>>]
  /\ ttl     = [j \in Jobs |-> FALSE]
  /\ serves  = [w \in Workers |-> None]
  /\ step    = [w \in Workers |-> "off"]
  /\ hand    = [w \in Workers |-> None]
  /\ reply   = [w \in Workers |-> "none"]
  /\ outcome = [j \in Jobs |-> "none"]
  /\ sent    = [a \in Accounts |-> <<>>]
  /\ done    = [a \in Accounts |-> <<>>]

Request(j) ==
  GateOpen(j) \/ GateClosed(j) \/ SubmitJob(j) \/ AwaitResult(j) \/ TimeOut(j)
    \/ ResultExpires(j)

Loop(w) ==
  \/ PopJob(w) \/ PopStop(w) \/ IdleOut(w)
  \/ \E r \in Reply : HandleJob(w, r)
  \/ PushResult(w) \/ ExpireResult(w) \/ PushRaises(w) \/ WorkerDies(w)

Next ==
  \/ \E j \in Jobs : Request(j)
  \/ \E S \in SUBSET Jobs : RequestersDie(S)
  \/ \E a \in Accounts : SubmitStop(a)
  \/ \E w \in Workers, a \in Accounts : EnterLoop(w, a)
  \/ \E w \in Workers : Loop(w)

Spec == Init /\ [][Next]_jqVars

\* The event loop runs the handlers and Redis's timers fire.  A worker takes
\* what is queued and reports what it has finished.  Nothing is assumed of
\* HandleJob: the code puts no time limit on a call into MT5.
Fairness ==
  /\ \A j \in Jobs : /\ WF_jqVars(SubmitJob(j))
                     /\ WF_jqVars(AwaitResult(j))
                     /\ WF_jqVars(TimeOut(j))
                     /\ WF_jqVars(ResultExpires(j))
  /\ \A w \in Workers : /\ WF_jqVars(PopJob(w) \/ PopStop(w))
                        /\ WF_jqVars(PushResult(w))
                        /\ WF_jqVars(ExpireResult(w))

FairSpec == Spec /\ Fairness

-----------------------------------------------------------------------------
(* Properties.                                                             *)

\* Every variable keeps its type.
TypeOK ==
  /\ queue   \in [Accounts -> Seq(Jobs \cup {STOP})]
  /\ req     \in [Jobs -> Open \cup Ended]
  /\ results \in [Jobs -> Seq(Reply)]
  /\ ttl     \in [Jobs -> BOOLEAN]
  /\ serves  \in [Workers -> Accounts \cup {None}]
  /\ step    \in [Workers -> {"off", "idle", "busy", "done", "pushed"}]
  /\ hand    \in [Workers -> Jobs \cup {None}]
  /\ reply   \in [Workers -> Reply \cup {"none"}]
  /\ outcome \in [Jobs -> Reply \cup {"none"}]
  /\ sent    \in [Accounts -> Seq(Jobs \cup {STOP})]
  /\ done    \in [Accounts -> Seq(Jobs)]

\* No MT5 operation runs twice for one request, whatever number of workers
\* pops the account's queue and whoever dies on the way.
AtMostOnce ==
  \A a \in Accounts : \A m, n \in DOMAIN done[a] : done[a][m] = done[a][n] => m = n

\* Where a job may be: before it is submitted nowhere; then once in the queue of
\* its own account, or in one worker's hand, and in neither once it has run.
NoDup(s) == \A m, n \in DOMAIN s : s[m] = s[n] /\ s[m] # STOP => m = n

Unsubmitted == {"new", "checked", "refused"}

Custody ==
  /\ \A a \in Accounts : NoDup(queue[a]) /\ NoDup(done[a])
  /\ \A a \in Accounts, j \in Jobs : InSeq(j, queue[a]) => AccountOf[j] = a
  /\ \A v, w \in Workers : hand[v] = hand[w] /\ hand[v] # None => v = w
  /\ \A j \in Jobs, w \in Workers : Queued(j) => hand[w] # j
  /\ \A j \in Jobs : Queued(j) => ~Ran(j)
  /\ \A w \in Workers : step[w] = "busy" => ~Ran(hand[w])
  /\ \A j \in Jobs : req[j] \in Unsubmitted => ~Queued(j) /\ ~Ran(j)
  /\ \A j \in Jobs, w \in Workers : req[j] \in Unsubmitted => hand[w] # j

\* Every answer on its way to a requester is earned, not only those it has got.
EarnedOnTheWay ==
  /\ \A w \in Workers :
       step[w] \in {"done", "pushed"} =>
         Ran(hand[w]) /\ (reply[w] = "ok" => outcome[hand[w]] = "ok")
  /\ \A j \in Jobs : results[j] # <<>> => Ran(j)
  /\ \A j \in Jobs : InSeq("ok", results[j]) => outcome[j] = "ok"

\* A requester is answered only once its own operation ran: never with another
\* job's result.  "Success" is then its own success, unless its handler does not
\* test for one; and no such handler ever answers "failure".
AnswerEarned ==
  \A j \in Jobs :
    /\ req[j] = "ok" => Ran(j) /\ (outcome[j] = "ok" \/ j \in Untested)
    /\ req[j] = "fail" => Ran(j) /\ j \notin Untested

\* No requester blocks, and later reports 504, while its result is in Redis.
NoMissedResult == \A j \in Jobs : req[j] = "waiting" => results[j] = <<>>

\* Jobs and STOPs leave a queue in the order in which they were pushed.
TakenInOrder ==
  \A a \in Accounts :
    /\ Len(queue[a]) <= Len(sent[a])
    /\ \A n \in DOMAIN queue[a] :
         queue[a][n] = sent[a][n + Len(sent[a]) - Len(queue[a])]

\* The MT5 operations of an account run in the order of its requests.
RunInOrder ==
  \A a \in Accounts : \A m, n \in DOMAIN done[a] :
    m < n => \E p, q \in DOMAIN sent[a] :
                p < q /\ sent[a][p] = done[a][m] /\ sent[a][q] = done[a][n]

\* A request that passed the gate ends: answered, 504, or with its process.
RequestEnds == \A j \in Jobs : req[j] = "checked" ~> req[j] \in Ended

\* While one worker stays on the account and keeps coming back to its loop, no
\* job stays in the queue for ever.
QueueDrains ==
  \A j \in Jobs, w \in Workers :
    (<>[](serves[w] = AccountOf[j]) /\ []<>(step[w] = "idle"))
      => (Queued(j) ~> ~Queued(j))

\* The queue implements the promise made to its callers.
PhaseOf(j) ==
  IF outcome[j] # "none" THEN outcome[j]
  ELSE IF ~InSeq(j, sent[AccountOf[j]]) THEN "new"
  ELSE IF Queued(j) \/ HeldBy(j) # {} THEN "pending"
  ELSE "lost"

Lifecycle == INSTANCE JobLifecycle
  WITH phase  <- [j \in Jobs |-> PhaseOf(j)],
       answer <- [j \in Jobs |-> IF req[j] \in Open THEN "none" ELSE req[j]]

\* Every behaviour of the queue and its workers is one JobLifecycle allows.
ImplementsLifecycle == Lifecycle!Spec

=============================================================================
