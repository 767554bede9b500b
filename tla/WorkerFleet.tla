----------------------------- MODULE WorkerFleet -----------------------------
(***************************************************************************)
(* The MT5 worker processes and the WorkerPoolManager of every API process *)
(* (worker_pool_manager.py, mt5_worker.py), composed with the job queue:   *)
(* each action that touches the queue is an action of JobQueue, and the    *)
(* others leave its variables alone.                                       *)
(*                                                                         *)
(* An API process runs ensure_worker and stop_worker under one asyncio     *)
(* lock, so it has at most one of them under way; `op' is where that one   *)
(* is.  Different API processes share only Redis.  A worker is an OS       *)
(* process: it outlives the API process that spawned it.                   *)
(***************************************************************************)
EXTENDS JobQueue

CONSTANTS
  Instances,              \* API processes (uvicorn workers or replicas)
  MaxConcurrentWorkers,   \* settings.MAX_CONCURRENT_WORKERS
  ApiMayCrash,            \* whether an API process may die and be restarted
  WorkersMayCrash         \* whether a worker process may die on its own

ASSUME WorkerFleetAssumption ==
  /\ None \notin Instances
  /\ MaxConcurrentWorkers \in Nat
  /\ ApiMayCrash \in BOOLEAN
  /\ WorkersMayCrash \in BOOLEAN

VARIABLES
  procs,      \* _workers of each instance: account -> process handle
  op,         \* the ensure_worker or stop_worker under way in each instance
  registry,   \* worker_registry in Redis: account -> instance
  creds,      \* worker_creds:{id} in Redis: for which spawn it was stashed
  boot,       \* life of each worker process
  home,       \* the --account-id of each worker process
  login,      \* the credentials a worker process fetched
  via         \* the instance that handles each request

poolVars  == <<procs, op, registry>>
bootVars  == <<creds, boot, home, login>>
fleetVars == <<jqVars, poolVars, bootVars, via>>

Free == [kind |-> "free", acct |-> None, w |-> None]

-----------------------------------------------------------------------------
\* process.poll() is None
Alive(w) == boot[w] \in {"start", "read", "connecting", "up", "closing"}

LiveWorkers(a) == {w \in Workers : home[w] = a /\ Alive(w)}

\* The instance is not blocked in the synchronous process.wait(timeout=5).
Responsive(i) == op[i].kind # "waiting"

HasLive(i, a) == procs[i][a] # None /\ Alive(procs[i][a])

\* len(self._workers), once ensure_worker has dropped a dead entry for a.
PoolSize(i, a) == Cardinality({b \in Accounts \ {a} : procs[i][b] # None})

\* ensure_worker(a) called now on i would return False.
WouldRefuse(i, a) ==
  op[i] = Free /\ ~HasLive(i, a) /\ PoolSize(i, a) >= MaxConcurrentWorkers

StopsUnderWay(a) ==
  Cardinality({i \in Instances : op[i].kind = "stopping" /\ op[i].acct = a})

-----------------------------------------------------------------------------
(* WorkerPoolManager.  ensure_worker of an account whose worker is alive   *)
(* returns True and changes nothing.                                       *)

\* The pool is full: False, but the dead entry of the account is gone.
EnsureRefused(i, a) ==
  /\ WouldRefuse(i, a)
  /\ procs' = [procs EXCEPT ![i][a] = None]
  /\ UNCHANGED <<jqVars, op, registry, bootVars, via>>

\* Mutant of EnsureStash: the handle found in _workers is not polled.
EnsureStashUnpolled(i, a, w) ==
  /\ op[i] = Free
  /\ PoolSize(i, a) < MaxConcurrentWorkers
  /\ boot[w] = "unborn"
  /\ procs' = [procs EXCEPT ![i][a] = None]
  /\ creds' = [creds EXCEPT ![a] = w]
  /\ boot'  = [boot EXCEPT ![w] = "reserved"]
  /\ op'    = [op EXCEPT ![i] = [kind |-> "stashed", acct |-> a, w |-> w]]
  /\ UNCHANGED <<jqVars, registry, home, login, via>>

\* Mutant of EnsureStash: one worker too many fits into the pool.
EnsureStashOverLimit(i, a, w) ==
  /\ op[i] = Free
  /\ ~HasLive(i, a)
  /\ PoolSize(i, a) <= MaxConcurrentWorkers
  /\ boot[w] = "unborn"
  /\ procs' = [procs EXCEPT ![i][a] = None]
  /\ creds' = [creds EXCEPT ![a] = w]
  /\ boot'  = [boot EXCEPT ![w] = "reserved"]
  /\ op'    = [op EXCEPT ![i] = [kind |-> "stashed", acct |-> a, w |-> w]]
  /\ UNCHANGED <<jqVars, registry, home, login, via>>

\* Mutant of EnsureStash: SET NX, which keeps a key left by an earlier spawn.
EnsureStashIfAbsent(i, a, w) ==
  /\ op[i] = Free
  /\ ~HasLive(i, a)
  /\ PoolSize(i, a) < MaxConcurrentWorkers
  /\ boot[w] = "unborn"
  /\ procs' = [procs EXCEPT ![i][a] = None]
  /\ creds' = [creds EXCEPT ![a] = IF @ = None THEN w ELSE @]
  /\ boot'  = [boot EXCEPT ![w] = "reserved"]
  /\ op'    = [op EXCEPT ![i] = [kind |-> "stashed", acct |-> a, w |-> w]]
  /\ UNCHANGED <<jqVars, registry, home, login, via>>

\* stash_worker_credentials for the process w about to be spawned.
EnsureStash(i, a, w) ==
  /\ op[i] = Free
  /\ ~HasLive(i, a)
  /\ PoolSize(i, a) < MaxConcurrentWorkers
  /\ boot[w] = "unborn"
  /\ procs' = [procs EXCEPT ![i][a] = None]
  /\ creds' = [creds EXCEPT ![a] = w]
  /\ boot'  = [boot EXCEPT ![w] = "reserved"]
  /\ op'    = [op EXCEPT ![i] = [kind |-> "stashed", acct |-> a, w |-> w]]
  /\ UNCHANGED <<jqVars, registry, home, login, via>>

\* subprocess.Popen, and the handle enters _workers.
EnsureSpawn(i) ==
  /\ op[i].kind = "stashed"
  /\ LET a == op[i].acct
         w == op[i].w IN
       /\ boot'  = [boot EXCEPT ![w] = "start"]
       /\ home'  = [home EXCEPT ![w] = a]
       /\ procs' = [procs EXCEPT ![i][a] = w]
  /\ op' = [op EXCEPT ![i].kind = "spawned"]
  /\ UNCHANGED <<jqVars, registry, creds, login, via>>

\* subprocess.Popen raises: the exception leaves ensure_worker (nothing turns it
\* into False) and the credentials stay stashed.
SpawnRaises(i) ==
  /\ op[i].kind = "stashed"
  /\ op' = [op EXCEPT ![i] = Free]
  /\ UNCHANGED <<jqVars, procs, registry, bootVars, via>>

\* Mutant of EnsureRegister: the value of the hash entry is its own key.
EnsureRegisterSwapped(i) ==
  /\ op[i].kind = "spawned"
  /\ registry' = [registry EXCEPT ![op[i].acct] = op[i].acct]
  /\ op' = [op EXCEPT ![i] = Free]
  /\ UNCHANGED <<jqVars, procs, bootVars, via>>

\* Mutant of EnsureRegister: the worker never enters the registry.
EnsureRegisterForgotten(i) ==
  /\ op[i].kind = "spawned"
  /\ op' = [op EXCEPT ![i] = Free]
  /\ UNCHANGED <<jqVars, procs, registry, bootVars, via>>

EnsureRegister(i) ==
  /\ op[i].kind = "spawned"
  /\ registry' = [registry EXCEPT ![op[i].acct] = i]
  /\ op' = [op EXCEPT ![i] = Free]
  /\ UNCHANGED <<jqVars, procs, bootVars, via>>

\* stop_worker forgets the handle and the registry entry first.  Its callers
\* (/disconnect, the sweep, the webhook, cancellation, shutdown) may call it
\* for any account, whether or not a worker runs.
StopBegin(i, a) ==
  /\ op[i] = Free
  /\ StopsSent(a) + StopsUnderWay(a) < MaxStops
  /\ op' = [op EXCEPT ![i] = [kind |-> "stopping", acct |-> a, w |-> procs[i][a]]]
  /\ procs' = [procs EXCEPT ![i][a] = None]
  /\ registry' = [registry EXCEPT ![a] = None]
  /\ UNCHANGED <<jqVars, bootVars, via>>

\* Mutant of StopSubmit: nobody waits for the process to exit.
StopSubmitNoWait(i) ==
  /\ op[i].kind = "stopping"
  /\ SubmitStop(op[i].acct)
  /\ op' = [op EXCEPT ![i] = Free]
  /\ UNCHANGED <<procs, registry, bootVars, via>>

\* Mutant of StopSubmit: the STOP overtakes the jobs already queued.
StopSubmitOvertaking(i) ==
  /\ op[i].kind = "stopping"
  /\ StopsSent(op[i].acct) < MaxStops
  /\ queue' = [queue EXCEPT ![op[i].acct] = <<STOP>> \o @]
  /\ sent'  = [sent EXCEPT ![op[i].acct] = Append(@, STOP)]
  /\ op' = [op EXCEPT ![i] = IF op[i].w = None THEN Free ELSE [@ EXCEPT !.kind = "waiting"]]
  /\ UNCHANGED <<clientVars, workerVars, outcome, done, procs, registry, bootVars, via>>

\* The STOP job; without a handle there is nothing to wait for.
StopSubmit(i) ==
  /\ op[i].kind = "stopping"
  /\ SubmitStop(op[i].acct)
  /\ op' = [op EXCEPT ![i] = IF op[i].w = None THEN Free ELSE [@ EXCEPT !.kind = "waiting"]]
  /\ UNCHANGED <<procs, registry, bootVars, via>>

\* A Redis command of ensure_worker or stop_worker raises and the operation is
\* left half done: a worker spawned but not registered; a handle forgotten but
\* its worker not told to stop; or (HDEL, or SET of the credentials) only the
\* handle forgotten.
PoolCommandRaises(i) ==
  /\ RedisMayFail
  /\ \/ /\ op[i].kind \in {"spawned", "stopping"}
        /\ op' = [op EXCEPT ![i] = Free]
        /\ UNCHANGED procs
     \/ /\ op[i] = Free
        /\ \E a \in Accounts : procs' = [procs EXCEPT ![i][a] = None]
        /\ UNCHANGED op
  /\ UNCHANGED <<jqVars, registry, bootVars, via>>

\* process.wait returns: the process has exited.
StopReap(i) ==
  /\ op[i].kind = "waiting"
  /\ ~Alive(op[i].w)
  /\ op' = [op EXCEPT ![i] = Free]
  /\ UNCHANGED <<jqVars, procs, registry, bootVars, via>>

\* A process dies, in its job loop or outside it.
Die(w) ==
  /\ boot' = [boot EXCEPT ![w] = "exited"]
  /\ IF step[w] = "off" THEN UNCHANGED jqVars ELSE WorkerDies(w)

\* Mutant of StopKill: the timeout is logged and the process left alone.
StopKillForgotten(i) ==
  /\ op[i].kind = "waiting"
  /\ Alive(op[i].w)
  /\ op' = [op EXCEPT ![i] = Free]
  /\ UNCHANGED <<jqVars, procs, registry, bootVars, via>>

\* process.wait timed out: process.kill().
StopKill(i) ==
  /\ op[i].kind = "waiting"
  /\ Alive(op[i].w)
  /\ Die(op[i].w)
  /\ op' = [op EXCEPT ![i] = Free]
  /\ UNCHANGED <<procs, registry, creds, home, login, via>>

\* An API process dies and comes back: its requests, its handles and its lock
\* are gone; Redis and the worker processes are not.
ApiCrash(i) ==
  /\ ApiMayCrash
  /\ procs' = [procs EXCEPT ![i] = [a \in Accounts |-> None]]
  /\ op'    = [op EXCEPT ![i] = Free]
  /\ RequestersDie({j \in Jobs : via[j] = i})
  /\ UNCHANGED <<registry, bootVars, via>>

-----------------------------------------------------------------------------
(* Requests: the handler runs in one instance; is_running asks Redis.      *)

CheckRunning(i, j) ==
  /\ Responsive(i)
  /\ via' = [via EXCEPT ![j] = i]
  /\ \/ registry[AccountOf[j]] # None /\ GateOpen(j)
     \/ registry[AccountOf[j]] = None /\ GateClosed(j)
  /\ UNCHANGED <<poolVars, bootVars>>

HandlerStep(j) ==
  /\ via[j] # None /\ Responsive(via[j])
  /\ SubmitJob(j) \/ AwaitResult(j)
  /\ UNCHANGED <<poolVars, bootVars, via>>

RedisTimer(j) ==
  /\ TimeOut(j) \/ ResultExpires(j)
  /\ UNCHANGED <<poolVars, bootVars, via>>

-----------------------------------------------------------------------------
(* run_worker.                                                             *)

\* fetch_worker_credentials, first command: GET.
FetchCredentials(w) ==
  /\ boot[w] = "start"
  /\ LET c == creds[home[w]] IN
       /\ login' = [login EXCEPT ![w] = c]
       /\ boot'  = [boot EXCEPT ![w] = IF c = None THEN "exited" ELSE "read"]
  /\ UNCHANGED <<jqVars, poolVars, creds, home, via>>

\* Second command: DEL.
DeleteCredentials(w) ==
  /\ boot[w] = "read"
  /\ creds' = [creds EXCEPT ![home[w]] = None]
  /\ boot'  = [boot EXCEPT ![w] = "connecting"]
  /\ UNCHANGED <<jqVars, poolVars, home, login, via>>

\* The stashed key reaches its 60 s expiry.
CredentialsExpire(a) ==
  /\ creds[a] # None
  /\ creds' = [creds EXCEPT ![a] = None]
  /\ UNCHANGED <<jqVars, poolVars, boot, home, login, via>>

\* MT5ExecutionService.connect succeeds, or refuses the server or the login.
ConnectMT5(w) ==
  /\ boot[w] = "connecting"
  /\ \/ /\ boot' = [boot EXCEPT ![w] = "up"]
        /\ EnterLoop(w, home[w])
     \/ /\ boot' = [boot EXCEPT ![w] = "exited"]
        /\ UNCHANGED jqVars
  /\ UNCHANGED <<poolVars, creds, home, login, via>>

\* One step of the job loop; leaving it leads to the finally clause.
LoopStep(w) ==
  /\ boot[w] = "up"
  /\ \/ PopJob(w) \/ PopStop(w) \/ IdleOut(w)
     \/ \E r \in Reply : HandleJob(w, r)
     \/ PushResult(w) \/ ExpireResult(w) \/ PushRaises(w)
  /\ boot' = [boot EXCEPT ![w] = IF step'[w] = "off" THEN "closing" ELSE "up"]
  /\ UNCHANGED <<poolVars, creds, home, login, via>>

\* MT5 and Redis disconnected; the process ends.
Disconnect(w) ==
  /\ boot[w] = "closing"
  /\ boot' = [boot EXCEPT ![w] = "exited"]
  /\ UNCHANGED <<jqVars, poolVars, creds, home, login, via>>

WorkerCrash(w) ==
  /\ WorkersMayCrash
  /\ Alive(w)
  /\ Die(w)
  /\ UNCHANGED <<poolVars, creds, home, login, via>>

-----------------------------------------------------------------------------
FleetInit ==
  /\ Init
  /\ procs    = [i \in Instances |-> [a \in Accounts |-> None]]
  /\ op       = [i \in Instances |-> Free]
  /\ registry = [a \in Accounts |-> None]
  /\ creds    = [a \in Accounts |-> None]
  /\ boot     = [w \in Workers |-> "unborn"]
  /\ home     = [w \in Workers |-> None]
  /\ login    = [w \in Workers |-> None]
  /\ via      = [j \in Jobs |-> None]

Pool(i) ==
  \/ \E a \in Accounts : EnsureRefused(i, a) \/ StopBegin(i, a)
  \/ \E a \in Accounts, w \in Workers : EnsureStash(i, a, w)
  \/ EnsureSpawn(i) \/ SpawnRaises(i) \/ EnsureRegister(i)
  \/ StopSubmit(i) \/ StopReap(i) \/ StopKill(i)
  \/ PoolCommandRaises(i)
  \/ ApiCrash(i)

Worker(w) ==
  FetchCredentials(w) \/ DeleteCredentials(w) \/ ConnectMT5(w) \/ LoopStep(w)
    \/ Disconnect(w) \/ WorkerCrash(w)

FleetNext ==
  \/ \E i \in Instances : Pool(i)
  \/ \E i \in Instances, j \in Jobs : CheckRunning(i, j)
  \/ \E j \in Jobs : HandlerStep(j) \/ RedisTimer(j)
  \/ \E w \in Workers : Worker(w)
  \/ \E a \in Accounts : CredentialsExpire(a)

FleetSpec == FleetInit /\ [][FleetNext]_fleetVars

\* Once begun, ensure_worker and stop_worker go on (the wait is bounded by its
\* timeout and the kill); requests go on; a worker that can start, pop, report
\* or shut down does.  A call into MT5 (connect or a job) may hang, and no
\* client is obliged to call /connect.
FleetFairness ==
  /\ \A i \in Instances :
       WF_fleetVars(EnsureSpawn(i) \/ EnsureRegister(i) \/ StopSubmit(i)
                      \/ StopReap(i) \/ StopKill(i))
  /\ \A j \in Jobs : WF_fleetVars(HandlerStep(j)) /\ WF_fleetVars(RedisTimer(j))
  /\ \A w \in Workers :
       WF_fleetVars(FetchCredentials(w) \/ DeleteCredentials(w) \/ Disconnect(w)
                      \/ (LoopStep(w) /\ step[w] # "busy"))

FairFleetSpec == FleetSpec /\ FleetFairness

-----------------------------------------------------------------------------
(* Properties.                                                             *)

\* Every variable of the fleet keeps its type.
FleetTypeOK ==
  /\ procs    \in [Instances -> [Accounts -> Workers \cup {None}]]
  /\ op       \in [Instances -> [kind : {"free", "stashed", "spawned", "stopping", "waiting"},
                                 acct : Accounts \cup {None},
                                 w    : Workers \cup {None}]]
  /\ registry \in [Accounts -> Instances \cup {None}]
  /\ creds    \in [Accounts -> Workers \cup {None}]
  /\ boot     \in [Workers -> {"unborn", "reserved", "start", "read", "connecting",
                               "up", "closing", "exited"}]
  /\ home     \in [Workers -> Accounts \cup {None}]
  /\ login    \in [Workers -> Workers \cup {None}]
  /\ via      \in [Jobs -> Instances \cup {None}]

\* "one process per connected broker account"
OneWorkerPerAccount ==
  \A v, w \in Workers : Alive(v) /\ Alive(w) /\ home[v] = home[w] => v = w

\* When no ensure_worker or stop_worker is under way, a worker process that
\* runs is one is_running reports: no worker trades unseen.
NoInvisibleWorker ==
  (\A i \in Instances : op[i] = Free) =>
     \A w \in Workers : Alive(w) => registry[home[w]] # None

\* Once stop_worker has returned, no worker process of the account is left,
\* until ensure_worker spawns another: nothing more runs for the account.
StopIsEffective ==
  \A a \in Accounts :
    (\A i \in Instances : procs[i][a] = None /\ op[i].acct # a) => LiveWorkers(a) = {}

\* A single API process never has more worker processes running than
\* MAX_CONCURRENT_WORKERS, those being stopped included.
WithinLimit == Cardinality({w \in Workers : Alive(w)}) <= MaxConcurrentWorkers

\* A worker logs in with the credentials stashed for its own spawn, not with
\* those of an earlier or a later one.
OwnCredentials == \A w \in Workers : login[w] \in {w, None}

\* The fleet drives the queue only in the ways JobQueue describes, so all that
\* holds of JobQueue holds of any number of API processes, workers and crashes.
ImplementsQueue == Spec

\* stop_worker gives the pool's lock back, and the worker it was called for is gone,
\* whatever that process does, even if it hangs in MT5.
StoppedWorkerExits ==
  \A i \in Instances, w \in Workers :
    (op[i].kind = "stopping" /\ op[i].w = w) ~> (op[i] = Free /\ ~Alive(w))

=============================================================================
