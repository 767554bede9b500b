-------------------------- MODULE WorkerFleetProofs --------------------------
(***************************************************************************)
(* WorkerFleet, proved for every number of API instances, accounts and     *)
(* worker processes, with or without crashes: its type invariant, and that *)
(* it implements JobQueue, so that what JobQueueProofs shows of the queue  *)
(* holds of the whole fleet.                                               *)
(***************************************************************************)
EXTENDS WorkerFleet, JobQueueProofs, FiniteSetTheorems, TLAPS

-----------------------------------------------------------------------------
(* What the progress of an operation, or of a process, says of its fields. *)

OpInv ==
  \A i \in Instances :
    /\ op[i].kind # "free" => op[i].acct \in Accounts
    /\ op[i].kind \in {"stashed", "spawned", "waiting"} => op[i].w \in Workers

HomeInv ==
  \A w \in Workers : boot[w] \notin {"unborn", "reserved"} => home[w] \in Accounts

FleetInv == FleetTypeOK /\ OpInv /\ HomeInv

\* The empty pools and unborn workers of the start.
LEMMA InitFleetInv == FleetInit => FleetInv
BY DEF FleetInit, FleetInv, FleetTypeOK, OpInv, HomeInv, Free

\* Every step of the fleet keeps its types.
LEMMA NextFleetInv == FleetInv /\ [FleetNext]_fleetVars => FleetInv'
<1> SUFFICES ASSUME FleetInv, [FleetNext]_fleetVars PROVE FleetInv'
  OBVIOUS
<1> USE DEF FleetInv, FleetTypeOK, OpInv, HomeInv, Free
<1>1. ASSUME NEW i \in Instances, NEW a \in Accounts, EnsureRefused(i, a) PROVE FleetInv'
  BY <1>1 DEF EnsureRefused, bootVars
<1>2. ASSUME NEW i \in Instances, NEW a \in Accounts, StopBegin(i, a) PROVE FleetInv'
  BY <1>2 DEF StopBegin, bootVars
<1>3. ASSUME NEW i \in Instances, NEW a \in Accounts, NEW w \in Workers, EnsureStash(i, a, w)
      PROVE  FleetInv'
  BY <1>3 DEF EnsureStash
<1>4. ASSUME NEW i \in Instances, EnsureSpawn(i) PROVE FleetInv'
  BY SMTT(90), <1>4 DEF EnsureSpawn
<1>5. ASSUME NEW i \in Instances, EnsureRegister(i) PROVE FleetInv'
  BY <1>5 DEF EnsureRegister, bootVars
<1>5a. ASSUME NEW i \in Instances, SpawnRaises(i) PROVE FleetInv'
  BY <1>5a DEF SpawnRaises, bootVars
<1>5b. ASSUME NEW i \in Instances, PoolCommandRaises(i) PROVE FleetInv'
  <2>1. CASE op' = [op EXCEPT ![i] = Free] /\ UNCHANGED procs
    BY <1>5b, <2>1 DEF PoolCommandRaises, bootVars
  <2>2. ASSUME NEW a \in Accounts, procs' = [procs EXCEPT ![i][a] = None], UNCHANGED op
        PROVE  FleetInv'
    BY <1>5b, <2>2 DEF PoolCommandRaises, bootVars
  <2> QED BY <1>5b, <2>1, <2>2 DEF PoolCommandRaises
<1>6. ASSUME NEW i \in Instances, StopSubmit(i) PROVE FleetInv'
  BY <1>6 DEF StopSubmit, bootVars
<1>7. ASSUME NEW i \in Instances, StopReap(i) PROVE FleetInv'
  BY <1>7 DEF StopReap, bootVars
<1>8. ASSUME NEW i \in Instances, StopKill(i) PROVE FleetInv'
  BY <1>8 DEF StopKill, Die, Alive
<1>9. ASSUME NEW i \in Instances, ApiCrash(i) PROVE FleetInv'
  BY <1>9 DEF ApiCrash, bootVars
<1>10. ASSUME NEW i \in Instances, NEW j \in Jobs, CheckRunning(i, j) PROVE FleetInv'
  BY <1>10 DEF CheckRunning, poolVars, bootVars
<1>11. ASSUME NEW j \in Jobs, HandlerStep(j) \/ RedisTimer(j) PROVE FleetInv'
  BY <1>11 DEF HandlerStep, RedisTimer, poolVars, bootVars
<1>12. ASSUME NEW w \in Workers, FetchCredentials(w) PROVE FleetInv'
  BY <1>12 DEF FetchCredentials, poolVars
<1>13. ASSUME NEW w \in Workers, DeleteCredentials(w) PROVE FleetInv'
  BY <1>13 DEF DeleteCredentials, poolVars
<1>14. ASSUME NEW w \in Workers, ConnectMT5(w) PROVE FleetInv'
  BY <1>14 DEF ConnectMT5, poolVars
<1>15. ASSUME NEW w \in Workers, LoopStep(w) PROVE FleetInv'
  BY <1>15 DEF LoopStep, poolVars
<1>16. ASSUME NEW w \in Workers, Disconnect(w) PROVE FleetInv'
  BY <1>16 DEF Disconnect, poolVars
<1>17. ASSUME NEW w \in Workers, WorkerCrash(w) PROVE FleetInv'
  BY <1>17 DEF WorkerCrash, Die, Alive, poolVars
<1>18. ASSUME NEW a \in Accounts, CredentialsExpire(a) PROVE FleetInv'
  BY <1>18 DEF CredentialsExpire, poolVars
<1>19. CASE UNCHANGED fleetVars
  BY <1>19 DEF fleetVars, poolVars, bootVars
<1> HIDE DEF FleetInv
<1> QED
  BY <1>1, <1>2, <1>3, <1>4, <1>5, <1>6, <1>7, <1>8, <1>9, <1>10, <1>11, <1>12, <1>13,
     <1>14, <1>15, <1>16, <1>17, <1>18, <1>19, <1>5a, <1>5b
  DEF FleetNext, Pool, Worker

\* Every variable of the fleet keeps its type.
THEOREM FleetTypes == FleetSpec => []FleetTypeOK
<1>1. FleetInv => FleetTypeOK
  BY DEF FleetInv
<1> QED BY <1>1, InitFleetInv, NextFleetInv, PTL DEF FleetSpec

-----------------------------------------------------------------------------
(* The fleet implements the queue.                                         *)

\* Every step of the fleet is a step of the queue or leaves it alone.
LEMMA StepImplementsQueue == FleetInv /\ [FleetNext]_fleetVars => [Next]_jqVars
<1> SUFFICES ASSUME FleetInv, [FleetNext]_fleetVars PROVE [Next]_jqVars
  OBVIOUS
<1>d. ASSUME NEW w \in Workers, Die(w) PROVE [Next]_jqVars
  BY <1>d DEF Die, Next, Loop
<1>1. ASSUME NEW i \in Instances, Pool(i) PROVE [Next]_jqVars
  <2>1. ASSUME NEW a \in Accounts,
               \/ EnsureRefused(i, a) \/ StopBegin(i, a)
               \/ \E w \in Workers : EnsureStash(i, a, w)
        PROVE  UNCHANGED jqVars
    BY <2>1 DEF EnsureRefused, StopBegin, EnsureStash
  <2>2. CASE \/ EnsureSpawn(i) \/ SpawnRaises(i) \/ EnsureRegister(i) \/ StopReap(i)
            \/ PoolCommandRaises(i)
    BY <2>2 DEF EnsureSpawn, SpawnRaises, EnsureRegister, StopReap, PoolCommandRaises
  <2>3. CASE StopSubmit(i)
    <3>1. op[i].acct \in Accounts /\ SubmitStop(op[i].acct)
      BY <2>3 DEF StopSubmit, FleetInv, OpInv
    <3> QED BY <3>1 DEF Next
  <2>4. CASE StopKill(i)
    <3>1. op[i].w \in Workers /\ Die(op[i].w)
      BY <2>4 DEF StopKill, FleetInv, OpInv
    <3> QED BY <3>1, <1>d
  <2>5. CASE ApiCrash(i)
    BY <2>5 DEF ApiCrash, Next
  <2> QED BY <1>1, <2>1, <2>2, <2>3, <2>4, <2>5 DEF Pool
<1>2. ASSUME NEW i \in Instances, NEW j \in Jobs, CheckRunning(i, j) PROVE [Next]_jqVars
  BY <1>2 DEF CheckRunning, Next, Request
<1>3. ASSUME NEW j \in Jobs, HandlerStep(j) \/ RedisTimer(j) PROVE [Next]_jqVars
  BY <1>3 DEF HandlerStep, RedisTimer, Next, Request
<1>4. ASSUME NEW w \in Workers, Worker(w) PROVE [Next]_jqVars
  <2>1. CASE FetchCredentials(w) \/ DeleteCredentials(w) \/ Disconnect(w)
    BY <2>1 DEF FetchCredentials, DeleteCredentials, Disconnect
  <2>2. CASE ConnectMT5(w)
    <3>1. home[w] \in Accounts
      BY <2>2 DEF ConnectMT5, FleetInv, HomeInv
    <3> QED BY <2>2, <3>1 DEF ConnectMT5, Next
  <2>3. CASE LoopStep(w)
    BY <2>3 DEF LoopStep, Next, Loop
  <2>4. CASE WorkerCrash(w)
    BY <2>4, <1>d DEF WorkerCrash
  <2> QED BY <1>4, <2>1, <2>2, <2>3, <2>4 DEF Worker
<1>5. ASSUME NEW a \in Accounts, CredentialsExpire(a) PROVE [Next]_jqVars
  BY <1>5 DEF CredentialsExpire
<1>6. CASE UNCHANGED fleetVars
  BY <1>6 DEF fleetVars
<1> QED BY <1>1, <1>2, <1>3, <1>4, <1>5, <1>6 DEF FleetNext

\* API instances, worker processes, crashes and stops drive the job queue only
\* in the ways JobQueue describes.
THEOREM FleetImplementsQueue == FleetSpec => ImplementsQueue
<1>1. FleetInit => Init
  BY DEF FleetInit
<1> QED BY <1>1, InitFleetInv, NextFleetInv, StepImplementsQueue,
           PTL DEF FleetSpec, ImplementsQueue, Spec

\* With any number of API instances and workers, however they crash, an MT5
\* operation runs at most once for a request, and the requester is told only
\* what its own job earned.
THEOREM FleetAnswers == FleetSpec => [](AtMostOnce /\ AnswerEarned)
BY FleetImplementsQueue, JobQueueAtMostOnce, JobQueueAnswerEarned, PTL
DEF ImplementsQueue

\* So a caller of submit_and_wait sees what JobLifecycle promises, whatever the
\* pools of the instances and the worker processes do.
THEOREM FleetImplementsLifecycle == FleetSpec => ImplementsLifecycle
BY FleetImplementsQueue, JobQueueImplementsLifecycle DEF ImplementsQueue
-----------------------------------------------------------------------------
(* One API process, neither it nor Redis failing.  _workers, and the call   *)
(* under its lock, then know every worker process that runs; the code      *)
(* relies on this, and a second instance, a restart or an exception of a   *)
(* Redis command breaks it.                                                *)

\* The handle of a running worker is in the pool, or with the stop under way.
Owned(i) ==
  \A w \in Workers : Alive(w) =>
    \/ procs[i][home[w]] = w
    \/ op[i].kind \in {"stopping", "waiting"} /\ op[i].w = w /\ op[i].acct = home[w]

\* What holds while ensure_worker or stop_worker is under way.
UnderWay(i) ==
  /\ op[i].kind \in {"stopping", "waiting", "stashed"} => procs[i][op[i].acct] = None
  /\ op[i].kind = "stashed" => /\ boot[op[i].w] = "reserved"
                               /\ creds[op[i].acct] \in {op[i].w, None}

\* What Redis holds for the workers of the pool.
Recorded(i) ==
  /\ \A a \in Accounts :
       procs[i][a] # None /\ ~(op[i].kind = "spawned" /\ op[i].acct = a) => registry[a] # None
  /\ \A w \in Workers : boot[w] = "start" => creds[home[w]] \in {w, None}
  /\ \A w \in Workers : login[w] \in {w, None}

OwnershipInv(i) == Owned(i) /\ UnderWay(i) /\ Recorded(i)

\* No worker runs at the start.
LEMMA InitOwnership == ASSUME NEW i \in Instances, FleetInit PROVE OwnershipInv(i)
BY DEF FleetInit, Free, OwnershipInv, Owned, UnderWay, Recorded, Alive

\* Nobody but the pool's own operation changes what the pool knows.
LEMMA NextOwnership ==
  ASSUME NEW i, Instances = {i}, ~ApiMayCrash, ~RedisMayFail,
         FleetInv, OwnershipInv(i), [FleetNext]_fleetVars
  PROVE  OwnershipInv(i)'
<1> USE WorkerFleetAssumption, JobQueueAssumption
<1> USE DEF FleetInv, FleetTypeOK, OpInv, HomeInv, OwnershipInv, Owned, UnderWay, Recorded,
            Alive, Free
<1>0. \A k \in Instances : k = i
  OBVIOUS
<1>1. ASSUME NEW a \in Accounts, EnsureRefused(i, a) PROVE OwnershipInv(i)'
  BY <1>1 DEF EnsureRefused, WouldRefuse, HasLive, bootVars
<1>2. ASSUME NEW a \in Accounts, StopBegin(i, a) PROVE OwnershipInv(i)'
  BY <1>2 DEF StopBegin, bootVars
<1>3. ASSUME NEW a \in Accounts, NEW w \in Workers, EnsureStash(i, a, w) PROVE OwnershipInv(i)'
  BY <1>3 DEF EnsureStash, HasLive
<1>4. CASE EnsureSpawn(i)
  BY <1>4 DEF EnsureSpawn
<1>5. CASE EnsureRegister(i) \/ SpawnRaises(i)
  BY <1>5 DEF EnsureRegister, SpawnRaises, bootVars
<1>6. CASE StopSubmit(i)
  BY <1>6 DEF StopSubmit, bootVars
<1>7. CASE StopReap(i)
  BY <1>7 DEF StopReap, bootVars
<1>8. CASE StopKill(i)
  BY <1>8 DEF StopKill, Die
<1>9. ASSUME NEW j \in Jobs, CheckRunning(i, j) \/ HandlerStep(j) \/ RedisTimer(j)
      PROVE  OwnershipInv(i)'
  BY <1>9 DEF CheckRunning, HandlerStep, RedisTimer, poolVars, bootVars
<1>10. ASSUME NEW w \in Workers, FetchCredentials(w) PROVE OwnershipInv(i)'
  BY <1>10 DEF FetchCredentials, poolVars
<1>11. ASSUME NEW w \in Workers, DeleteCredentials(w) PROVE OwnershipInv(i)'
  BY <1>11 DEF DeleteCredentials, poolVars
<1>12. ASSUME NEW w \in Workers, ConnectMT5(w) PROVE OwnershipInv(i)'
  BY <1>12 DEF ConnectMT5, poolVars
<1>13. ASSUME NEW w \in Workers, LoopStep(w) PROVE OwnershipInv(i)'
  BY <1>13 DEF LoopStep, poolVars
<1>14. ASSUME NEW w \in Workers, Disconnect(w) PROVE OwnershipInv(i)'
  BY <1>14 DEF Disconnect, poolVars
<1>15. ASSUME NEW w \in Workers, WorkerCrash(w) PROVE OwnershipInv(i)'
  BY <1>15 DEF WorkerCrash, Die, poolVars
<1>16. ASSUME NEW a \in Accounts, CredentialsExpire(a) PROVE OwnershipInv(i)'
  BY <1>16 DEF CredentialsExpire, poolVars
<1>17. CASE UNCHANGED fleetVars
  BY <1>17 DEF fleetVars, poolVars, bootVars
<1>18. ~ApiCrash(i) /\ ~PoolCommandRaises(i)
  BY DEF ApiCrash, PoolCommandRaises
<1> HIDE DEF FleetInv, OwnershipInv
<1> QED
  BY <1>0, <1>1, <1>2, <1>3, <1>4, <1>5, <1>6, <1>7, <1>8, <1>9, <1>10, <1>11, <1>12,
     <1>13, <1>14, <1>15, <1>16, <1>17, <1>18
  DEF FleetNext, Pool, Worker

\* With one API process and no fault of it or of Redis: at most one worker process runs
\* for an account, none unseen, none once a stop has returned, and each logs
\* in with its own credentials; workers may crash at any time.
THEOREM SingleInstanceFleet ==
  ASSUME NEW i, Instances = {i}, ~ApiMayCrash, ~RedisMayFail
  PROVE  FleetSpec => []( /\ OneWorkerPerAccount
                          /\ NoInvisibleWorker
                          /\ StopIsEffective
                          /\ OwnCredentials )
<1>1. FleetInit => OwnershipInv(i)
  BY InitOwnership
<1>2. FleetInv /\ OwnershipInv(i) /\ [FleetNext]_fleetVars => OwnershipInv(i)'
  BY NextOwnership
<1>3. ASSUME FleetInv, OwnershipInv(i)
      PROVE  /\ OneWorkerPerAccount /\ NoInvisibleWorker
             /\ StopIsEffective /\ OwnCredentials
  <2> USE <1>3, JobQueueAssumption, WorkerFleetAssumption
  <2>0. /\ \A w \in Workers : Alive(w) => home[w] \in Accounts /\ w # None
        /\ procs \in [Instances -> [Accounts -> Workers \cup {None}]]
    BY DEF FleetInv, FleetTypeOK, HomeInv, Alive
  <2>1. OneWorkerPerAccount
    BY <2>0 DEF OneWorkerPerAccount, OwnershipInv, Owned, UnderWay
  <2>2. NoInvisibleWorker
    BY <2>0 DEF NoInvisibleWorker, OwnershipInv, Owned, Recorded, Free
  <2>3. StopIsEffective
    BY <2>0 DEF StopIsEffective, LiveWorkers, OwnershipInv, Owned
  <2>4. OwnCredentials
    BY DEF OwnCredentials, OwnershipInv, Recorded
  <2> QED BY <2>1, <2>2, <2>3, <2>4
<1> QED BY <1>1, <1>2, <1>3, InitFleetInv, NextFleetInv, PTL DEF FleetSpec

\* The same, promise by promise: none of the workers that run is unseen,
COROLLARY SingleIsSeen ==
  ASSUME NEW i, Instances = {i}, ~ApiMayCrash, ~RedisMayFail
  PROVE  FleetSpec => []NoInvisibleWorker
BY SingleInstanceFleet, PTL

\* none is left of an account whose stop has returned,
COROLLARY SingleStops ==
  ASSUME NEW i, Instances = {i}, ~ApiMayCrash, ~RedisMayFail
  PROVE  FleetSpec => []StopIsEffective
BY SingleInstanceFleet, PTL

\* and each logs in with the credentials stashed for it.
COROLLARY SingleLogsIn ==
  ASSUME NEW i, Instances = {i}, ~ApiMayCrash, ~RedisMayFail
  PROVE  FleetSpec => []OwnCredentials
BY SingleInstanceFleet, PTL

-----------------------------------------------------------------------------
(* MAX_CONCURRENT_WORKERS.  The accounts of the pool, and that of the       *)
(* operation under way, stay within it; each running worker is of another.  *)

\* The accounts that hold a place: a handle in _workers, a spawn that has passed the
\* limit, or a worker that is being stopped.
Places(i) ==
  {a \in Accounts : \/ procs[i][a] # None
                    \/ op[i].kind = "stashed" /\ op[i].acct = a
                    \/ op[i].kind \in {"stopping", "waiting"} /\ op[i].acct = a /\ op[i].w # None}

PlacesKept(i) == IsFiniteSet(Places(i)) /\ Cardinality(Places(i)) <= MaxConcurrentWorkers

\* Fewer places are no more than the limit.
LEMMA FewerPlaces ==
  ASSUME NEW S, NEW T, T \subseteq S, IsFiniteSet(S), Cardinality(S) <= MaxConcurrentWorkers
  PROVE  IsFiniteSet(T) /\ Cardinality(T) <= MaxConcurrentWorkers
<1>1. /\ IsFiniteSet(T) /\ Cardinality(T) <= Cardinality(S)
      /\ Cardinality(S) \in Nat /\ Cardinality(T) \in Nat
  BY FS_Subset, FS_CardinalityType
<1> QED BY <1>1, WorkerFleetAssumption

\* Only ensure_worker takes a place, and only below the limit.
LEMMA NextPlaces ==
  ASSUME NEW i, Instances = {i}, FleetInv, PlacesKept(i), [FleetNext]_fleetVars
  PROVE  PlacesKept(i)'
<1> USE DEF Free
<1>0. /\ procs \in [Instances -> [Accounts -> Workers \cup {None}]] /\ i \in Instances
      /\ op \in [Instances -> [kind : {"free", "stashed", "spawned", "stopping", "waiting"},
                               acct : Accounts \cup {None}, w : Workers \cup {None}]]
      /\ op[i].kind # "free" => op[i].acct \in Accounts
      /\ op[i].kind \in {"stashed", "spawned", "waiting"} => op[i].w \in Workers
      /\ None \notin Workers
  BY JobQueueAssumption DEF FleetInv, FleetTypeOK, OpInv
<1>1. ASSUME Places(i)' \subseteq Places(i) PROVE PlacesKept(i)'
  BY <1>1, FewerPlaces DEF PlacesKept
<1>2. ASSUME NEW a \in Accounts, NEW w \in Workers, EnsureStash(i, a, w) PROVE PlacesKept(i)'
  <2> DEFINE S == {b \in Accounts \ {a} : procs[i][b] # None}
  <2>1. S \subseteq Places(i) /\ Cardinality(S) < MaxConcurrentWorkers
    BY <1>2 DEF EnsureStash, PoolSize, Places
  <2>2. Places(i)' \subseteq S \cup {a}
    BY <1>0, <1>2 DEF EnsureStash, Places
  <2>3. IsFiniteSet(S)
    BY <2>1, FS_Subset DEF PlacesKept
  <2>4. a \notin S
    OBVIOUS
  <2> HIDE DEF S
  <2>5. IsFiniteSet(S \cup {a}) /\ Cardinality(S \cup {a}) = Cardinality(S) + 1
    BY <2>3, <2>4, FS_AddElement
  <2>6. Cardinality(S \cup {a}) <= MaxConcurrentWorkers
    BY <2>1, <2>3, <2>5, FS_CardinalityType, WorkerFleetAssumption
  <2> QED BY <2>2, <2>5, <2>6, FewerPlaces DEF PlacesKept
<1>3. ASSUME NEW a \in Accounts, EnsureRefused(i, a) PROVE Places(i)' \subseteq Places(i)
  BY <1>0, <1>3 DEF EnsureRefused, WouldRefuse, Places
<1>4. ASSUME NEW a \in Accounts, StopBegin(i, a) PROVE Places(i)' \subseteq Places(i)
  BY <1>0, <1>4 DEF StopBegin, Places
<1>5. ASSUME \/ EnsureSpawn(i) \/ SpawnRaises(i) \/ EnsureRegister(i) \/ StopSubmit(i)
             \/ StopReap(i) \/ StopKill(i)
      PROVE  Places(i)' \subseteq Places(i)
  <2>1. CASE EnsureSpawn(i)
    BY <1>0, <2>1 DEF EnsureSpawn, Places
  <2>2. CASE SpawnRaises(i) \/ EnsureRegister(i)
    BY <1>0, <2>2 DEF SpawnRaises, EnsureRegister, Places
  <2>3. CASE StopSubmit(i)
    BY <1>0, <2>3 DEF StopSubmit, Places
  <2>4. CASE StopReap(i) \/ StopKill(i)
    BY <1>0, <2>4 DEF StopReap, StopKill, Places
  <2> QED BY <1>5, <2>1, <2>2, <2>3, <2>4
<1>6. ASSUME PoolCommandRaises(i) \/ ApiCrash(i) PROVE Places(i)' \subseteq Places(i)
  <2>1. CASE PoolCommandRaises(i)
    BY <1>0, <2>1 DEF PoolCommandRaises, Places
  <2>2. CASE ApiCrash(i)
    BY <1>0, <2>2 DEF ApiCrash, Places
  <2> QED BY <1>6, <2>1, <2>2
<1>7. ASSUME UNCHANGED <<procs, op>> PROVE Places(i)' \subseteq Places(i)
  BY <1>7 DEF Places
<1>8. ASSUME NEW j \in Jobs, CheckRunning(i, j) \/ HandlerStep(j) \/ RedisTimer(j)
      PROVE  UNCHANGED <<procs, op>>
  BY <1>8 DEF CheckRunning, HandlerStep, RedisTimer, poolVars
<1>9. ASSUME NEW w \in Workers, Worker(w) PROVE UNCHANGED <<procs, op>>
  BY <1>9 DEF Worker, FetchCredentials, DeleteCredentials, ConnectMT5, LoopStep, Disconnect,
    WorkerCrash, poolVars
<1>10. ASSUME NEW a \in Accounts, CredentialsExpire(a) PROVE UNCHANGED <<procs, op>>
  BY <1>10 DEF CredentialsExpire, poolVars
<1>11. CASE UNCHANGED fleetVars
  BY <1>1, <1>7, <1>11 DEF fleetVars, poolVars
<1>12. ASSUME Pool(i) PROVE PlacesKept(i)'
  BY <1>1, <1>2, <1>3, <1>4, <1>5, <1>6, <1>12 DEF Pool
<1>13. \A k \in Instances : k = i
  OBVIOUS
<1> QED BY <1>1, <1>7, <1>8, <1>9, <1>10, <1>11, <1>12, <1>13 DEF FleetNext

\* One API process without faults of its own never has more workers running than
\* MAX_CONCURRENT_WORKERS, however they crash.
THEOREM SingleIsWithinLimit ==
  ASSUME NEW i, Instances = {i}, ~ApiMayCrash, ~RedisMayFail
  PROVE  FleetSpec => []WithinLimit
<1>1. FleetInit => PlacesKept(i)
  <2> SUFFICES ASSUME FleetInit PROVE PlacesKept(i)
    OBVIOUS
  <2>1. Places(i) = {}
    BY DEF FleetInit, Places, Free
  <2> QED BY <2>1, FS_EmptySet, WorkerFleetAssumption DEF PlacesKept
<1>2. FleetInv /\ PlacesKept(i) /\ [FleetNext]_fleetVars => PlacesKept(i)'
  BY NextPlaces
<1>3. ASSUME FleetInv, OwnershipInv(i), OneWorkerPerAccount, PlacesKept(i) PROVE WithinLimit
  <2> DEFINE R == {w \in Workers : Alive(w)}
             f == [w \in R |-> home[w]]
  <2>1. \A w \in R : home[w] \in Places(i)
    <3> SUFFICES ASSUME NEW w \in Workers, Alive(w) PROVE home[w] \in Places(i)
      OBVIOUS
    <3>1. home[w] \in Accounts /\ w # None
      BY <1>3, JobQueueAssumption DEF FleetInv, HomeInv, Alive
    <3>2. \/ procs[i][home[w]] = w
          \/ op[i].kind \in {"stopping", "waiting"} /\ op[i].w = w /\ op[i].acct = home[w]
      BY <1>3 DEF OwnershipInv, Owned
    <3> QED BY <3>1, <3>2 DEF Places
  <2>2. f \in Injection(R, Places(i))
    BY <1>3, <2>1 DEF Injection, IsInjective, OneWorkerPerAccount
  <2> HIDE DEF f
  <2>3. Cardinality(R) <= Cardinality(Places(i)) /\ IsFiniteSet(R)
    BY <1>3, <2>2, FS_Injection DEF PlacesKept
  <2>4. Cardinality(R) \in Nat /\ Cardinality(Places(i)) \in Nat
    BY <1>3, <2>3, FS_CardinalityType DEF PlacesKept
  <2> QED BY <1>3, <2>3, <2>4, WorkerFleetAssumption DEF PlacesKept, WithinLimit
<1>4. FleetInit => OwnershipInv(i)
  BY InitOwnership
<1>5. FleetInv /\ OwnershipInv(i) /\ [FleetNext]_fleetVars => OwnershipInv(i)'
  BY NextOwnership
<1> QED BY <1>1, <1>2, <1>3, <1>4, <1>5, SingleInstanceFleet, InitFleetInv, NextFleetInv, PTL
     DEF FleetSpec

-----------------------------------------------------------------------------
(* In order.  With one worker process for an account, its jobs run in the   *)
(* order of its queue.                                                      *)

\* A worker in its loop runs, and serves the account it was started for.
InLoop == \A w \in Workers : step[w] # "off" => boot[w] = "up" /\ serves[w] = home[w]

LEMMA InitInLoop == FleetInit => InLoop
BY DEF FleetInit, Init, InLoop

\* How a worker's place in its loop can change with a step of the queue.
LEMMA DieLeaves ==
  ASSUME TypeInv, FleetTypeOK, InLoop, NEW w \in Workers, Die(w), UNCHANGED home
  PROVE  InLoop'
<1>1. /\ step \in [Workers -> {"off", "idle", "busy", "done", "pushed"}]
      /\ serves \in [Workers -> Accounts \cup {None}] /\ boot' = [boot EXCEPT ![w] = "exited"]
      /\ DOMAIN boot = Workers
  BY DEF TypeInv, TypeOK, FleetTypeOK, Die
<1>2. CASE step[w] = "off"
  <2>1. UNCHANGED <<step, serves>>
    BY <1>2 DEF Die, jqVars, workerVars
  <2> QED BY <1>1, <1>2, <2>1 DEF InLoop
<1>3. CASE step[w] # "off"
  <2>1. step' = [step EXCEPT ![w] = "off"] /\ serves' = [serves EXCEPT ![w] = None]
    BY <1>3 DEF Die, WorkerDies, OutOfLoop
  <2> QED BY <1>1, <2>1 DEF InLoop
<1> QED BY <1>2, <1>3

LEMMA NextInLoop ==
  ASSUME NEW i, Instances = {i}, TypeInv, FleetInv, OwnershipInv(i), InLoop, [FleetNext]_fleetVars
  PROVE  InLoop'
<1>0. /\ step \in [Workers -> {"off", "idle", "busy", "done", "pushed"}]
      /\ serves \in [Workers -> Accounts \cup {None}] /\ i \in Instances
      /\ DOMAIN boot = Workers /\ DOMAIN home = Workers
      /\ FleetTypeOK
  BY DEF TypeInv, TypeOK, FleetInv, FleetTypeOK
<1>1. ASSUME UNCHANGED <<step, serves, boot, home>> PROVE InLoop'
  BY <1>1 DEF InLoop
<1>2. ASSUME NEW a \in Accounts, NEW w \in Workers, EnsureStash(i, a, w) PROVE InLoop'
  BY <1>0, <1>2 DEF EnsureStash, InLoop, jqVars, workerVars
<1>3. CASE EnsureSpawn(i)
  <2> PICK w \in Workers : w = op[i].w
    BY <1>0, <1>3 DEF EnsureSpawn, FleetInv, OpInv
  <2>1. boot[w] = "reserved"
    BY <1>3 DEF EnsureSpawn, OwnershipInv, UnderWay
  <2>2. /\ UNCHANGED <<step, serves>> /\ \A v \in Workers : v # w => boot'[v] = boot[v] /\ home'[v] = home[v]
    BY <1>0, <1>3 DEF EnsureSpawn, jqVars, workerVars
  <2>3. step[w] = "off"
    BY <2>1 DEF InLoop
  <2> QED BY <2>2, <2>3 DEF InLoop
<1>4. ASSUME NEW a \in Accounts, EnsureRefused(i, a) \/ StopBegin(i, a)
      PROVE  UNCHANGED <<step, serves, boot, home>>
  BY <1>4 DEF EnsureRefused, StopBegin, jqVars, workerVars, bootVars
<1>5. ASSUME \/ SpawnRaises(i) \/ EnsureRegister(i) \/ StopReap(i) \/ PoolCommandRaises(i)
             \/ ApiCrash(i) \/ StopSubmit(i)
      PROVE  UNCHANGED <<step, serves, boot, home>>
  BY <1>5 DEF SpawnRaises, EnsureRegister, StopReap, PoolCommandRaises, ApiCrash, StopSubmit,
    SubmitStop, RequestersDie, jqVars, workerVars, bootVars
<1>6. CASE StopKill(i)
  <2>1. op[i].w \in Workers /\ Die(op[i].w) /\ UNCHANGED home
    BY <1>0, <1>6 DEF StopKill, FleetInv, OpInv
  <2> QED BY <1>0, <2>1, DieLeaves
<1>7. ASSUME NEW j \in Jobs, CheckRunning(i, j) \/ HandlerStep(j) \/ RedisTimer(j)
      PROVE  UNCHANGED <<step, serves, boot, home>>
  BY <1>7 DEF CheckRunning, HandlerStep, RedisTimer, GateOpen, GateClosed, SubmitJob, AwaitResult,
    TimeOut, ResultExpires, workerVars, bootVars
<1>8. ASSUME NEW w \in Workers, FetchCredentials(w) \/ DeleteCredentials(w) \/ Disconnect(w)
      PROVE  InLoop'
  <2>1. /\ boot[w] \in {"start", "read", "closing"} /\ UNCHANGED <<step, serves, home>>
        /\ \A v \in Workers : v # w => boot'[v] = boot[v]
    BY <1>0, <1>8 DEF FetchCredentials, DeleteCredentials, Disconnect, jqVars, workerVars
  <2> QED BY <2>1 DEF InLoop
<1>9. ASSUME NEW w \in Workers, ConnectMT5(w) PROVE InLoop'
  <2>1. boot[w] = "connecting" /\ step[w] = "off" /\ UNCHANGED home
    BY <1>9 DEF ConnectMT5, InLoop
  <2>2. CASE boot' = [boot EXCEPT ![w] = "up"] /\ EnterLoop(w, home[w])
    BY <1>0, <2>1, <2>2 DEF InLoop, EnterLoop
  <2>3. CASE boot' = [boot EXCEPT ![w] = "exited"] /\ UNCHANGED jqVars
    BY <1>0, <2>1, <2>3 DEF InLoop, jqVars, workerVars
  <2> QED BY <1>9, <2>2, <2>3 DEF ConnectMT5
<1>10. ASSUME NEW w \in Workers, LoopStep(w) PROVE InLoop'
  <2>1. /\ boot[w] = "up" /\ UNCHANGED home
        /\ boot' = [boot EXCEPT ![w] = IF step'[w] = "off" THEN "closing" ELSE "up"]
    BY <1>10 DEF LoopStep
  <2>2. /\ \A v \in Workers : v # w => step'[v] = step[v] /\ serves'[v] = serves[v]
        /\ step'[w] # "off" => step[w] # "off" /\ serves'[w] = serves[w]
    <3>1. CASE PopJob(w)
      BY <1>0, <3>1 DEF PopJob, HasNext
    <3>2. CASE PopStop(w) \/ IdleOut(w)
      BY <1>0, <3>2 DEF PopStop, IdleOut, OutOfLoop
    <3>3. CASE (\E r \in Reply : HandleJob(w, r)) \/ PushResult(w) \/ ExpireResult(w)
      BY <1>0, <3>3 DEF HandleJob, PushResult, ExpireResult, BackToLoop
    <3>4. CASE PushRaises(w)
      BY <1>0, <3>4 DEF PushRaises, OutOfLoop
    <3> QED BY <1>10, <3>1, <3>2, <3>3, <3>4 DEF LoopStep
  <2> QED BY <1>0, <2>1, <2>2 DEF InLoop
<1>11. ASSUME NEW w \in Workers, WorkerCrash(w) PROVE InLoop'
  BY <1>0, <1>11, DieLeaves DEF WorkerCrash
<1>12. ASSUME NEW a \in Accounts, CredentialsExpire(a) PROVE UNCHANGED <<step, serves, boot, home>>
  BY <1>12 DEF CredentialsExpire, jqVars, workerVars
<1>13. CASE UNCHANGED fleetVars
  BY <1>1, <1>13 DEF fleetVars, bootVars, jqVars, workerVars
<1>14. \A k \in Instances : k = i
  OBVIOUS
<1> QED BY <1>1, <1>2, <1>3, <1>4, <1>5, <1>6, <1>7, <1>8, <1>9, <1>10, <1>11, <1>12, <1>13, <1>14
     DEF FleetNext, Pool, Worker

\* One API process without faults of its own runs the operations of an account in the order
\* of its requests, however its workers crash.
THEOREM SingleRunsInOrder ==
  ASSUME NEW i, Instances = {i}, ~ApiMayCrash, ~RedisMayFail
  PROVE  FleetSpec => []RunInOrder
<1> DEFINE Queues == TypeInv /\ Custody /\ TakenInOrder
<1>1. FleetSpec => []Queues
  BY FleetImplementsQueue, JobQueueTypes, JobQueueCustody, JobQueueTakenInOrder, PTL
  DEF ImplementsQueue
<1>2. FleetInit => InLoop /\ Ordered /\ OwnershipInv(i) /\ FleetInv
  BY InitInLoop, InitOrdered, InitOwnership, InitFleetInv DEF FleetInit
<1>3. ASSUME InLoop, FleetInv, OneWorkerPerAccount PROVE OneAtATime
  BY <1>3 DEF OneAtATime, InLoop, OneWorkerPerAccount, Alive
<1>4. Queues /\ OneWorkerPerAccount /\ InLoop /\ Ordered /\ OwnershipInv(i) /\ FleetInv
        /\ [FleetNext]_fleetVars => InLoop' /\ Ordered' /\ OwnershipInv(i)' /\ FleetInv'
  BY <1>3, NextInLoop, NextOrdered, StepImplementsQueue, NextOwnership, NextFleetInv
<1>5. Ordered => RunInOrder
  BY DEF Ordered
<1>6. FleetSpec => []OneWorkerPerAccount
  BY SingleInstanceFleet, PTL
<1> QED BY <1>1, <1>2, <1>4, <1>5, <1>6, PTL DEF FleetSpec
=============================================================================
