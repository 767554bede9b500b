---------------------------- MODULE JobLifecycle ----------------------------
(***************************************************************************)
(* What submit_and_wait (job_queue_service.py) promises to its callers,    *)
(* with no queue, no Redis and no worker in sight: a request is refused    *)
(* unsubmitted or submitted once; a submitted job runs at most once or is  *)
(* lost; the requester gets one final answer, and "ok" only for a job that *)
(* ran to success, or from a handler that does not test for it.  A request *)
(* may end without its job's knowledge, so a job can still run after its   *)
(* requester was told 504.                                                 *)
(***************************************************************************)
CONSTANTS
  Jobs,         \* the requests
  Untested,     \* those whose handler answers a failure as if it were a success
  RedisMayFail  \* whether reporting a success may fail

VARIABLES
  phase,    \* of the job: new, pending, ran to "ok" or to "fail", or lost
  answer    \* what the requester was told, "none" so far

lifeVars == <<phase, answer>>

Phases  == {"new", "pending", "ok", "fail", "lost"}
Answers == {"none", "refused", "ok", "fail", "timeout", "dead"}

Init ==
  /\ phase  = [j \in Jobs |-> "new"]
  /\ answer = [j \in Jobs |-> "none"]

Submit(j) ==
  /\ phase[j] = "new" /\ answer[j] = "none"
  /\ phase' = [phase EXCEPT ![j] = "pending"]
  /\ UNCHANGED answer

Run(j, r) ==
  /\ phase[j] = "pending"
  /\ phase' = [phase EXCEPT ![j] = r]
  /\ UNCHANGED answer

\* The worker that had taken the job died before it ran.
Lose(j) ==
  /\ phase[j] = "pending"
  /\ phase' = [phase EXCEPT ![j] = "lost"]
  /\ UNCHANGED answer

Refuse(j) ==
  /\ phase[j] = "new" /\ answer[j] = "none"
  /\ answer' = [answer EXCEPT ![j] = "refused"]
  /\ UNCHANGED phase

\* A failure may be reported for a job that succeeded, if reporting the
\* success raised; a success is never reported for one that did not.  What is
\* reported is what is told, where the handler tests it.
Tell(j, r) ==
  /\ answer[j] = "none"
  /\ \/ phase[j] = r
     \/ phase[j] = "ok" /\ r = "fail" /\ RedisMayFail
  /\ answer' = [answer EXCEPT ![j] = IF j \in Untested THEN "ok" ELSE r]
  /\ UNCHANGED phase

TimeOut(j) ==
  /\ answer[j] = "none" /\ phase[j] # "new"
  /\ answer' = [answer EXCEPT ![j] = "timeout"]
  /\ UNCHANGED phase

Abandon(S) ==
  /\ answer' = [j \in Jobs |-> IF j \in S /\ answer[j] = "none" THEN "dead" ELSE answer[j]]
  /\ UNCHANGED phase

Next ==
  \/ \E j \in Jobs : Submit(j) \/ Lose(j) \/ Refuse(j) \/ TimeOut(j)
  \/ \E j \in Jobs, r \in {"ok", "fail"} : Run(j, r) \/ Tell(j, r)
  \/ \E S \in SUBSET Jobs : Abandon(S)

Spec == Init /\ [][Next]_lifeVars

=============================================================================
