--------------------------- MODULE JobQueueProofs ---------------------------
(***************************************************************************)
(* JobQueue, proved for every set of accounts, requests and workers: its   *)
(* type invariant, that no MT5 operation runs twice for one request, and   *)
(* that a requester is told only what its own job earned.                  *)
(***************************************************************************)
EXTENDS JobQueue, SequenceTheorems, TLAPS

-----------------------------------------------------------------------------
(* Sequences as sets of entries.                                           *)

\* Appending adds exactly one entry.
LEMMA InAppend ==
  ASSUME NEW S, NEW s \in Seq(S), NEW y \in S, NEW x
  PROVE  InSeq(x, Append(s, y)) <=> InSeq(x, s) \/ x = y
<1>1. /\ DOMAIN s = 1..Len(s) /\ Len(s) \in Nat
      /\ DOMAIN Append(s, y) = 1..(Len(s) + 1)
      /\ \A i \in 1..Len(s) : Append(s, y)[i] = s[i]
      /\ Append(s, y)[Len(s) + 1] = y
  BY AppendProperties, LenProperties
<1>2. ASSUME NEW n \in DOMAIN Append(s, y), Append(s, y)[n] = x
      PROVE  InSeq(x, s) \/ x = y
  BY <1>1, <1>2 DEF InSeq
<1>3. ASSUME InSeq(x, s) PROVE InSeq(x, Append(s, y))
  BY <1>1, <1>3 DEF InSeq
<1>4. ASSUME x = y PROVE InSeq(x, Append(s, y))
  <2>1. Len(s) + 1 \in DOMAIN Append(s, y)
    BY <1>1
  <2> QED BY <1>1, <1>4, <2>1 DEF InSeq
<1> QED BY <1>2, <1>3, <1>4 DEF InSeq

\* Removing the head leaves the other entries.
LEMMA InTail ==
  ASSUME NEW S, NEW s \in Seq(S), s # <<>>, NEW x
  PROVE  /\ InSeq(x, s) <=> x = Head(s) \/ InSeq(x, Tail(s))
         /\ InSeq(Head(s), s)
<1>1. /\ DOMAIN s = 1..Len(s) /\ Len(s) \in Nat /\ Len(s) > 0
      /\ Head(s) = s[1]
  BY LenProperties, EmptySeq
<1>2. /\ Tail(s) \in Seq(S) /\ Len(Tail(s)) = Len(s) - 1
      /\ \A i \in 1..Len(Tail(s)) : Tail(s)[i] = s[i + 1]
  BY HeadTailProperties
<1>3. DOMAIN Tail(s) = 1..(Len(s) - 1)
  BY <1>2, LenProperties
<1>4. ASSUME NEW n \in DOMAIN s, s[n] = x PROVE x = Head(s) \/ InSeq(x, Tail(s))
  <2>1. CASE n = 1
    BY <2>1, <1>1, <1>4
  <2>2. CASE n # 1
    <3>1. n - 1 \in DOMAIN Tail(s) /\ Tail(s)[n - 1] = x
      BY <2>2, <1>1, <1>2, <1>3, <1>4
    <3> QED BY <3>1 DEF InSeq
  <2> QED BY <2>1, <2>2
<1>5. ASSUME NEW n \in DOMAIN Tail(s), Tail(s)[n] = x PROVE InSeq(x, s)
  <2>1. n + 1 \in DOMAIN s /\ s[n + 1] = x
    BY <1>1, <1>2, <1>3, <1>5
  <2> QED BY <2>1 DEF InSeq
<1>6. InSeq(Head(s), s)
  <2>1. 1 \in DOMAIN s
    BY <1>1
  <2> QED BY <1>1, <2>1 DEF InSeq
<1> QED BY <1>4, <1>5, <1>6 DEF InSeq

\* A new entry, or a STOP, keeps the entries distinct.
LEMMA NoDupAppend ==
  ASSUME NEW S, NEW s \in Seq(S), NEW y \in S, NoDup(s), y = STOP \/ ~InSeq(y, s)
  PROVE  NoDup(Append(s, y))
<1>1. /\ DOMAIN s = 1..Len(s) /\ Len(s) \in Nat
      /\ DOMAIN Append(s, y) = 1..(Len(s) + 1)
      /\ \A i \in 1..Len(s) : Append(s, y)[i] = s[i]
      /\ Append(s, y)[Len(s) + 1] = y
  BY AppendProperties, LenProperties
<1>2. SUFFICES ASSUME NEW m \in 1..(Len(s) + 1), NEW n \in 1..(Len(s) + 1),
                      Append(s, y)[m] = Append(s, y)[n], Append(s, y)[m] # STOP
               PROVE  m = n
  BY <1>1 DEF NoDup
<1>3. CASE m \in 1..Len(s) /\ n \in 1..Len(s)
  BY <1>1, <1>2, <1>3 DEF NoDup
<1>4. CASE m = Len(s) + 1 /\ n = Len(s) + 1
  BY <1>4
<1>5. CASE m = Len(s) + 1 /\ n \in 1..Len(s)
  BY <1>1, <1>2, <1>5 DEF InSeq
<1>6. CASE n = Len(s) + 1 /\ m \in 1..Len(s)
  BY <1>1, <1>2, <1>6 DEF InSeq
<1> QED BY <1>1, <1>3, <1>4, <1>5, <1>6

\* Taking the head keeps them distinct, and leaves no second copy of it.
LEMMA NoDupTail ==
  ASSUME NEW S, NEW s \in Seq(S), s # <<>>, NoDup(s)
  PROVE  /\ NoDup(Tail(s))
         /\ Head(s) # STOP => ~InSeq(Head(s), Tail(s))
<1>1. /\ DOMAIN s = 1..Len(s) /\ Len(s) \in Nat /\ Len(s) > 0
      /\ Head(s) = s[1]
  BY LenProperties, EmptySeq
<1>2. /\ Tail(s) \in Seq(S) /\ Len(Tail(s)) = Len(s) - 1
      /\ \A i \in 1..Len(Tail(s)) : Tail(s)[i] = s[i + 1]
  BY HeadTailProperties
<1>3. DOMAIN Tail(s) = 1..(Len(s) - 1)
  BY <1>2, LenProperties
<1>4. NoDup(Tail(s))
  <2>1. SUFFICES ASSUME NEW m \in 1..(Len(s) - 1), NEW n \in 1..(Len(s) - 1),
                        Tail(s)[m] = Tail(s)[n], Tail(s)[m] # STOP
                 PROVE  m = n
    BY <1>3 DEF NoDup
  <2>2. /\ m + 1 \in DOMAIN s /\ n + 1 \in DOMAIN s
        /\ s[m + 1] = s[n + 1] /\ s[m + 1] # STOP
    BY <1>1, <1>2, <2>1
  <2>3. m + 1 = n + 1
    BY <2>2 DEF NoDup
  <2> QED BY <2>3, <1>1
<1>5. ASSUME Head(s) # STOP, NEW n \in DOMAIN Tail(s), Tail(s)[n] = Head(s)
      PROVE  FALSE
  <2>1. /\ n + 1 \in DOMAIN s /\ 1 \in DOMAIN s /\ n + 1 # 1
        /\ s[n + 1] = s[1] /\ s[1] # STOP
    BY <1>1, <1>2, <1>3, <1>5
  <2> QED BY <2>1 DEF NoDup
<1> QED BY <1>4, <1>5 DEF InSeq

-----------------------------------------------------------------------------
(* Type correctness.                                                       *)

\* What a worker's place in its loop says of its hand.
LoopInv ==
  \A w \in Workers :
    /\ serves[w] = None <=> step[w] = "off"
    /\ step[w] \in {"off", "idle"} => hand[w] = None
    /\ step[w] \in {"busy", "done", "pushed"} => hand[w] \in Jobs
    /\ step[w] \in {"done", "pushed"} => reply[w] \in Reply

TypeInv == TypeOK /\ LoopInv

\* The empty queues, idle requests and absent workers of the start are typed.
LEMMA InitTypeInv == Init => TypeInv
BY JobQueueAssumption, EmptySeq DEF Init, TypeInv, TypeOK, LoopInv, Open, Ended, Reply

\* A worker's hand and the queue it pops, where it does.
LEMMA PopTypes ==
  ASSUME TypeInv, NEW w \in Workers, HasNext(w)
  PROVE  /\ serves[w] \in Accounts
         /\ queue[serves[w]] \in Seq(Jobs \cup {STOP})
         /\ Head(queue[serves[w]]) \in Jobs \cup {STOP}
         /\ Tail(queue[serves[w]]) \in Seq(Jobs \cup {STOP})
BY HeadTailProperties DEF TypeInv, TypeOK, LoopInv, HasNext

\* Every step of the queue keeps the types.
LEMMA NextTypeInv == TypeInv /\ [Next]_jqVars => TypeInv'
<1> SUFFICES ASSUME TypeInv, [Next]_jqVars PROVE TypeInv'
  OBVIOUS
<1> USE JobQueueAssumption DEF TypeInv, TypeOK, LoopInv
<1> USE DEF Open, Ended, Reply
<1>1. ASSUME NEW j \in Jobs, GateOpen(j) PROVE TypeInv'
  BY <1>1 DEF GateOpen, workerVars, history
<1>2. ASSUME NEW j \in Jobs, GateClosed(j) PROVE TypeInv'
  BY <1>2 DEF GateClosed, workerVars, history
<1>3. ASSUME NEW j \in Jobs, SubmitJob(j) PROVE TypeInv'
  <2>1. /\ Append(queue[AccountOf[j]], j) \in Seq(Jobs \cup {STOP})
        /\ Append(sent[AccountOf[j]], j) \in Seq(Jobs \cup {STOP})
    BY AppendProperties
  <2> QED BY <1>3, <2>1 DEF SubmitJob, Push, workerVars
<1>4. ASSUME NEW j \in Jobs, AwaitResult(j) PROVE TypeInv'
  <2>1. results[j] # <<>> => Head(results[j]) \in Reply /\ Tail(results[j]) \in Seq(Reply)
    BY HeadTailProperties
  <2>2. CASE results[j] = <<>> /\ UNCHANGED <<results, ttl>>
    BY <1>4, <2>2 DEF AwaitResult, workerVars, history
  <2>3. CASE /\ results[j] # <<>> /\ SetResults(j, Tail(results[j]))
             /\ req' = [req EXCEPT ![j] = Answered(j, Head(results[j]))]
    <3>1. /\ req' \in [Jobs -> Open \cup Ended]
          /\ results' \in [Jobs -> Seq(Reply)]
          /\ ttl' \in [Jobs -> BOOLEAN]
      BY <2>1, <2>3 DEF SetResults, Answered
    <3> QED BY <1>4, <3>1 DEF AwaitResult, workerVars, history
  <2> QED BY <1>4, <2>2, <2>3 DEF AwaitResult
<1>5. ASSUME NEW j \in Jobs, TimeOut(j) PROVE TypeInv'
  BY <1>5 DEF TimeOut, workerVars, history
<1>6. ASSUME NEW j \in Jobs, ResultExpires(j) PROVE TypeInv'
  BY <1>6, EmptySeq DEF ResultExpires, SetResults, workerVars, history
<1>7. ASSUME NEW S \in SUBSET Jobs, RequestersDie(S) PROVE TypeInv'
  BY <1>7 DEF RequestersDie, workerVars, history
<1>8. ASSUME NEW a \in Accounts, SubmitStop(a) PROVE TypeInv'
  <2>1. /\ Append(queue[a], STOP) \in Seq(Jobs \cup {STOP})
        /\ Append(sent[a], STOP) \in Seq(Jobs \cup {STOP})
    BY AppendProperties
  <2> QED BY <1>8, <2>1 DEF SubmitStop, Push, clientVars, workerVars
<1>9. ASSUME NEW w \in Workers, NEW a \in Accounts, EnterLoop(w, a) PROVE TypeInv'
  BY <1>9 DEF EnterLoop, clientVars, history
<1>10. ASSUME NEW w \in Workers, PopJob(w) PROVE TypeInv'
  BY <1>10, PopTypes DEF PopJob, PopQueue, clientVars, history, HasNext
<1>11. ASSUME NEW w \in Workers, PopStop(w) PROVE TypeInv'
  BY <1>11, PopTypes DEF PopStop, PopQueue, OutOfLoop, clientVars, history, HasNext
<1>12. ASSUME NEW w \in Workers, IdleOut(w) PROVE TypeInv'
  BY <1>12 DEF IdleOut, OutOfLoop, clientVars, history
<1>13. ASSUME NEW w \in Workers, NEW r \in Reply, HandleJob(w, r) PROVE TypeInv'
  <2>1. hand[w] \in Jobs /\ Append(done[AccountOf[hand[w]]], hand[w]) \in Seq(Jobs)
    BY <1>13, AppendProperties DEF HandleJob
  <2> QED BY <1>13, <2>1 DEF HandleJob, clientVars
<1>14. ASSUME NEW w \in Workers, PushResult(w) PROVE TypeInv'
  <2>1. hand[w] \in Jobs /\ reply[w] \in Reply
    BY <1>14 DEF PushResult
  <2>2. <<reply[w]>> \o results[hand[w]] \in Seq(Reply)
    BY <2>1, ConcatProperties
  <2>3. /\ req' \in [Jobs -> Open \cup Ended]
        /\ results' \in [Jobs -> Seq(Reply)]
        /\ UNCHANGED ttl
    <3>1. CASE /\ req' = [req EXCEPT ![hand[w]] = Answered(hand[w], reply[w])]
               /\ UNCHANGED <<results, ttl>>
      BY <2>1, <3>1 DEF Answered
    <3>2. CASE /\ results' = [results EXCEPT ![hand[w]] = <<reply[w]>> \o @]
               /\ UNCHANGED <<req, ttl>>
      BY <2>2, <3>2
    <3> QED BY <1>14, <3>1, <3>2 DEF PushResult
  <2>4. step' = [step EXCEPT ![w] = "pushed"] /\ step[w] = "done"
    BY <1>14 DEF PushResult
  <2> QED BY <1>14, <2>1, <2>3, <2>4 DEF PushResult, history
<1>15. ASSUME NEW w \in Workers, ExpireResult(w) PROVE TypeInv'
  BY <1>15 DEF ExpireResult, BackToLoop, history
<1>16. ASSUME NEW w \in Workers, PushRaises(w) PROVE TypeInv'
  <2>1. CASE /\ reply' = [reply EXCEPT ![w] = "fail"]
             /\ step' = [step EXCEPT ![w] = "done"]
             /\ UNCHANGED <<serves, hand>>
    <3>1. step[w] \in {"done", "pushed"} /\ hand[w] \in Jobs
      BY <1>16 DEF PushRaises
    <3>2. UNCHANGED <<queue, req, results, ttl, outcome, sent, done>>
      BY <1>16 DEF PushRaises, clientVars, history
    <3> QED BY <2>1, <3>1, <3>2
  <2>2. CASE OutOfLoop(w)
    BY <1>16, <2>2 DEF PushRaises, OutOfLoop, clientVars, history
  <2> QED BY <1>16, <2>1, <2>2 DEF PushRaises
<1>17. ASSUME NEW w \in Workers, WorkerDies(w) PROVE TypeInv'
  BY <1>17 DEF WorkerDies, OutOfLoop, clientVars, history
<1>18. CASE UNCHANGED jqVars
  BY <1>18 DEF jqVars, clientVars, workerVars, history
<1> HIDE DEF TypeInv, TypeOK, LoopInv, Open, Ended
<1> QED
  BY <1>1, <1>2, <1>3, <1>4, <1>5, <1>6, <1>7, <1>8, <1>9, <1>10, <1>11, <1>12,
     <1>13, <1>14, <1>15, <1>16, <1>17, <1>18 DEF Next, Request, Loop

\* The type invariant of the queue, with the invariant of the job loop.
THEOREM JobQueueTypes == Spec => []TypeInv
BY InitTypeInv, NextTypeInv, PTL DEF Spec

\* Every variable keeps its type, for all accounts, requests and workers.
THEOREM JobQueueTypeOK == Spec => []TypeOK
BY JobQueueTypes, PTL DEF TypeInv

-----------------------------------------------------------------------------
(* At most once.  Custody is the inductive strengthening: AtMostOnce alone *)
(* says nothing of a job that is still queued or in a worker's hand.       *)

\* Before anything is submitted every job is nowhere.
LEMMA InitCustody == Init => Custody
BY JobQueueAssumption
DEF Init, Custody, NoDup, InSeq, Queued, Ran, Unsubmitted

\* A step that neither queues, pops nor runs a job: workers may drop jobs and
\* requests may end.
LEMMA CustodyFrame ==
  ASSUME Custody,
         UNCHANGED <<queue, done>>,
         \A w \in Workers : hand'[w] \in {hand[w], None},
         \A w \in Workers : step'[w] = "busy" => step[w] = "busy" /\ hand'[w] = hand[w],
         \A j \in Jobs : req'[j] \in Unsubmitted => req[j] \in Unsubmitted
  PROVE  Custody'
<1>1. \A j \in Jobs : (Queued(j)' <=> Queued(j)) /\ (Ran(j)' <=> Ran(j))
  BY DEF Queued, Ran
<1>2. \A w \in Workers : step'[w] = "busy" => ~Ran(hand[w])' /\ hand'[w] = hand[w]
  BY DEF Custody, Ran
<1> QED BY <1>1, <1>2, JobQueueAssumption DEF Custody

\* submit_job queues a job that was nowhere, in its own account's queue.
LEMMA SubmitKeepsCustody ==
  ASSUME TypeInv, Custody, NEW j \in Jobs, SubmitJob(j)
  PROVE  Custody'
<1> DEFINE a == AccountOf[j]
<1>1. /\ a \in Accounts /\ queue \in [Accounts -> Seq(Jobs \cup {STOP})]
      /\ queue' = [queue EXCEPT ![a] = Append(queue[a], j)]
      /\ req' = [req EXCEPT ![j] = "submitted"] /\ req \in [Jobs -> Open \cup Ended]
      /\ UNCHANGED <<done, hand, step>> /\ req[j] = "checked"
      /\ AccountOf \in [Jobs -> Accounts] /\ j # STOP
  BY JobQueueAssumption DEF TypeInv, TypeOK, SubmitJob, Push, workerVars
<1>2. \A x : InSeq(x, queue'[a]) <=> InSeq(x, queue[a]) \/ x = j
  BY SMTT(90), <1>1, InAppend
<1>3. \A b \in Accounts : b # a => queue'[b] = queue[b]
  BY <1>1
<1>4. ~Queued(j) /\ ~Ran(j) /\ \A w \in Workers : hand[w] # j
  BY <1>1 DEF Custody, Unsubmitted
<1>5. NoDup(queue'[a])
  BY <1>1, <1>4, NoDupAppend DEF Custody, Queued
<1>6. \A k \in Jobs : (Queued(k)' <=> Queued(k) \/ k = j) /\ (Ran(k)' <=> Ran(k))
  BY <1>1, <1>2, <1>3 DEF Queued, Ran
<1>7. \A w \in Workers : Ran(hand[w])' <=> Ran(hand[w])
  BY <1>1 DEF Ran
<1>8. \A k \in Jobs : req'[k] \in Unsubmitted => k # j /\ req[k] \in Unsubmitted
  BY <1>1 DEF Unsubmitted
<1>9. \A b \in Accounts : NoDup(queue'[b]) /\ NoDup(done'[b])
  BY <1>1, <1>3, <1>5 DEF Custody
<1>10. \A b \in Accounts, k \in Jobs : InSeq(k, queue'[b]) => AccountOf[k] = b
  BY <1>1, <1>2, <1>3 DEF Custody
<1> QED BY <1>1, <1>4, <1>6, <1>7, <1>8, <1>9, <1>10 DEF Custody

\* stop_worker's STOP moves no job.
LEMMA StopKeepsCustody ==
  ASSUME TypeInv, Custody, NEW a \in Accounts, SubmitStop(a)
  PROVE  Custody'
<1>1. /\ queue \in [Accounts -> Seq(Jobs \cup {STOP})]
      /\ queue' = [queue EXCEPT ![a] = Append(queue[a], STOP)]
      /\ UNCHANGED <<done, hand, step, req>>
      /\ STOP \notin Jobs /\ AccountOf \in [Jobs -> Accounts]
  BY JobQueueAssumption DEF TypeInv, TypeOK, SubmitStop, Push, clientVars, workerVars
<1>2. ASSUME NEW k \in Jobs PROVE InSeq(k, queue'[a]) <=> InSeq(k, queue[a])
  <2>1. STOP \in Jobs \cup {STOP} /\ queue[a] \in Seq(Jobs \cup {STOP}) /\ k # STOP
    BY <1>1
  <2> QED BY <1>1, <2>1, InAppend
<1>3. \A b \in Accounts : b # a => queue'[b] = queue[b]
  BY <1>1
<1>4. NoDup(queue'[a])
  BY <1>1, NoDupAppend DEF Custody
<1>5. \A k \in Jobs : (Queued(k)' <=> Queued(k)) /\ (Ran(k)' <=> Ran(k))
  BY <1>1, <1>2, <1>3 DEF Queued, Ran
<1>6. \A w \in Workers : Ran(hand[w])' <=> Ran(hand[w])
  BY <1>1 DEF Ran
<1>7. \A b \in Accounts : NoDup(queue'[b]) /\ NoDup(done'[b])
  BY <1>1, <1>3, <1>4 DEF Custody
<1>8. \A b \in Accounts, k \in Jobs : InSeq(k, queue'[b]) => AccountOf[k] = b
  BY <1>1, <1>2, <1>3 DEF Custody
<1> QED BY <1>1, <1>5, <1>6, <1>7, <1>8 DEF Custody

\* What BRPOP does to the queue of a worker's account.
LEMMA PopEffect ==
  ASSUME TypeInv, Custody, NEW w \in Workers, HasNext(w), PopQueue(w), UNCHANGED done
  PROVE  /\ \A b \in Accounts : NoDup(queue'[b])
         /\ \A b \in Accounts, k \in Jobs : InSeq(k, queue'[b]) => AccountOf[k] = b
         /\ \A k \in Jobs : (Queued(k)' => Queued(k)) /\ (Ran(k)' <=> Ran(k))
         /\ \A k \in Jobs : k = Head(queue[serves[w]]) => Queued(k) /\ ~Queued(k)'
<1> DEFINE a == serves[w]
<1> DEFINE x == Head(queue[a])
<1>1. /\ a \in Accounts /\ queue[a] \in Seq(Jobs \cup {STOP}) /\ queue[a] # <<>>
      /\ queue \in [Accounts -> Seq(Jobs \cup {STOP})]
      /\ queue' = [queue EXCEPT ![a] = Tail(queue[a])]
      /\ STOP \notin Jobs /\ AccountOf \in [Jobs -> Accounts]
  BY PopTypes, JobQueueAssumption DEF HasNext, PopQueue, TypeInv, TypeOK
<1>2. \A k : InSeq(k, queue[a]) <=> k = x \/ InSeq(k, queue'[a])
  BY <1>1, InTail
<1>3. NoDup(queue'[a]) /\ (x # STOP => ~InSeq(x, queue'[a])) /\ InSeq(x, queue[a])
  BY <1>1, NoDupTail, InTail DEF Custody
<1>4. \A b \in Accounts : b # a => queue'[b] = queue[b]
  BY <1>1
<1>5. \A b \in Accounts : NoDup(queue'[b])
  BY <1>3, <1>4 DEF Custody
<1>6. \A b \in Accounts, k \in Jobs : InSeq(k, queue'[b]) => AccountOf[k] = b
  BY <1>1, <1>2, <1>4 DEF Custody
<1>7. \A k \in Jobs : (Queued(k)' => Queued(k)) /\ (Ran(k)' <=> Ran(k))
  BY <1>1, <1>2, <1>4 DEF Queued, Ran
<1>8. ASSUME NEW k \in Jobs, k = x PROVE Queued(k) /\ ~Queued(k)'
  <2>1. AccountOf[k] = a
    BY <1>1, <1>3, <1>8 DEF Custody
  <2>2. InSeq(k, queue[a]) /\ ~InSeq(k, queue'[a])
    BY <1>1, <1>3, <1>8
  <2> QED BY <2>1, <2>2 DEF Queued
<1> QED BY <1>5, <1>6, <1>7, <1>8

\* pop_job moves a job from the queue into one hand.
LEMMA PopJobKeepsCustody ==
  ASSUME TypeInv, Custody, NEW w \in Workers, PopJob(w)
  PROVE  Custody'
<1> PICK x : x = Head(queue[serves[w]])
  OBVIOUS
<1>1. /\ HasNext(w) /\ PopQueue(w)
      /\ UNCHANGED <<req, done>>
      /\ hand' = [hand EXCEPT ![w] = x] /\ step' = [step EXCEPT ![w] = "busy"]
      /\ hand \in [Workers -> Jobs \cup {None}]
      /\ step \in [Workers -> {"off", "idle", "busy", "done", "pushed"}]
  BY DEF PopJob, clientVars, history, TypeInv, TypeOK
<1>2. x \in Jobs
  BY <1>1, PopTypes DEF PopJob
<1>3. /\ \A b \in Accounts : NoDup(queue'[b])
      /\ \A b \in Accounts, k \in Jobs : InSeq(k, queue'[b]) => AccountOf[k] = b
      /\ \A k \in Jobs : (Queued(k)' => Queued(k)) /\ (Ran(k)' <=> Ran(k))
      /\ Queued(x) /\ ~Queued(x)'
  BY <1>1, <1>2, PopEffect
<1>4. /\ ~Ran(x) /\ req[x] \notin Unsubmitted
      /\ \A v \in Workers : hand[v] # x
  BY <1>2, <1>3 DEF Custody
<1>5. \A v, u \in Workers : hand'[v] = hand'[u] /\ hand'[v] # None => v = u
  BY <1>1, <1>4 DEF Custody
<1>6. \A v \in Workers : step'[v] = "busy" => ~Ran(hand'[v])
  <2>1. ~Ran(hand'[w])
    BY <1>1, <1>4
  <2>2. \A v \in Workers : v # w => hand'[v] = hand[v] /\ step'[v] = step[v]
    BY <1>1
  <2> QED BY <2>1, <2>2 DEF Custody
<1>7. \A k \in Jobs, v \in Workers :
        Queued(k)' \/ req'[k] \in Unsubmitted => hand'[v] # k
  BY <1>1, <1>3, <1>4 DEF Custody
<1> QED BY <1>1, <1>3, <1>5, <1>6, <1>7 DEF Custody, Ran

\* A popped STOP takes no job with it.
LEMMA PopStopKeepsCustody ==
  ASSUME TypeInv, Custody, NEW w \in Workers, PopStop(w)
  PROVE  Custody'
<1>1. /\ HasNext(w) /\ PopQueue(w)
      /\ UNCHANGED <<req, done>>
      /\ hand' = [hand EXCEPT ![w] = None] /\ step' = [step EXCEPT ![w] = "off"]
      /\ hand \in [Workers -> Jobs \cup {None}]
      /\ step \in [Workers -> {"off", "idle", "busy", "done", "pushed"}]
  BY DEF PopStop, OutOfLoop, clientVars, history, TypeInv, TypeOK
<1>2. /\ \A b \in Accounts : NoDup(queue'[b])
      /\ \A b \in Accounts, k \in Jobs : InSeq(k, queue'[b]) => AccountOf[k] = b
      /\ \A k \in Jobs : (Queued(k)' => Queued(k)) /\ (Ran(k)' <=> Ran(k))
  BY <1>1, PopEffect
<1>3. \A v \in Workers : step'[v] = "busy" => v # w /\ hand'[v] = hand[v] /\ step[v] = "busy"
  BY <1>1
<1>4. \A v \in Workers : hand'[v] \in {hand[v], None}
  BY <1>1
<1>5. \A v \in Workers : step'[v] = "busy" => ~Ran(hand[v])'
  BY <1>1, <1>3 DEF Custody, Ran
<1> QED BY <1>1, <1>2, <1>3, <1>4, <1>5, JobQueueAssumption DEF Custody

\* handle_job runs a job that had not run, and nobody else holds it.
LEMMA HandleKeepsCustody ==
  ASSUME TypeInv, Custody, NEW w \in Workers, NEW r \in Reply, HandleJob(w, r)
  PROVE  Custody'
<1> DEFINE j == hand[w]
<1> DEFINE a == AccountOf[j]
<1>1. /\ j \in Jobs /\ a \in Accounts /\ step[w] = "busy"
      /\ UNCHANGED <<queue, req, hand>>
      /\ done' = [done EXCEPT ![a] = Append(done[a], j)]
      /\ done \in [Accounts -> Seq(Jobs)] /\ done[a] \in Seq(Jobs)
      /\ step' = [step EXCEPT ![w] = "done"]
      /\ step \in [Workers -> {"off", "idle", "busy", "done", "pushed"}]
      /\ AccountOf \in [Jobs -> Accounts]
  BY JobQueueAssumption DEF HandleJob, TypeInv, TypeOK, LoopInv, clientVars
<1>2. ~Ran(j) /\ ~Queued(j) /\ req[j] \notin Unsubmitted
  BY <1>1 DEF Custody
<1>3. \A k : InSeq(k, done'[a]) <=> InSeq(k, done[a]) \/ k = j
  BY <1>1, InAppend
<1>4. \A b \in Accounts : b # a => done'[b] = done[b]
  BY <1>1
<1>5. NoDup(done'[a])
  BY <1>1, <1>2, NoDupAppend DEF Custody, Ran
<1>6. \A k \in Jobs : (Queued(k)' <=> Queued(k)) /\ (Ran(k)' <=> Ran(k) \/ k = j)
  BY <1>1, <1>3, <1>4 DEF Queued, Ran
<1>7. \A b \in Accounts : NoDup(queue'[b]) /\ NoDup(done'[b])
  BY <1>1, <1>4, <1>5 DEF Custody
<1>8. \A v \in Workers : step'[v] = "busy" => v # w /\ step[v] = "busy"
  BY <1>1
<1>9. \A v \in Workers : step'[v] = "busy" => hand[v] \in Jobs /\ hand[v] # j /\ ~Ran(hand[v])
  BY <1>1, <1>8, JobQueueAssumption DEF Custody, TypeInv, LoopInv
<1>10. \A v \in Workers : step'[v] = "busy" => ~Ran(hand[v])'
  BY <1>1, <1>6, <1>9 DEF Ran
<1> QED BY <1>1, <1>2, <1>6, <1>7, <1>10 DEF Custody

\* Every step of the queue keeps each job in one place.
LEMMA NextCustody == TypeInv /\ Custody /\ [Next]_jqVars => Custody'
<1> SUFFICES ASSUME TypeInv, Custody, [Next]_jqVars PROVE Custody'
  OBVIOUS
<1> DEFINE Frame ==
      /\ UNCHANGED <<queue, done>>
      /\ \A w \in Workers : hand'[w] \in {hand[w], None}
      /\ \A w \in Workers : step'[w] = "busy" => step[w] = "busy" /\ hand'[w] = hand[w]
      /\ \A k \in Jobs : req'[k] \in Unsubmitted => req[k] \in Unsubmitted
<1>f. Frame => Custody'
  BY CustodyFrame
<1>t. /\ req \in [Jobs -> Open \cup Ended]
      /\ hand \in [Workers -> Jobs \cup {None}]
      /\ step \in [Workers -> {"off", "idle", "busy", "done", "pushed"}]
      /\ results \in [Jobs -> Seq(Reply)]
      /\ \A w \in Workers : step[w] \in {"done", "pushed"} => reply[w] \in Reply
  BY DEF TypeInv, TypeOK, LoopInv
<1> HIDE DEF Frame
<1>1. ASSUME NEW j \in Jobs, GateOpen(j) \/ GateClosed(j) \/ TimeOut(j) PROVE Custody'
  <2>1. Frame
    BY <1>1, <1>t DEF Frame, GateOpen, GateClosed, TimeOut, Unsubmitted, workerVars, history
  <2> QED BY <2>1, <1>f
<1>2. ASSUME NEW j \in Jobs, AwaitResult(j) PROVE Custody'
  <2>1. UNCHANGED <<queue, done, hand, step>>
    BY <1>2 DEF AwaitResult, workerVars, history
  <2>2. \A k \in Jobs : req'[k] \in Unsubmitted => req[k] \in Unsubmitted
    <3>1. CASE req' = [req EXCEPT ![j] = "waiting"]
      BY <3>1, <1>t DEF Unsubmitted
    <3>2. CASE results[j] # <<>> /\ req' = [req EXCEPT ![j] = Answered(j, Head(results[j]))]
      <4>1. Head(results[j]) \in Reply
        BY <3>2, <1>t, HeadTailProperties
      <4> QED BY <3>2, <4>1, <1>t DEF Unsubmitted, Reply, Answered
    <3> QED BY <1>2, <3>1, <3>2 DEF AwaitResult
  <2>3. Frame
    BY <2>1, <2>2 DEF Frame
  <2> QED BY <2>3, <1>f
<1>3. ASSUME NEW j \in Jobs, ResultExpires(j) PROVE Custody'
  <2>1. Frame
    BY <1>3 DEF Frame, ResultExpires, workerVars, history
  <2> QED BY <2>1, <1>f
<1>4. ASSUME NEW S \in SUBSET Jobs, RequestersDie(S) PROVE Custody'
  <2>1. Frame
    BY <1>4, <1>t DEF Frame, RequestersDie, Unsubmitted, workerVars, history
  <2> QED BY <2>1, <1>f
<1>5. ASSUME NEW w \in Workers, NEW a \in Accounts, EnterLoop(w, a) PROVE Custody'
  <2>1. Frame
    BY <1>5, <1>t DEF Frame, EnterLoop, clientVars, history
  <2> QED BY <2>1, <1>f
<1>6. ASSUME NEW w \in Workers, IdleOut(w) \/ WorkerDies(w) PROVE Custody'
  <2>1. Frame
    BY <1>6, <1>t DEF Frame, IdleOut, WorkerDies, OutOfLoop, clientVars, history
  <2> QED BY <2>1, <1>f
<1>7. ASSUME NEW w \in Workers, PushResult(w) PROVE Custody'
  <2>1. /\ UNCHANGED <<queue, done, hand>>
        /\ step' = [step EXCEPT ![w] = "pushed"] /\ reply[w] \in Reply
    BY <1>7, <1>t DEF PushResult, history
  <2>2. \A k \in Jobs : req'[k] \in Unsubmitted => req[k] \in Unsubmitted
    <3>1. CASE req' = [req EXCEPT ![hand[w]] = Answered(hand[w], reply[w])]
      BY <2>1, <3>1, <1>t DEF Unsubmitted, Reply, Answered
    <3>2. CASE UNCHANGED req
      BY <3>2
    <3> QED BY <1>7, <3>1, <3>2 DEF PushResult
  <2>3. Frame
    BY <2>1, <2>2, <1>t DEF Frame
  <2> QED BY <2>3, <1>f
<1>8. ASSUME NEW w \in Workers, ExpireResult(w) PROVE Custody'
  <2>1. Frame
    BY <1>8, <1>t DEF Frame, ExpireResult, BackToLoop, history
  <2> QED BY <2>1, <1>f
<1>9. ASSUME NEW w \in Workers, PushRaises(w) PROVE Custody'
  <2>1. UNCHANGED <<queue, done, req>>
    BY <1>9 DEF PushRaises, clientVars, history
  <2>2. CASE step' = [step EXCEPT ![w] = "done"] /\ UNCHANGED hand
    <3>1. Frame
      BY <2>1, <2>2, <1>t DEF Frame
    <3> QED BY <3>1, <1>f
  <2>3. CASE OutOfLoop(w)
    <3>1. Frame
      BY <2>1, <2>3, <1>t DEF Frame, OutOfLoop
    <3> QED BY <3>1, <1>f
  <2> QED BY <1>9, <2>2, <2>3 DEF PushRaises
<1>10. CASE UNCHANGED jqVars
  <2>1. Frame
    BY <1>10 DEF Frame, jqVars, clientVars, workerVars, history
  <2> QED BY <2>1, <1>f
<1> HIDE DEF Custody, TypeInv
<1> QED
  BY <1>1, <1>2, <1>3, <1>4, <1>5, <1>6, <1>7, <1>8, <1>9, <1>10,
     SubmitKeepsCustody, StopKeepsCustody, PopJobKeepsCustody, PopStopKeepsCustody,
     HandleKeepsCustody
  DEF Next, Request, Loop

\* Every job is nowhere, in its account's queue, in one hand, or has run.
THEOREM JobQueueCustody == Spec => []Custody
BY InitTypeInv, NextTypeInv, InitCustody, NextCustody, PTL DEF Spec

\* No MT5 operation runs twice for one request.
THEOREM JobQueueAtMostOnce == Spec => []AtMostOnce
<1>1. TypeInv /\ Custody => AtMostOnce
  <2> SUFFICES ASSUME TypeInv, Custody, NEW a \in Accounts,
                      NEW m \in DOMAIN done[a], NEW n \in DOMAIN done[a],
                      done[a][m] = done[a][n]
               PROVE  m = n
    BY DEF AtMostOnce
  <2>1. done[a] \in Seq(Jobs)
    BY DEF TypeInv, TypeOK
  <2>2. done[a][m] # STOP
    BY <2>1, ElementOfSeq, LenProperties, JobQueueAssumption
  <2> QED BY <2>2 DEF Custody, NoDup
<1> QED BY <1>1, JobQueueTypes, JobQueueCustody, PTL
-----------------------------------------------------------------------------
(* Answers.  What a requester has got was in a result list or in a hand    *)
(* before, so the invariant speaks of answers on their way too; Custody is *)
(* what keeps HandleJob from changing the outcome of an answered job.      *)

Earned == EarnedOnTheWay /\ AnswerEarned

\* A result that is there and that the handler of j answers with x.
Answers(j, x) ==
  /\ results[j] # <<>>
  /\ IF j \in Untested THEN x = "ok" ELSE x = "ok" => InSeq("ok", results[j])

\* Nothing is on its way before anything is submitted.
LEMMA InitEarned == Init => Earned
BY DEF Init, Earned, EarnedOnTheWay, AnswerEarned, InSeq

\* A step that runs no job and only moves answers: from a result list to the
\* requester, or out of the system.
LEMMA EarnedFrame ==
  ASSUME Earned,
         UNCHANGED <<outcome, done>>,
         \A w \in Workers : step'[w] \in {"done", "pushed"} =>
           /\ step[w] \in {"done", "pushed"} /\ hand'[w] = hand[w]
           /\ reply'[w] = "ok" => reply[w] = "ok",
         \A j \in Jobs :
           /\ results'[j] # <<>> => results[j] # <<>>
           /\ InSeq("ok", results'[j]) => InSeq("ok", results[j])
           /\ req'[j] = "ok" => req[j] = "ok" \/ Answers(j, "ok")
           /\ req'[j] = "fail" => req[j] = "fail" \/ Answers(j, "fail")
  PROVE  Earned'
<1>1. \A j \in Jobs : Ran(j)' <=> Ran(j)
  BY DEF Ran
<1>2. ASSUME NEW w \in Workers, step'[w] \in {"done", "pushed"}
      PROVE  Ran(hand[w])' /\ hand'[w] = hand[w]
  BY <1>2 DEF Earned, EarnedOnTheWay, Ran
<1>3. EarnedOnTheWay'
  BY <1>1, <1>2 DEF Earned, EarnedOnTheWay, Ran
<1>4. ASSUME NEW j \in Jobs, InSeq("ok", results[j]) PROVE results[j] # <<>>
  BY <1>4 DEF InSeq
<1>5. AnswerEarned'
  BY <1>1, <1>4 DEF Earned, EarnedOnTheWay, AnswerEarned, Answers
<1> QED BY <1>3, <1>5 DEF Earned

\* handle_job: the job had not run, so no answer of it existed.
LEMMA HandleKeepsEarned ==
  ASSUME TypeInv, Custody, Earned, NEW w \in Workers, NEW r \in Reply, HandleJob(w, r)
  PROVE  Earned'
<1> DEFINE j == hand[w]
<1> DEFINE a == AccountOf[j]
<1>1. /\ j \in Jobs /\ a \in Accounts /\ step[w] = "busy"
      /\ UNCHANGED <<req, results, hand>>
      /\ done' = [done EXCEPT ![a] = Append(done[a], j)]
      /\ done \in [Accounts -> Seq(Jobs)] /\ done[a] \in Seq(Jobs)
      /\ outcome' = [outcome EXCEPT ![j] = r]
      /\ outcome \in [Jobs -> Reply \cup {"none"}]
      /\ reply' = [reply EXCEPT ![w] = r]
      /\ reply \in [Workers -> Reply \cup {"none"}]
      /\ step' = [step EXCEPT ![w] = "done"]
      /\ step \in [Workers -> {"off", "idle", "busy", "done", "pushed"}]
      /\ AccountOf \in [Jobs -> Accounts]
  BY JobQueueAssumption DEF HandleJob, TypeInv, TypeOK, LoopInv, clientVars
<1>2. ~Ran(j)
  BY <1>1 DEF Custody
<1>3. \A k : InSeq(k, done'[a]) <=> InSeq(k, done[a]) \/ k = j
  BY <1>1, InAppend
<1>4. \A k \in Jobs : (Ran(k)' <=> Ran(k) \/ k = j) /\ (k # j => outcome'[k] = outcome[k])
  BY <1>1, <1>3 DEF Ran
<1>5. /\ results[j] = <<>> /\ ~InSeq("ok", results[j])
      /\ req[j] # "ok" /\ req[j] # "fail"
  BY <1>1, <1>2 DEF Earned, EarnedOnTheWay, AnswerEarned, InSeq
<1>6. ASSUME NEW v \in Workers, step'[v] \in {"done", "pushed"}
      PROVE  Ran(hand[v])' /\ (reply'[v] = "ok" => outcome'[hand'[v]] = "ok")
  <2>1. CASE v = w
    <3>1. hand'[v] = j /\ reply'[v] = r /\ outcome'[j] = r
      BY <1>1, <2>1
    <3>2. InSeq(j, done'[AccountOf[j]])
      BY <1>3
    <3> QED BY <3>1, <3>2 DEF Ran
  <2>2. CASE v # w
    <3>1. /\ step[v] \in {"done", "pushed"} /\ hand'[v] = hand[v] /\ reply'[v] = reply[v]
      BY <1>1, <1>6, <2>2
    <3>2. /\ Ran(hand[v]) /\ hand[v] \in Jobs
          /\ reply[v] = "ok" => outcome[hand[v]] = "ok"
      BY <3>1 DEF Earned, EarnedOnTheWay, TypeInv, LoopInv
    <3>3. PICK k \in Jobs : k = hand[v]
      BY <3>2
    <3>4. Ran(k)' /\ hand'[v] = k /\ k # j
      BY <1>1, <1>2, <1>4, <3>1, <3>2, <3>3
    <3>5. outcome'[k] = outcome[k]
      BY <1>4, <3>4
    <3> QED BY <3>1, <3>2, <3>3, <3>4, <3>5 DEF Ran
  <2> QED BY <2>1, <2>2
<1>7. EarnedOnTheWay'
  BY <1>1, <1>4, <1>5, <1>6 DEF Earned, EarnedOnTheWay, Ran
<1>8. AnswerEarned'
  BY <1>1, <1>4, <1>5 DEF Earned, AnswerEarned
<1> QED BY <1>7, <1>8 DEF Earned

\* push_result hands an earned answer to the requester or to the result list.
LEMMA PushKeepsEarned ==
  ASSUME TypeInv, Earned, NEW w \in Workers, PushResult(w)
  PROVE  Earned'
<1> PICK j : j = hand[w]
  OBVIOUS
<1> PICK r : r = reply[w]
  OBVIOUS
<1>1. /\ j \in Jobs /\ r \in Reply /\ step[w] = "done"
      /\ UNCHANGED <<hand, reply, outcome, done>>
      /\ step' = [step EXCEPT ![w] = "pushed"]
      /\ step \in [Workers -> {"off", "idle", "busy", "done", "pushed"}]
      /\ results \in [Jobs -> Seq(Reply)] /\ req \in [Jobs -> Open \cup Ended]
  BY DEF PushResult, TypeInv, TypeOK, LoopInv, history
<1>2. Ran(j) /\ (r = "ok" => outcome[j] = "ok")
  BY <1>1 DEF Earned, EarnedOnTheWay
<1>3. \A k \in Jobs : (Ran(k)' <=> Ran(k)) /\ outcome'[k] = outcome[k]
  BY <1>1 DEF Ran
<1>4. \A v \in Workers : step'[v] \in {"done", "pushed"} =>
        Ran(hand[v])' /\ (reply'[v] = "ok" => outcome'[hand'[v]] = "ok")
  BY <1>1 DEF Earned, EarnedOnTheWay, Ran
<1>5. CASE req' = [req EXCEPT ![j] = Answered(j, r)] /\ UNCHANGED results
  <2>1. EarnedOnTheWay'
    BY <1>1, <1>3, <1>4, <1>5 DEF Earned, EarnedOnTheWay
  <2>2. AnswerEarned'
    BY <1>1, <1>2, <1>3, <1>5 DEF Earned, AnswerEarned, Answered
  <2> QED BY <2>1, <2>2 DEF Earned
<1>6. CASE results' = [results EXCEPT ![j] = <<r>> \o results[j]] /\ UNCHANGED req
  <2>1. AnswerEarned'
    BY <1>3, <1>6 DEF Earned, AnswerEarned
  <2>2. InSeq("ok", results'[j]) => r = "ok" \/ InSeq("ok", results[j])
    <3>1. results'[j] = <<r>> \o results[j] /\ results[j] \in Seq(Reply)
      BY <1>1, <1>6
    <3>2. /\ DOMAIN results'[j] = 1..(1 + Len(results[j]))
          /\ results'[j][1] = r
          /\ \A n \in 2..(1 + Len(results[j])) : results'[j][n] = results[j][n - 1]
          /\ DOMAIN results[j] = 1..Len(results[j]) /\ Len(results[j]) \in Nat
      BY <1>1, <3>1, ConcatProperties, LenProperties
    <3>3. ASSUME NEW n \in DOMAIN results'[j], results'[j][n] = "ok"
          PROVE  r = "ok" \/ InSeq("ok", results[j])
      <4>1. CASE n = 1
        BY <3>2, <3>3, <4>1
      <4>2. CASE n # 1
        <5>1. n \in 2..(1 + Len(results[j])) /\ n - 1 \in DOMAIN results[j]
          BY <3>2, <3>3, <4>2
        <5>2. results[j][n - 1] = "ok"
          BY <3>2, <3>3, <5>1
        <5> QED BY <5>1, <5>2 DEF InSeq
      <4> QED BY <4>1, <4>2
    <3> QED BY <3>3 DEF InSeq
  <2>3. \A k \in Jobs : k # j => results'[k] = results[k]
    BY <1>1, <1>6
  <2>4. EarnedOnTheWay'
    <3>1. \A k \in Jobs : /\ results'[k] # <<>> => Ran(k)'
                          /\ InSeq("ok", results'[k]) => outcome'[k] = "ok"
      BY <1>2, <1>3, <2>2, <2>3 DEF Earned, EarnedOnTheWay
    <3> QED BY <1>1, <1>4, <3>1 DEF EarnedOnTheWay, Ran
  <2> QED BY <2>1, <2>4 DEF Earned
<1> QED BY <1>5, <1>6 DEF PushResult

\* Every step of the queue keeps the answers, told or on their way, earned.
LEMMA NextEarned == TypeInv /\ Custody /\ Earned /\ [Next]_jqVars => Earned'
<1> SUFFICES ASSUME TypeInv, Custody, Earned, [Next]_jqVars PROVE Earned'
  OBVIOUS
<1> DEFINE Hands ==
      \A w \in Workers : step'[w] \in {"done", "pushed"} =>
        /\ step[w] \in {"done", "pushed"} /\ hand'[w] = hand[w]
        /\ reply'[w] = "ok" => reply[w] = "ok"
<1> DEFINE Told ==
      \A j \in Jobs :
        /\ results'[j] # <<>> => results[j] # <<>>
        /\ InSeq("ok", results'[j]) => InSeq("ok", results[j])
        /\ req'[j] = "ok" => req[j] = "ok" \/ Answers(j, "ok")
        /\ req'[j] = "fail" => req[j] = "fail" \/ Answers(j, "fail")
<1>f. ASSUME UNCHANGED <<outcome, done>>, Hands, Told PROVE Earned'
  BY <1>f, EarnedFrame
<1>h. ASSUME UNCHANGED workerVars PROVE Hands
  BY <1>h DEF workerVars
<1>c. ASSUME UNCHANGED clientVars PROVE Told
  BY <1>c DEF clientVars
<1>t. /\ req \in [Jobs -> Open \cup Ended]
      /\ hand \in [Workers -> Jobs \cup {None}]
      /\ step \in [Workers -> {"off", "idle", "busy", "done", "pushed"}]
      /\ reply \in [Workers -> Reply \cup {"none"}]
      /\ results \in [Jobs -> Seq(Reply)]
  BY DEF TypeInv, TypeOK
<1>1. ASSUME NEW j \in Jobs, GateOpen(j) \/ GateClosed(j) \/ SubmitJob(j) \/ TimeOut(j)
      PROVE  Earned'
  <2>1. Told
    BY <1>1, <1>t DEF GateOpen, GateClosed, SubmitJob, TimeOut
  <2>2. UNCHANGED workerVars /\ UNCHANGED <<outcome, done>>
    BY <1>1 DEF GateOpen, GateClosed, SubmitJob, TimeOut, history
  <2> QED BY <2>1, <2>2, <1>f, <1>h
<1>2. ASSUME NEW j \in Jobs, AwaitResult(j) PROVE Earned'
  <2>1. UNCHANGED workerVars /\ UNCHANGED <<outcome, done>>
    BY <1>2 DEF AwaitResult, history
  <2>2. Told
    <3>1. CASE req' = [req EXCEPT ![j] = "waiting"] /\ UNCHANGED results
      BY <3>1, <1>t
    <3>2. CASE /\ results[j] # <<>> /\ SetResults(j, Tail(results[j]))
               /\ req' = [req EXCEPT ![j] = Answered(j, Head(results[j]))]
      <4>1. /\ \A x : InSeq(x, results[j]) <=> x = Head(results[j]) \/ InSeq(x, Tail(results[j]))
            /\ results' = [results EXCEPT ![j] = Tail(results[j])]
        BY <3>2, <1>t, InTail DEF SetResults
      <4>2. \A k \in Jobs : k # j => results'[k] = results[k] /\ req'[k] = req[k]
        BY <3>2, <4>1, <1>t
      <4>3. req'[j] = Answered(j, Head(results[j])) /\ InSeq(Head(results[j]), results[j])
        BY <3>2, <4>1, <1>t
      <4> QED BY <3>2, <4>1, <4>2, <4>3 DEF Answered, Answers
    <3> QED BY <1>2, <3>1, <3>2 DEF AwaitResult
  <2> QED BY <2>1, <2>2, <1>f, <1>h
<1>3. ASSUME NEW j \in Jobs, ResultExpires(j) PROVE Earned'
  <2>1. Told
    <3>1. UNCHANGED req /\ results' = [results EXCEPT ![j] = <<>>]
      BY <1>3 DEF ResultExpires, SetResults
    <3>2. ~InSeq("ok", <<>>)
      BY DEF InSeq
    <3> QED BY <3>1, <3>2, <1>t
  <2>2. UNCHANGED workerVars /\ UNCHANGED <<outcome, done>>
    BY <1>3 DEF ResultExpires, history
  <2> QED BY <2>1, <2>2, <1>f, <1>h
<1>4. ASSUME NEW S \in SUBSET Jobs, RequestersDie(S) PROVE Earned'
  <2>1. Told
    BY <1>4, <1>t DEF RequestersDie
  <2>2. UNCHANGED workerVars /\ UNCHANGED <<outcome, done>>
    BY <1>4 DEF RequestersDie, history
  <2> QED BY <2>1, <2>2, <1>f, <1>h
<1>5. ASSUME NEW a \in Accounts, SubmitStop(a) PROVE Earned'
  BY <1>5, <1>f, <1>h, <1>c DEF SubmitStop
<1>6. ASSUME NEW w \in Workers,
             \/ \E a \in Accounts : EnterLoop(w, a)
             \/ PopJob(w) \/ PopStop(w) \/ IdleOut(w) \/ WorkerDies(w)
      PROVE  Earned'
  <2>1. UNCHANGED clientVars /\ UNCHANGED <<outcome, done>>
    BY <1>6 DEF EnterLoop, PopJob, PopStop, IdleOut, WorkerDies, history
  <2>2. Hands
    BY <1>6, <1>t DEF EnterLoop, PopJob, PopStop, IdleOut, WorkerDies, OutOfLoop
  <2> QED BY <2>1, <2>2, <1>f, <1>c
<1>7. ASSUME NEW w \in Workers, ExpireResult(w) PROVE Earned'
  <2>1. Hands
    BY <1>7, <1>t DEF ExpireResult, BackToLoop
  <2>2. Told /\ UNCHANGED <<outcome, done>>
    BY <1>7 DEF ExpireResult, history
  <2> QED BY <2>1, <2>2, <1>f
<1>8. ASSUME NEW w \in Workers, PushRaises(w) PROVE Earned'
  <2>1. UNCHANGED clientVars /\ UNCHANGED <<outcome, done>> /\ step[w] \in {"done", "pushed"}
    BY <1>8 DEF PushRaises, history
  <2>2. Hands
    <3>1. CASE /\ reply' = [reply EXCEPT ![w] = "fail"]
               /\ step' = [step EXCEPT ![w] = "done"]
               /\ UNCHANGED hand
      BY <2>1, <3>1, <1>t
    <3>2. CASE OutOfLoop(w)
      BY <3>2, <1>t DEF OutOfLoop
    <3> QED BY <1>8, <3>1, <3>2 DEF PushRaises
  <2> QED BY <2>1, <2>2, <1>f, <1>c
<1>9. CASE UNCHANGED jqVars
  BY <1>9, <1>f, <1>h, <1>c DEF jqVars, history
<1> HIDE DEF Earned, Custody, TypeInv
<1> QED
  BY <1>1, <1>2, <1>3, <1>4, <1>5, <1>6, <1>7, <1>8, <1>9,
     HandleKeepsEarned, PushKeepsEarned
  DEF Next, Request, Loop

\* A requester is told only what its own job earned.
THEOREM JobQueueAnswerEarned == Spec => []AnswerEarned
<1>1. Earned => AnswerEarned
  BY DEF Earned
<1> QED BY <1>1, InitTypeInv, NextTypeInv, InitCustody, NextCustody, InitEarned, NextEarned,
           PTL DEF Spec

-----------------------------------------------------------------------------
(* No requester sleeps on its result.                                      *)

\* LPUSH hands the result to a blocked requester, and BLPOP blocks only on
\* an empty list: the two commands cannot miss each other.
THEOREM JobQueueNoMissedResult == Spec => []NoMissedResult
<1>1. Init => NoMissedResult
  BY DEF Init, NoMissedResult
<1>2. TypeInv /\ NoMissedResult /\ [Next]_jqVars => NoMissedResult'
  <2> SUFFICES ASSUME TypeInv, NoMissedResult, [Next]_jqVars, NEW k \in Jobs,
                      req'[k] = "waiting"
               PROVE  results'[k] = <<>>
    BY DEF NoMissedResult
  <2>t. /\ req \in [Jobs -> Open \cup Ended] /\ results \in [Jobs -> Seq(Reply)]
        /\ req[k] = "waiting" => results[k] = <<>>
        /\ \A w \in Workers : step[w] = "done" => hand[w] \in Jobs /\ reply[w] \in Reply
    BY DEF TypeInv, TypeOK, LoopInv, NoMissedResult
  <2>1. CASE UNCHANGED <<req, results>>
    BY <2>1, <2>t
  <2>2. ASSUME NEW j \in Jobs, GateOpen(j) \/ GateClosed(j) \/ SubmitJob(j) \/ TimeOut(j)
        PROVE  results'[k] = <<>>
    BY <2>2, <2>t DEF GateOpen, GateClosed, SubmitJob, TimeOut
  <2>3. ASSUME NEW j \in Jobs, AwaitResult(j) PROVE results'[k] = <<>>
    <3>1. CASE /\ results[j] = <<>> /\ req' = [req EXCEPT ![j] = "waiting"]
               /\ UNCHANGED results
      BY <3>1, <2>t
    <3>2. CASE /\ results[j] # <<>> /\ SetResults(j, Tail(results[j]))
               /\ req' = [req EXCEPT ![j] = Answered(j, Head(results[j]))]
      <4>1. Head(results[j]) \in Reply
        BY <3>2, <2>t, HeadTailProperties
      <4> QED BY <3>2, <4>1, <2>t DEF SetResults, Reply, Answered
    <3> QED BY <2>3, <3>1, <3>2 DEF AwaitResult
  <2>4. ASSUME NEW j \in Jobs, ResultExpires(j) PROVE results'[k] = <<>>
    BY <2>4, <2>t DEF ResultExpires, SetResults
  <2>5. ASSUME NEW S \in SUBSET Jobs, RequestersDie(S) PROVE results'[k] = <<>>
    BY <2>5, <2>t DEF RequestersDie
  <2>6. ASSUME NEW w \in Workers, PushResult(w) PROVE results'[k] = <<>>
    <3>1. CASE req' = [req EXCEPT ![hand[w]] = Answered(hand[w], reply[w])] /\ UNCHANGED results
      BY <3>1, <2>t, <2>6 DEF PushResult, Reply, Answered
    <3>2. CASE /\ req[hand[w]] # "waiting" /\ UNCHANGED req
               /\ results' = [results EXCEPT ![hand[w]] = <<reply[w]>> \o @]
      BY <3>2, <2>t
    <3> QED BY <2>6, <3>1, <3>2 DEF PushResult
  <2>7. ASSUME NEW w \in Workers,
               \/ \E a \in Accounts : EnterLoop(w, a)
               \/ \E r \in Reply : HandleJob(w, r)
               \/ PopJob(w) \/ PopStop(w) \/ IdleOut(w) \/ WorkerDies(w)
               \/ ExpireResult(w) \/ PushRaises(w)
        PROVE  UNCHANGED <<req, results>>
    BY <2>7 DEF EnterLoop, HandleJob, PopJob, PopStop, IdleOut, WorkerDies, ExpireResult,
                PushRaises, clientVars
  <2>8. ASSUME NEW a \in Accounts, SubmitStop(a) PROVE UNCHANGED <<req, results>>
    BY <2>8 DEF SubmitStop, clientVars
  <2>9. CASE UNCHANGED jqVars
    BY <2>1, <2>9 DEF jqVars, clientVars
  <2> HIDE DEF TypeInv
  <2> QED BY <2>1, <2>2, <2>3, <2>4, <2>5, <2>6, <2>7, <2>8, <2>9 DEF Next, Request, Loop
<1> QED BY <1>1, <1>2, InitTypeInv, NextTypeInv, PTL DEF Spec
-----------------------------------------------------------------------------
(* First in, first out.                                                    *)

\* q is what is left of s once its first entries have been taken.
Rest(q, s) ==
  /\ Len(q) <= Len(s)
  /\ \A n \in DOMAIN q : q[n] = s[n + Len(s) - Len(q)]

\* LPUSH adds to the queue what it adds to the record of all pushes.
LEMMA RestAppend ==
  ASSUME NEW S, NEW q \in Seq(S), NEW s \in Seq(S), NEW x \in S, Rest(q, s)
  PROVE  Rest(Append(q, x), Append(s, x))
<1>1. /\ DOMAIN q = 1..Len(q) /\ Len(q) \in Nat /\ Len(s) \in Nat /\ Len(q) <= Len(s)
      /\ DOMAIN Append(q, x) = 1..(Len(q) + 1)
      /\ Len(Append(q, x)) = Len(q) + 1 /\ Len(Append(s, x)) = Len(s) + 1
      /\ \A i \in 1..Len(q) : Append(q, x)[i] = q[i]
      /\ \A i \in 1..Len(s) : Append(s, x)[i] = s[i]
      /\ Append(q, x)[Len(q) + 1] = x /\ Append(s, x)[Len(s) + 1] = x
  BY AppendProperties, LenProperties DEF Rest
<1>2. ASSUME NEW n \in 1..(Len(q) + 1)
      PROVE  Append(q, x)[n] = Append(s, x)[n + (Len(s) + 1) - (Len(q) + 1)]
  <2>1. CASE n = Len(q) + 1
    <3>1. n + (Len(s) + 1) - (Len(q) + 1) = Len(s) + 1
      BY <1>1, <2>1
    <3> QED BY <1>1, <2>1, <3>1
  <2>2. CASE n \in 1..Len(q)
    <3> DEFINE m == n + Len(s) - Len(q)
    <3>1. m \in 1..Len(s) /\ n + (Len(s) + 1) - (Len(q) + 1) = m
      BY <1>1, <2>2
    <3>2. q[n] = s[m]
      BY <1>1, <2>2 DEF Rest
    <3> QED BY <1>1, <2>2, <3>1, <3>2
  <2> QED BY <1>1, <2>1, <2>2
<1> QED BY <1>1, <1>2 DEF Rest

\* BRPOP takes the oldest entry.
LEMMA RestTail ==
  ASSUME NEW S, NEW q \in Seq(S), NEW s \in Seq(S), q # <<>>, Rest(q, s)
  PROVE  Rest(Tail(q), s)
<1>1. /\ DOMAIN q = 1..Len(q) /\ Len(q) \in Nat /\ Len(q) > 0 /\ Len(s) \in Nat
      /\ Len(q) <= Len(s)
  BY LenProperties, EmptySeq DEF Rest
<1>2. /\ Tail(q) \in Seq(S) /\ Len(Tail(q)) = Len(q) - 1
      /\ \A i \in 1..Len(Tail(q)) : Tail(q)[i] = q[i + 1]
      /\ DOMAIN Tail(q) = 1..(Len(q) - 1)
  BY HeadTailProperties, LenProperties
<1>3. ASSUME NEW n \in 1..(Len(q) - 1) PROVE Tail(q)[n] = s[n + Len(s) - (Len(q) - 1)]
  <2>1. /\ n + 1 \in DOMAIN q /\ Tail(q)[n] = q[n + 1]
        /\ (n + 1) + Len(s) - Len(q) = n + Len(s) - (Len(q) - 1)
    BY <1>1, <1>2
  <2>2. q[n + 1] = s[(n + 1) + Len(s) - Len(q)]
    BY <2>1 DEF Rest
  <2> QED BY <2>1, <2>2
<1> QED BY <1>1, <1>2, <1>3 DEF Rest

\* Jobs and STOPs leave a queue in the order in which they were pushed.
THEOREM JobQueueTakenInOrder == Spec => []TakenInOrder
<1>1. Init => TakenInOrder
  BY EmptySeq DEF Init, TakenInOrder
<1>2. TypeInv /\ TakenInOrder /\ [Next]_jqVars => TakenInOrder'
  <2> SUFFICES ASSUME TypeInv, TakenInOrder, [Next]_jqVars, NEW b \in Accounts
               PROVE  Rest(queue'[b], sent'[b])
    BY DEF TakenInOrder, Rest
  <2>t. /\ queue \in [Accounts -> Seq(Jobs \cup {STOP})]
        /\ sent \in [Accounts -> Seq(Jobs \cup {STOP})]
        /\ \A a \in Accounts : Rest(queue[a], sent[a])
    BY DEF TypeInv, TypeOK, TakenInOrder, Rest
  <2>1. CASE UNCHANGED <<queue, sent>>
    BY <2>1, <2>t
  <2>2. ASSUME NEW a \in Accounts, NEW x \in Jobs \cup {STOP}, Push(a, x)
        PROVE  Rest(queue'[b], sent'[b])
    <3>1. Rest(Append(queue[a], x), Append(sent[a], x))
      BY <2>t, RestAppend
    <3> QED BY <2>2, <2>t, <3>1 DEF Push
  <2>3. ASSUME NEW w \in Workers, HasNext(w), PopQueue(w), UNCHANGED sent
        PROVE  Rest(queue'[b], sent'[b])
    <3>1. serves[w] \in Accounts
      BY <2>3, PopTypes
    <3>2. Rest(Tail(queue[serves[w]]), sent[serves[w]])
      BY <2>3, <2>t, <3>1, RestTail DEF HasNext
    <3> QED BY <2>3, <2>t, <3>1, <3>2 DEF PopQueue
  <2>4. ASSUME NEW j \in Jobs, SubmitJob(j) PROVE Rest(queue'[b], sent'[b])
    BY <2>2, <2>4, JobQueueAssumption DEF SubmitJob
  <2>5. ASSUME NEW a \in Accounts, SubmitStop(a) PROVE Rest(queue'[b], sent'[b])
    BY <2>2, <2>5 DEF SubmitStop
  <2>6. ASSUME NEW w \in Workers, PopJob(w) \/ PopStop(w) PROVE Rest(queue'[b], sent'[b])
    BY <2>3, <2>6 DEF PopJob, PopStop, history
  <2>7. ASSUME NEW j \in Jobs,
               \/ GateOpen(j) \/ GateClosed(j) \/ AwaitResult(j) \/ TimeOut(j)
               \/ ResultExpires(j)
        PROVE  UNCHANGED <<queue, sent>>
    BY <2>7 DEF GateOpen, GateClosed, AwaitResult, TimeOut, ResultExpires, history
  <2>8. ASSUME NEW S \in SUBSET Jobs, RequestersDie(S) PROVE UNCHANGED <<queue, sent>>
    BY <2>8 DEF RequestersDie, history
  <2>9. ASSUME NEW w \in Workers,
               \/ \E a \in Accounts : EnterLoop(w, a)
               \/ \E r \in Reply : HandleJob(w, r)
               \/ IdleOut(w) \/ WorkerDies(w) \/ PushResult(w) \/ ExpireResult(w)
               \/ PushRaises(w)
        PROVE  UNCHANGED <<queue, sent>>
    BY <2>9 DEF EnterLoop, HandleJob, IdleOut, WorkerDies, PushResult, ExpireResult,
                PushRaises, history
  <2>10. CASE UNCHANGED jqVars
    BY <2>1, <2>10 DEF jqVars, history
  <2> HIDE DEF TypeInv
  <2> QED BY <2>1, <2>4, <2>5, <2>6, <2>7, <2>8, <2>9, <2>10 DEF Next, Request, Loop
<1> QED BY <1>1, <1>2, InitTypeInv, NextTypeInv, PTL DEF Spec

-----------------------------------------------------------------------------
(* In order.  Several workers may pop one queue; while no two of them run   *)
(* a job of one account at a time, its jobs run in the order of the queue.  *)

Taken(a) == Len(sent[a]) - Len(queue[a])

\* What has run, before entry q of all that was pushed.
RanBefore(a, q) ==
  \A m \in DOMAIN done[a] : \E p \in 1..(q - 1) : sent[a][p] = done[a][m]

\* The job in a worker's hand was taken from its queue after all that have run.
HeldLast(w) ==
  LET a == serves[w] IN
    step[w] = "busy" =>
      /\ AccountOf[hand[w]] = a
      /\ \E q \in 1..Taken(a) : sent[a][q] = hand[w] /\ RanBefore(a, q)

Ordered ==
  /\ RunInOrder
  /\ \A a \in Accounts : RanBefore(a, Taken(a) + 1)
  /\ \A w \in Workers : HeldLast(w)

OneAtATime ==
  \A v, w \in Workers : step[v] = "busy" /\ step[w] = "busy" /\ serves[v] = serves[w] => v = w

LEMMA InitOrdered == Init => Ordered
<1> SUFFICES ASSUME Init PROVE Ordered
  OBVIOUS
<1>1. \A a \in Accounts : done[a] = <<>> /\ DOMAIN done[a] = {}
  BY EmptySeq, LenProperties DEF Init
<1>2. \A w \in Workers : step[w] = "off"
  BY DEF Init
<1> QED BY <1>1, <1>2 DEF Ordered, RunInOrder, RanBefore, HeldLast

\* Entries that are taken keep their place in the record of all pushes.
Grows ==
  \A a \in Accounts :
    /\ Taken(a) \in Nat /\ Taken(a)' \in Nat /\ Taken(a) <= Taken(a)'
    /\ 1..Taken(a) \subseteq DOMAIN sent[a]
    /\ \A p \in DOMAIN sent[a] : p \in DOMAIN sent'[a] /\ sent'[a][p] = sent[a][p]

LEMMA RanBeforeGrows ==
  ASSUME Grows, UNCHANGED done, NEW a \in Accounts, NEW q \in 1..(Taken(a) + 1), RanBefore(a, q)
  PROVE  \A k \in Nat : q <= k =>
           \A m \in DOMAIN done'[a] : \E p \in 1..(k - 1) : sent'[a][p] = done'[a][m]
<1> SUFFICES ASSUME NEW k \in Nat, q <= k, NEW m \in DOMAIN done[a]
             PROVE  \E p \in 1..(k - 1) : sent'[a][p] = done[a][m]
  OBVIOUS
<1>1. PICK p \in 1..(q - 1) : sent[a][p] = done[a][m]
  BY DEF RanBefore
<1>2. Taken(a) \in Nat
  BY DEF Grows
<1>3. p \in 1..Taken(a) /\ p \in 1..(k - 1)
  BY <1>2
<1>4. sent'[a][p] = sent[a][p]
  BY <1>3 DEF Grows
<1> QED BY <1>1, <1>3, <1>4

\* What has run was pushed and taken, so pushing and taking more changes nothing for it.
LEMMA OrderedFrame ==
  ASSUME TypeInv, Ordered, Grows, UNCHANGED done,
         \A w \in Workers : step'[w] = "busy" =>
           \/ step[w] = "busy" /\ hand'[w] = hand[w] /\ serves'[w] = serves[w]
           \/ HeldLast(w)'
  PROVE  Ordered'
<1>1. RunInOrder'
  <2> SUFFICES ASSUME NEW a \in Accounts, NEW m \in DOMAIN done[a], NEW n \in DOMAIN done[a], m < n
               PROVE  \E p, q \in DOMAIN sent'[a] :
                        p < q /\ sent'[a][p] = done[a][m] /\ sent'[a][q] = done[a][n]
    BY DEF RunInOrder
  <2>1. PICK p \in DOMAIN sent[a], q \in DOMAIN sent[a] :
          p < q /\ sent[a][p] = done[a][m] /\ sent[a][q] = done[a][n]
    BY DEF Ordered, RunInOrder
  <2>2. /\ p \in DOMAIN sent'[a] /\ sent'[a][p] = sent[a][p]
        /\ q \in DOMAIN sent'[a] /\ sent'[a][q] = sent[a][q]
    BY DEF Grows
  <2> QED BY <2>1, <2>2
<1>2. ASSUME NEW a \in Accounts PROVE RanBefore(a, Taken(a) + 1)'
  <2>1. /\ Taken(a) + 1 <= Taken(a)' + 1 /\ Taken(a) + 1 \in 1..(Taken(a) + 1)
        /\ Taken(a)' + 1 \in Nat
    BY DEF Grows
  <2>2. RanBefore(a, Taken(a) + 1)
    BY DEF Ordered
  <2> QED BY <2>1, <2>2, RanBeforeGrows DEF RanBefore
<1>3. ASSUME NEW w \in Workers, step[w] = "busy", hand'[w] = hand[w], serves'[w] = serves[w]
      PROVE  HeldLast(w)'
  <2> PICK a \in Accounts : a = serves[w]
    BY <1>3 DEF TypeInv, TypeOK, LoopInv
  <2>1. AccountOf[hand[w]] = a
    BY <1>3 DEF Ordered, HeldLast
  <2>2. PICK q \in 1..Taken(a) : sent[a][q] = hand[w] /\ RanBefore(a, q)
    BY <1>3 DEF Ordered, HeldLast
  <2>3. Taken(a) \in Nat /\ Taken(a)' \in Nat /\ Taken(a) <= Taken(a)'
    BY DEF Grows
  <2>4. q \in 1..(Taken(a) + 1) /\ q \in Nat /\ q \in 1..Taken(a)'
    BY <2>3
  <2>5. sent'[a][q] = sent[a][q]
    BY DEF Grows
  <2>6. \A m \in DOMAIN done'[a] : \E p \in 1..(q - 1) : sent'[a][p] = done'[a][m]
    BY <2>2, <2>4, RanBeforeGrows
  <2>7. RanBefore(a, q)'
    BY <2>6 DEF RanBefore
  <2> QED BY <1>3, <2>1, <2>2, <2>4, <2>5, <2>7 DEF HeldLast
<1> QED BY <1>1, <1>2, <1>3 DEF Ordered, HeldLast

LEMMA TakenTypes ==
  ASSUME TypeInv, TakenInOrder, NEW a \in Accounts
  PROVE  /\ Taken(a) \in Nat /\ Len(queue[a]) \in Nat /\ Len(sent[a]) \in Nat
         /\ DOMAIN sent[a] = 1..Len(sent[a]) /\ 1..Taken(a) \subseteq DOMAIN sent[a]
<1>1. /\ queue[a] \in Seq(Jobs \cup {STOP}) /\ sent[a] \in Seq(Jobs \cup {STOP})
      /\ Len(queue[a]) <= Len(sent[a])
  BY DEF TypeInv, TypeOK, TakenInOrder
<1>2. Len(queue[a]) \in Nat /\ Len(sent[a]) \in Nat /\ DOMAIN sent[a] = 1..Len(sent[a])
  BY <1>1, LenProperties
<1>3. Taken(a) \in Nat /\ Taken(a) <= Len(sent[a])
  <2>1. \A k, n \in Nat : k <= n => n - k \in Nat /\ n - k <= n
    OBVIOUS
  <2> QED BY <1>1, <1>2, <2>1 DEF Taken
<1>4. \A p \in 1..Taken(a) : p \in 1..Len(sent[a])
  BY <1>2, <1>3
<1> QED BY <1>2, <1>3, <1>4

\* Pushing takes nothing.
LEMMA PushGrows ==
  ASSUME TypeInv, TakenInOrder, NEW a \in Accounts, NEW x \in Jobs \cup {STOP}, Push(a, x)
  PROVE  Grows
<1> SUFFICES ASSUME NEW b \in Accounts
             PROVE  /\ Taken(b) \in Nat /\ Taken(b)' \in Nat /\ Taken(b) <= Taken(b)'
                    /\ 1..Taken(b) \subseteq DOMAIN sent[b]
                    /\ \A p \in DOMAIN sent[b] : p \in DOMAIN sent'[b] /\ sent'[b][p] = sent[b][p]
  BY DEF Grows
<1>1. queue \in [Accounts -> Seq(Jobs \cup {STOP})] /\ sent \in [Accounts -> Seq(Jobs \cup {STOP})]
  BY DEF TypeInv, TypeOK
<1>2. CASE b # a
  <2>1. queue'[b] = queue[b] /\ sent'[b] = sent[b]
    BY <1>1, <1>2 DEF Push
  <2>2. Taken(b)' = Taken(b)
    BY <2>1 DEF Taken
  <2>3. Taken(b) \in Nat /\ 1..Taken(b) \subseteq DOMAIN sent[b]
    BY TakenTypes
  <2> QED BY <2>1, <2>2, <2>3
<1>3. CASE b = a
  <2>1. queue'[b] = Append(queue[b], x) /\ sent'[b] = Append(sent[b], x)
    BY <1>1, <1>3 DEF Push
  <2>2. /\ Len(queue'[b]) = Len(queue[b]) + 1 /\ Len(sent'[b]) = Len(sent[b]) + 1
        /\ DOMAIN sent'[b] = 1..(Len(sent[b]) + 1)
        /\ \A p \in 1..Len(sent[b]) : sent'[b][p] = sent[b][p]
    BY <1>1, <2>1, AppendProperties, LenProperties
  <2>3. /\ Taken(b) \in Nat /\ Len(queue[b]) \in Nat /\ Len(sent[b]) \in Nat
        /\ DOMAIN sent[b] = 1..Len(sent[b]) /\ 1..Taken(b) \subseteq DOMAIN sent[b]
    BY TakenTypes
  <2>4. Taken(b)' = Taken(b)
    BY <2>2, <2>3 DEF Taken
  <2> QED BY <2>2, <2>3, <2>4
<1> QED BY <1>2, <1>3

\* Taking an entry takes one.
LEMMA PopGrows ==
  ASSUME TypeInv, TakenInOrder, NEW w \in Workers, HasNext(w), PopQueue(w), UNCHANGED sent
  PROVE  /\ Grows /\ serves[w] \in Accounts
         /\ Taken(serves[w]) + 1 \in DOMAIN sent[serves[w]]
         /\ sent[serves[w]][Taken(serves[w]) + 1] = Head(queue[serves[w]])
         /\ Len(sent[serves[w]]) - Len(queue'[serves[w]]) = Taken(serves[w]) + 1
<1> DEFINE a == serves[w]
<1>1. /\ a \in Accounts /\ queue \in [Accounts -> Seq(Jobs \cup {STOP})] /\ queue[a] # <<>>
  BY PopTypes DEF TypeInv, TypeOK, HasNext
<1>2. Head(queue[a]) = queue[a][1] /\ Len(Tail(queue[a])) = Len(queue[a]) - 1 /\ Len(queue[a]) > 0
  BY <1>1, HeadTailProperties, LenProperties, EmptySeq
<1>3. /\ queue'[a] = Tail(queue[a]) /\ \A b \in Accounts : b # a => queue'[b] = queue[b]
  BY <1>1 DEF PopQueue
<1>4. /\ Taken(a) \in Nat /\ Len(queue[a]) \in Nat /\ Len(sent[a]) \in Nat
      /\ DOMAIN sent[a] = 1..Len(sent[a]) /\ DOMAIN queue[a] = 1..Len(queue[a])
  BY <1>1, TakenTypes, LenProperties
<1>5. queue[a][1] = sent[a][1 + Len(sent[a]) - Len(queue[a])]
  <2>1. 1 \in DOMAIN queue[a]
    BY <1>2, <1>4
  <2> QED BY <1>1, <2>1 DEF TakenInOrder
<1>6. /\ 1 + Len(sent[a]) - Len(queue[a]) = Taken(a) + 1 /\ Taken(a) + 1 \in DOMAIN sent[a]
      /\ Len(sent[a]) - Len(queue'[a]) = Taken(a) + 1
  <2> DEFINE k == Len(queue[a])
             n == Len(sent[a])
  <2>1. k \in Nat /\ n \in Nat /\ k > 0 /\ Len(queue'[a]) = k - 1 /\ Taken(a) = n - k /\ n - k \in Nat
    BY <1>2, <1>3, <1>4 DEF Taken
  <2> HIDE DEF k, n
  <2>2. 1 + n - k = (n - k) + 1 /\ n - (k - 1) = (n - k) + 1 /\ (n - k) + 1 \in 1..n
    BY <2>1
  <2> QED BY <1>4, <2>1, <2>2 DEF k, n
<1>7. ASSUME NEW b \in Accounts
      PROVE  /\ Taken(b) \in Nat /\ Taken(b)' \in Nat /\ Taken(b) <= Taken(b)'
             /\ 1..Taken(b) \subseteq DOMAIN sent[b]
  <2>1. Taken(b) \in Nat /\ 1..Taken(b) \subseteq DOMAIN sent[b]
    BY TakenTypes
  <2>2. CASE b = a
    <3>1. Taken(b)' = Taken(b) + 1
      BY <1>6, <2>2 DEF Taken
    <3> QED BY <2>1, <3>1
  <2>3. CASE b # a
    <3>1. Taken(b)' = Taken(b)
      BY <1>3, <2>3 DEF Taken
    <3> QED BY <2>1, <3>1
  <2> QED BY <2>1, <2>2, <2>3
<1>8. Grows
  BY <1>7 DEF Grows
<1> QED BY <1>1, <1>2, <1>5, <1>6, <1>8

\* A worker takes a job after all that have run, and keeps it in its hand.
LEMMA PopJobOrdered ==
  ASSUME TypeInv, Custody, TakenInOrder, Ordered, NEW w \in Workers, PopJob(w)
  PROVE  Ordered'
<1> PICK a \in Accounts : a = serves[w]
  BY PopTypes DEF PopJob
<1>1. /\ HasNext(w) /\ PopQueue(w) /\ UNCHANGED <<sent, done, serves>>
      /\ Head(queue[a]) # STOP
      /\ hand' = [hand EXCEPT ![w] = Head(queue[a])] /\ step' = [step EXCEPT ![w] = "busy"]
  BY DEF PopJob, history
<1>2. /\ Grows /\ Taken(a) + 1 \in DOMAIN sent[a] /\ sent[a][Taken(a) + 1] = Head(queue[a])
      /\ Taken(a)' = Taken(a) + 1
  <2>1. /\ Grows /\ Taken(a) + 1 \in DOMAIN sent[a] /\ sent[a][Taken(a) + 1] = Head(queue[a])
        /\ Len(sent[a]) - Len(queue'[a]) = Taken(a) + 1
    BY <1>1, PopGrows
  <2> QED BY <1>1, <2>1 DEF Taken
<1>3. AccountOf[Head(queue[a])] = a
  <2>1. /\ queue[a] \in Seq(Jobs \cup {STOP}) /\ queue[a] # <<>>
        /\ Head(queue[a]) \in Jobs
    BY <1>1, PopTypes DEF TypeInv, TypeOK, HasNext
  <2>2. InSeq(Head(queue[a]), queue[a])
    BY <2>1, InTail
  <2> QED BY <2>1, <2>2 DEF Custody
<1>4. /\ step \in [Workers -> {"off", "idle", "busy", "done", "pushed"}]
      /\ hand \in [Workers -> Jobs \cup {None}]
  BY DEF TypeInv, TypeOK
<1>5. HeldLast(w)'
  <2> DEFINE q == Taken(a) + 1
  <2>1. Taken(a) \in Nat /\ q \in 1..Taken(a)' /\ q \in 1..(Taken(a) + 1)
    BY <1>2 DEF Grows
  <2>2. RanBefore(a, Taken(a) + 1)
    BY DEF Ordered
  <2>3. \A m \in DOMAIN done'[a] : \E p \in 1..((Taken(a) + 1) - 1) : sent'[a][p] = done'[a][m]
    BY <1>1, <2>2 DEF RanBefore
  <2>4. PICK k \in Nat : k = Taken(a) + 1
    BY <2>1
  <2>5. RanBefore(a, k)'
    BY <2>3, <2>4 DEF RanBefore
  <2>6. hand'[w] = Head(queue[a]) /\ serves'[w] = a
    BY <1>1, <1>4
  <2>7. k \in 1..Taken(a)' /\ sent'[a][k] = hand'[w]
    BY <1>1, <1>2, <2>1, <2>4, <2>6
  <2> QED BY <1>3, <2>5, <2>6, <2>7 DEF HeldLast
<1>6. ASSUME NEW v \in Workers, step'[v] = "busy"
      PROVE  \/ step[v] = "busy" /\ hand'[v] = hand[v] /\ serves'[v] = serves[v]
             \/ HeldLast(v)'
  BY <1>1, <1>4, <1>5, <1>6
<1> QED BY <1>1, <1>2, <1>6, OrderedFrame

\* A job that runs alone for its account runs after all that have run.
LEMMA HandleOrdered ==
  ASSUME TypeInv, TakenInOrder, Ordered, OneAtATime, NEW w \in Workers, NEW r \in Reply,
         HandleJob(w, r)
  PROVE  Ordered'
<1> PICK a \in Accounts : a = serves[w]
  BY DEF HandleJob, TypeInv, TypeOK, LoopInv
<1> PICK j \in Jobs : j = hand[w]
  BY DEF HandleJob, TypeInv, TypeOK, LoopInv
<1>1. step[w] = "busy" /\ AccountOf[j] = a
  BY DEF HandleJob, Ordered, HeldLast
<1>2. PICK q \in 1..Taken(a) : sent[a][q] = j /\ RanBefore(a, q)
  BY <1>1 DEF Ordered, HeldLast
<1>3. /\ done' = [done EXCEPT ![a] = Append(done[a], j)] /\ step' = [step EXCEPT ![w] = "done"]
      /\ UNCHANGED <<queue, sent, serves, hand>>
  BY <1>1 DEF HandleJob
<1>4. /\ done \in [Accounts -> Seq(Jobs)]
      /\ step \in [Workers -> {"off", "idle", "busy", "done", "pushed"}]
  BY DEF TypeInv, TypeOK
<1>5. \A b \in Accounts : Taken(b)' = Taken(b) /\ (b # a => done'[b] = done[b])
  BY <1>3, <1>4 DEF Taken
<1>6. /\ Len(done[a]) \in Nat /\ DOMAIN done[a] = 1..Len(done[a])
      /\ DOMAIN done'[a] = 1..(Len(done[a]) + 1)
      /\ \A m \in DOMAIN done[a] : done'[a][m] = done[a][m]
      /\ done'[a][Len(done[a]) + 1] = j
  BY <1>3, <1>4, AppendProperties, LenProperties
<1>7. /\ Taken(a) \in Nat /\ 1..Taken(a) \subseteq DOMAIN sent[a] /\ q \in Nat
  BY TakenTypes
<1>8. RunInOrder'
  <2> SUFFICES ASSUME NEW b \in Accounts, NEW m \in DOMAIN done'[b], NEW n \in DOMAIN done'[b], m < n
               PROVE  \E p, k \in DOMAIN sent[b] :
                        p < k /\ sent[b][p] = done'[b][m] /\ sent[b][k] = done'[b][n]
    BY <1>3 DEF RunInOrder
  <2>1. CASE m \in DOMAIN done[b] /\ n \in DOMAIN done[b]
    <3>1. done'[b][m] = done[b][m] /\ done'[b][n] = done[b][n]
      BY <1>5, <1>6, <2>1
    <3> QED BY <2>1, <3>1 DEF Ordered, RunInOrder
  <2>2. CASE b = a /\ m \in DOMAIN done[a] /\ n = Len(done[a]) + 1
    <3>1. PICK p \in 1..(q - 1) : sent[a][p] = done[a][m]
      BY <1>2, <2>2 DEF RanBefore
    <3>2. p \in 1..Taken(a) /\ p < q
      BY <1>7
    <3>3. done'[a][m] = done[a][m] /\ done'[a][n] = j
      BY <1>6, <2>2
    <3> QED BY <1>2, <1>7, <2>2, <3>1, <3>2, <3>3
  <2>3. b # a => m \in DOMAIN done[b] /\ n \in DOMAIN done[b]
    BY <1>5
  <2>4. b = a => \/ m \in DOMAIN done[a] /\ n \in DOMAIN done[a]
                 \/ m \in DOMAIN done[a] /\ n = Len(done[a]) + 1
    BY <1>6
  <2> QED BY <2>1, <2>2, <2>3, <2>4
<1>9. ASSUME NEW b \in Accounts PROVE RanBefore(b, Taken(b) + 1)'
  <2>1. RanBefore(b, Taken(b) + 1)
    BY DEF Ordered
  <2>2. CASE b # a
    BY <1>3, <1>5, <2>1, <2>2 DEF RanBefore
  <2>3. CASE b = a
    <3>1. q \in 1..((Taken(a) + 1) - 1)
      BY <1>7
    <3>2. ASSUME NEW m \in DOMAIN done'[a]
          PROVE  \E p \in 1..((Taken(a) + 1) - 1) : sent[a][p] = done'[a][m]
      <4>1. CASE m \in DOMAIN done[a]
        BY <1>6, <2>1, <2>3, <4>1 DEF RanBefore
      <4>2. CASE m = Len(done[a]) + 1
        BY <1>2, <1>6, <3>1, <4>2
      <4> QED BY <1>6, <4>1, <4>2
    <3> QED BY <1>3, <1>5, <2>3, <3>2 DEF RanBefore
  <2> QED BY <2>2, <2>3
<1>10. ASSUME NEW v \in Workers PROVE HeldLast(v)'
  <2> SUFFICES ASSUME step'[v] = "busy" PROVE HeldLast(v)'
    BY DEF HeldLast
  <2>1. v # w /\ step[v] = "busy"
    BY <1>3, <1>4
  <2>2. serves[v] # a
    BY <1>1, <2>1 DEF OneAtATime
  <2>3. PICK b \in Accounts : b = serves[v]
    BY <2>1 DEF TypeInv, TypeOK, LoopInv
  <2>4. AccountOf[hand[v]] = b
    BY <2>1, <2>3 DEF Ordered, HeldLast
  <2>5. PICK k \in 1..Taken(b) : sent[b][k] = hand[v] /\ RanBefore(b, k)
    BY <2>1, <2>3 DEF Ordered, HeldLast
  <2>6. RanBefore(b, k)'
    BY <1>3, <1>5, <2>2, <2>3, <2>5 DEF RanBefore
  <2>7. serves'[v] = b /\ hand'[v] = hand[v] /\ sent' = sent /\ Taken(b)' = Taken(b)
    BY <1>3, <1>5, <2>3
  <2> QED BY <2>4, <2>5, <2>6, <2>7 DEF HeldLast
<1> QED BY <1>8, <1>9, <1>10 DEF Ordered

\* One at a time, an account's jobs run in the order of its queue.
LEMMA NextOrdered ==
  TypeInv /\ Custody /\ TakenInOrder /\ OneAtATime /\ Ordered /\ [Next]_jqVars => Ordered'
<1> SUFFICES ASSUME TypeInv, Custody, TakenInOrder, OneAtATime, Ordered, [Next]_jqVars
             PROVE  Ordered'
  OBVIOUS
<1>0. /\ step \in [Workers -> {"off", "idle", "busy", "done", "pushed"}]
      /\ hand \in [Workers -> Jobs \cup {None}] /\ serves \in [Workers -> Accounts \cup {None}]
  BY DEF TypeInv, TypeOK
<1> DEFINE Hands == \A v \in Workers : step'[v] = "busy" =>
                      step[v] = "busy" /\ hand'[v] = hand[v] /\ serves'[v] = serves[v]
<1>1. ASSUME UNCHANGED <<queue, sent, done>>, Hands PROVE Ordered'
  <2>1. \A a \in Accounts : Taken(a)' = Taken(a)
    BY <1>1 DEF Taken
  <2>2. Grows
    BY <1>1, <2>1, TakenTypes DEF Grows
  <2> QED BY <1>1, <2>2, OrderedFrame
<1>2. ASSUME NEW a \in Accounts, NEW x \in Jobs \cup {STOP}, Push(a, x), UNCHANGED done, Hands
      PROVE  Ordered'
  BY <1>2, PushGrows, OrderedFrame
<1>3. ASSUME NEW j \in Jobs, SubmitJob(j) PROVE Ordered'
  <2>1. Push(AccountOf[j], j) /\ UNCHANGED <<done, step, hand, serves>> /\ AccountOf[j] \in Accounts
    BY <1>3, JobQueueAssumption DEF SubmitJob, workerVars
  <2> QED BY <1>2, <2>1
<1>4. ASSUME NEW a \in Accounts, SubmitStop(a) PROVE Ordered'
  <2>1. Push(a, STOP) /\ UNCHANGED <<done, step, hand, serves>>
    BY <1>4 DEF SubmitStop, workerVars
  <2> QED BY <1>2, <2>1
<1>5. ASSUME NEW w \in Workers, PopStop(w) PROVE Ordered'
  <2>1. HasNext(w) /\ PopQueue(w) /\ UNCHANGED <<sent, done>>
    BY <1>5 DEF PopStop, history
  <2>2. Hands
    BY <1>0, <1>5 DEF PopStop, OutOfLoop
  <2> QED BY <2>1, <2>2, PopGrows, OrderedFrame
<1>6. ASSUME NEW j \in Jobs,
             \/ GateOpen(j) \/ GateClosed(j) \/ AwaitResult(j) \/ TimeOut(j) \/ ResultExpires(j)
      PROVE  UNCHANGED <<queue, sent, done, step, hand, serves>>
  BY <1>6 DEF GateOpen, GateClosed, AwaitResult, TimeOut, ResultExpires, history, workerVars
<1>7. ASSUME NEW S \in SUBSET Jobs, RequestersDie(S)
      PROVE  UNCHANGED <<queue, sent, done, step, hand, serves>>
  BY <1>7 DEF RequestersDie, history, workerVars
<1>8. ASSUME NEW w \in Workers,
             \/ \E a \in Accounts : EnterLoop(w, a)
             \/ IdleOut(w) \/ WorkerDies(w) \/ PushResult(w) \/ ExpireResult(w) \/ PushRaises(w)
      PROVE  UNCHANGED <<queue, sent, done>> /\ Hands
  BY <1>0, <1>8 DEF EnterLoop, IdleOut, WorkerDies, PushResult, ExpireResult, PushRaises,
    OutOfLoop, BackToLoop, history
<1>9. CASE UNCHANGED jqVars
  BY <1>1, <1>9 DEF jqVars, history, workerVars
<1> HIDE DEF Hands
<1>10. ASSUME UNCHANGED <<queue, sent, done, step, hand, serves>> PROVE Ordered'
  BY <1>1, <1>10 DEF Hands
<1> QED BY <1>1, <1>3, <1>4, <1>5, <1>6, <1>7, <1>8, <1>9, <1>10, PopJobOrdered, HandleOrdered
     DEF Next, Request, Loop

-----------------------------------------------------------------------------
(* The queue implements JobLifecycle.  The phase of a job is read off where *)
(* it is, the answer off its request, so what has to be known is that the  *)
(* two agree: Settled relates the record of pushes, the outcome and every  *)
(* report on its way to the request they belong to.                        *)

Pushed(j) == InSeq(j, sent[AccountOf[j]])

\* What the requester of j was told.
Told(j) == IF req[j] \in Open THEN "none" ELSE req[j]

\* A report tells the outcome, or Redis has failed.
Reports(r, j) == outcome[j] = r \/ RedisMayFail

Backed(w) == outcome[hand[w]] = reply[w] \/ RedisMayFail

Agrees(j) ==
  /\ req[j] \in Unsubmitted => ~Pushed(j)
  /\ req[j] \in {"submitted", "waiting"} => Pushed(j)
  /\ Queued(j) \/ HeldBy(j) # {} => Pushed(j)
  /\ Ran(j) <=> outcome[j] # "none"
  /\ \A r \in Reply : InSeq(r, results[j]) => Reports(r, j)

Settled ==
  /\ \A j \in Jobs : Agrees(j)
  /\ \A w \in Workers : step[w] \in {"done", "pushed"} => Backed(w)

\* Nothing is submitted, reported or in a hand at the start.
LEMMA InitSettled == Init => Settled
BY JobQueueAssumption
   DEF Init, Settled, Agrees, Pushed, Queued, HeldBy, Ran, InSeq, Reports, Backed

\* A job whose place does not change keeps its phase.
LEMMA PhaseFrame ==
  ASSUME NEW j \in Jobs, outcome'[j] = outcome[j],
         outcome[j] = "none" =>
           /\ Pushed(j)' <=> Pushed(j)
           /\ (Queued(j) \/ HeldBy(j) # {})' <=> (Queued(j) \/ HeldBy(j) # {})
  PROVE  PhaseOf(j)' = PhaseOf(j)
BY DEF PhaseOf, Pushed

\* Neither a phase nor what a requester was told changes: a stutter.
LEMMA NothingHappens ==
  ASSUME \A j \in Jobs : PhaseOf(j)' = PhaseOf(j) /\ Told(j)' = Told(j)
  PROVE  UNCHANGED Lifecycle!lifeVars
BY DEF Lifecycle!lifeVars, Told

\* A report of j that is its outcome, or the failure reported after Redis failed.
MayBeTold(j, x) == PhaseOf(j) = x \/ (x = "fail" /\ PhaseOf(j) = "ok" /\ RedisMayFail)

\* One requester is told its answer.
LEMMA OneAnswer ==
  ASSUME NEW j \in Jobs, NEW r, Told(j) = "none",
         \A k \in Jobs : PhaseOf(k)' = PhaseOf(k) /\ Told(k)' = IF k = j THEN r ELSE Told(k),
         \/ r = "refused" /\ PhaseOf(j) = "new"
         \/ r = "timeout" /\ PhaseOf(j) # "new"
         \/ \E x \in Reply : MayBeTold(j, x) /\ r = Answered(j, x)
  PROVE  Lifecycle!Next
<1>1. /\ [k \in Jobs |-> Told(k)]' = [[k \in Jobs |-> Told(k)] EXCEPT ![j] = r]
      /\ [k \in Jobs |-> PhaseOf(k)]' = [k \in Jobs |-> PhaseOf(k)]
  OBVIOUS
<1>2. CASE r = "refused" /\ PhaseOf(j) = "new"
  <2>1. Lifecycle!Refuse(j)
    BY <1>1, <1>2 DEF Lifecycle!Refuse, Told
  <2> QED BY <2>1 DEF Lifecycle!Next
<1>3. CASE r = "timeout" /\ PhaseOf(j) # "new"
  <2>1. Lifecycle!TimeOut(j)
    BY <1>1, <1>3 DEF Lifecycle!TimeOut, Told
  <2> QED BY <2>1 DEF Lifecycle!Next
<1>4. ASSUME NEW x \in Reply, MayBeTold(j, x), r = Answered(j, x) PROVE Lifecycle!Next
  <2>1. Lifecycle!Tell(j, x)
    BY <1>1, <1>4 DEF Lifecycle!Tell, Told, MayBeTold, Answered
  <2> QED BY <1>4, <2>1 DEF Lifecycle!Next, Reply
<1> QED BY <1>2, <1>3, <1>4

\* One job is submitted, runs or is lost.
LEMMA OnePhase ==
  ASSUME NEW j \in Jobs, NEW p,
         \A k \in Jobs : Told(k)' = Told(k) /\ PhaseOf(k)' = IF k = j THEN p ELSE PhaseOf(k),
         \/ p = "pending" /\ PhaseOf(j) = "new" /\ Told(j) = "none"
         \/ p \in Reply \cup {"lost"} /\ PhaseOf(j) = "pending"
  PROVE  Lifecycle!Next
<1>1. /\ [k \in Jobs |-> PhaseOf(k)]' = [[k \in Jobs |-> PhaseOf(k)] EXCEPT ![j] = p]
      /\ [k \in Jobs |-> Told(k)]' = [k \in Jobs |-> Told(k)]
  OBVIOUS
<1>2. CASE p = "pending" /\ PhaseOf(j) = "new" /\ Told(j) = "none"
  <2>1. Lifecycle!Submit(j)
    BY <1>1, <1>2 DEF Lifecycle!Submit, Told
  <2> QED BY <2>1 DEF Lifecycle!Next
<1>3. CASE p = "lost" /\ PhaseOf(j) = "pending"
  <2>1. Lifecycle!Lose(j)
    BY <1>1, <1>3 DEF Lifecycle!Lose, Told
  <2> QED BY <2>1 DEF Lifecycle!Next
<1>4. CASE p \in Reply /\ PhaseOf(j) = "pending"
  <2>1. Lifecycle!Run(j, p)
    BY <1>1, <1>4 DEF Lifecycle!Run, Told
  <2> QED BY <1>4, <2>1 DEF Lifecycle!Next, Reply
<1> QED BY <1>2, <1>3, <1>4

\* Every job is new and no requester has been told anything at the start.
LEMMA InitLifecycle == Init => Lifecycle!Init
BY JobQueueAssumption DEF Init, Lifecycle!Init, PhaseOf, InSeq, Queued, HeldBy, Open

\* What every step has to do: keep Settled, and be a step or a stutter of JobLifecycle.
Maps == Settled' /\ (Lifecycle!Next \/ UNCHANGED Lifecycle!lifeVars)

\* Steps of the requesters: nothing moves but answers, which leave the list or a hand.
LEMMA RequestFrame ==
  ASSUME Settled, UNCHANGED <<queue, hand, step, reply, outcome, sent, done>>,
         \A j \in Jobs :
           /\ req'[j] \in Unsubmitted => req[j] \in Unsubmitted
           /\ req'[j] \in {"submitted", "waiting"} => req[j] \in {"submitted", "waiting"}
           /\ \A r \in Reply : InSeq(r, results'[j]) => InSeq(r, results[j])
  PROVE  Settled' /\ \A j \in Jobs : PhaseOf(j)' = PhaseOf(j)
<1>1. \A j \in Jobs : (Pushed(j)' <=> Pushed(j)) /\ (Queued(j)' <=> Queued(j))
                     /\ (Ran(j)' <=> Ran(j))
  BY DEF Pushed, Queued, Ran
<1>2. \A j \in Jobs : HeldBy(j)' = HeldBy(j)
  BY DEF HeldBy
<1>3. \A j \in Jobs, r \in Reply : Reports(r, j)' <=> Reports(r, j)
  BY JobQueueAssumption DEF Reports
<1>4. \A j \in Jobs : PhaseOf(j)' = PhaseOf(j)
  BY <1>1, <1>2, PhaseFrame
<1>5. \A w \in Workers : step'[w] \in {"done", "pushed"} => Backed(w)'
  BY DEF Settled, Agrees, Backed
<1>6. Settled'
  BY <1>1, <1>2, <1>3, <1>5 DEF Settled, Agrees
<1> QED BY <1>4, <1>6

\* An answered job has an outcome, so its phase is its outcome.
LEMMA AnsweredPhase ==
  ASSUME TypeInv, Settled, NEW j \in Jobs, Ran(j)
  PROVE  PhaseOf(j) = outcome[j] /\ outcome[j] \in Reply
BY DEF TypeInv, TypeOK, Settled, Agrees, PhaseOf

\* A report of a job that has run can be told.
LEMMA ReportIsTold ==
  ASSUME TypeInv, Earned, Settled, NEW j \in Jobs, NEW r \in Reply,
         Ran(j), Reports(r, j), r = "ok" => outcome[j] = "ok"
  PROVE  MayBeTold(j, r)
BY AnsweredPhase DEF Reports, Reply, MayBeTold

\* Every step of a requester that submits nothing.
LEMMA RequestMaps ==
  ASSUME TypeInv, Custody, Earned, Settled, NEW j \in Jobs,
         \/ GateOpen(j) \/ GateClosed(j) \/ AwaitResult(j) \/ TimeOut(j) \/ ResultExpires(j)
  PROVE  Maps
<1>0. /\ UNCHANGED <<queue, hand, step, reply, outcome, sent, done>>
      /\ req \in [Jobs -> Open \cup Ended] /\ results \in [Jobs -> Seq(Reply)]
      /\ Open \cap Ended = {}
  BY DEF GateOpen, GateClosed, AwaitResult, TimeOut, ResultExpires, history, workerVars,
         TypeInv, TypeOK, Open, Ended, Reply
<1>1. ASSUME req[j] \in Unsubmitted, req[j] \in Open PROVE PhaseOf(j) = "new" /\ Told(j) = "none"
  <2>1. ~Ran(j) /\ ~Pushed(j)
    BY <1>1 DEF Custody, Settled, Agrees
  <2> QED BY <1>1, <2>1 DEF Settled, Agrees, PhaseOf, Pushed, Told
<1>2. CASE GateOpen(j)
  <2>1. \A k \in Jobs : Told(k)' = Told(k)
    BY <1>0, <1>2 DEF GateOpen, Told, Open
  <2>2. Settled' /\ \A k \in Jobs : PhaseOf(k)' = PhaseOf(k)
    BY <1>0, <1>2, RequestFrame DEF GateOpen, Unsubmitted
  <2> QED BY <2>1, <2>2, NothingHappens DEF Maps
<1>3. CASE GateClosed(j)
  <2>1. /\ PhaseOf(j) = "new" /\ Told(j) = "none"
        /\ \A k \in Jobs : Told(k)' = IF k = j THEN "refused" ELSE Told(k)
    BY <1>0, <1>1, <1>3 DEF GateClosed, Told, Open, Unsubmitted
  <2>2. Settled' /\ \A k \in Jobs : PhaseOf(k)' = PhaseOf(k)
    BY <1>0, <1>3, RequestFrame DEF GateClosed, Unsubmitted
  <2> QED BY <2>1, <2>2, OneAnswer DEF Maps
<1>4. CASE TimeOut(j)
  <2>1. /\ Told(j) = "none" /\ req[j] = "waiting"
        /\ \A k \in Jobs : Told(k)' = IF k = j THEN "timeout" ELSE Told(k)
    BY <1>0, <1>4 DEF TimeOut, Told, Open
  <2>2. Settled' /\ \A k \in Jobs : PhaseOf(k)' = PhaseOf(k)
    BY <1>0, <1>4, RequestFrame DEF TimeOut, Unsubmitted
  <2>3. PhaseOf(j) # "new"
    BY <2>1 DEF Settled, Agrees, PhaseOf, Pushed, TypeInv, TypeOK, Reply
  <2> QED BY <2>1, <2>2, <2>3, OneAnswer DEF Maps
<1>5. CASE ResultExpires(j)
  <2>1. UNCHANGED req /\ results' = [results EXCEPT ![j] = <<>>]
    BY <1>5 DEF ResultExpires, SetResults
  <2>2. \A r \in Reply : ~InSeq(r, <<>>)
    BY DEF InSeq
  <2>3. Settled' /\ \A k \in Jobs : PhaseOf(k)' = PhaseOf(k)
    BY <1>0, <2>1, <2>2, RequestFrame
  <2>4. \A k \in Jobs : Told(k)' = Told(k)
    BY <2>1 DEF Told
  <2> QED BY <2>3, <2>4, NothingHappens DEF Maps
<1>6. CASE AwaitResult(j)
  <2>1. CASE req' = [req EXCEPT ![j] = "waiting"] /\ UNCHANGED results
    <3>1. \A k \in Jobs : Told(k)' = Told(k)
      BY <1>0, <1>6, <2>1 DEF AwaitResult, Told, Open
    <3>2. Settled' /\ \A k \in Jobs : PhaseOf(k)' = PhaseOf(k)
      BY <1>0, <1>6, <2>1, RequestFrame DEF AwaitResult, Unsubmitted
    <3> QED BY <3>1, <3>2, NothingHappens DEF Maps
  <2>2. CASE /\ results[j] # <<>> /\ SetResults(j, Tail(results[j]))
             /\ req' = [req EXCEPT ![j] = Answered(j, Head(results[j]))]
    <3> PICK r : r = Head(results[j])
      OBVIOUS
    <3>1. /\ r \in Reply /\ InSeq(r, results[j])
          /\ \A x : InSeq(x, Tail(results[j])) => InSeq(x, results[j])
      BY <1>0, <2>2, InTail, HeadTailProperties
    <3>2. /\ results' = [results EXCEPT ![j] = Tail(results[j])]
          /\ req' = [req EXCEPT ![j] = Answered(j, r)] /\ req[j] = "submitted"
      BY <1>6, <2>2 DEF SetResults, AwaitResult
    <3>3. \A k \in Jobs : Told(k)' = IF k = j THEN Answered(j, r) ELSE Told(k)
      BY <1>0, <3>1, <3>2 DEF Told, Open, Reply, Answered
    <3>4. Told(j) = "none"
      BY <3>2 DEF Told, Open
    <3>5. Settled' /\ \A k \in Jobs : PhaseOf(k)' = PhaseOf(k)
      BY <1>0, <3>1, <3>2, RequestFrame DEF Unsubmitted, Reply, Answered
    <3>6. Ran(j) /\ Reports(r, j) /\ (r = "ok" => outcome[j] = "ok")
      <4>1. results[j] # <<>>
        BY <2>2
      <4> QED BY <3>1, <4>1 DEF Earned, EarnedOnTheWay, Settled, Agrees
    <3>7. MayBeTold(j, r)
      BY <3>1, <3>6, ReportIsTold
    <3> QED BY <3>1, <3>3, <3>4, <3>5, <3>7, OneAnswer DEF Maps
  <2> QED BY <1>6, <2>1, <2>2 DEF AwaitResult
<1> QED BY <1>2, <1>3, <1>4, <1>5, <1>6

\* The API process dies, and its requesters are told nothing any more.
LEMMA DeathMaps ==
  ASSUME TypeInv, Settled, NEW S \in SUBSET Jobs, RequestersDie(S)
  PROVE  Maps
<1>1. /\ UNCHANGED <<queue, hand, step, reply, outcome, sent, done, results>>
      /\ req' = [j \in Jobs |-> IF j \in S /\ req[j] \in Open THEN "dead" ELSE req[j]]
  BY DEF RequestersDie, history, workerVars
<1>2. Settled' /\ \A j \in Jobs : PhaseOf(j)' = PhaseOf(j)
  BY <1>1, RequestFrame DEF Unsubmitted
<1>3. \A j \in Jobs : Told(j)' = IF j \in S /\ Told(j) = "none" THEN "dead" ELSE Told(j)
  BY <1>1 DEF Told, Open, Ended, TypeInv, TypeOK, Reply
<1>4. Lifecycle!Abandon(S)
  BY <1>2, <1>3 DEF Lifecycle!Abandon, Told
<1> QED BY <1>2, <1>4 DEF Maps, Lifecycle!Next

\* A request that is submitted: its job is new, and pending from then on.
LEMMA SubmitMaps ==
  ASSUME TypeInv, Custody, Settled, NEW j \in Jobs, SubmitJob(j)
  PROVE  Maps
<1> DEFINE a == AccountOf[j]
<1>1. /\ a \in Accounts /\ queue \in [Accounts -> Seq(Jobs \cup {STOP})]
      /\ sent \in [Accounts -> Seq(Jobs \cup {STOP})]
      /\ queue' = [queue EXCEPT ![a] = Append(queue[a], j)]
      /\ sent' = [sent EXCEPT ![a] = Append(sent[a], j)]
      /\ req' = [req EXCEPT ![j] = "submitted"] /\ req \in [Jobs -> Open \cup Ended]
      /\ UNCHANGED <<results, hand, step, reply, outcome, done>> /\ req[j] = "checked"
      /\ AccountOf \in [Jobs -> Accounts]
  BY JobQueueAssumption DEF TypeInv, TypeOK, SubmitJob, Push, workerVars
<1>2. /\ \A x : InSeq(x, queue'[a]) <=> InSeq(x, queue[a]) \/ x = j
      /\ \A x : InSeq(x, sent'[a]) <=> InSeq(x, sent[a]) \/ x = j
  <2>1. queue'[a] = Append(queue[a], j) /\ sent'[a] = Append(sent[a], j)
    BY <1>1
  <2>2. queue[a] \in Seq(Jobs \cup {STOP}) /\ sent[a] \in Seq(Jobs \cup {STOP})
    BY <1>1
  <2>3. \A x : InSeq(x, Append(queue[a], j)) <=> InSeq(x, queue[a]) \/ x = j
    BY <2>2, InAppend
  <2>4. \A x : InSeq(x, Append(sent[a], j)) <=> InSeq(x, sent[a]) \/ x = j
    BY <2>2, InAppend
  <2> QED BY <2>1, <2>3, <2>4
<1>3. \A k \in Jobs : (Queued(k)' <=> Queued(k) \/ k = j) /\ (Pushed(k)' <=> Pushed(k) \/ k = j)
  BY <1>1, <1>2 DEF Queued, Pushed
<1>4. \A k \in Jobs : HeldBy(k)' = HeldBy(k) /\ (Ran(k)' <=> Ran(k))
  BY <1>1 DEF HeldBy, Ran
<1>5. ~Pushed(j) /\ ~Ran(j) /\ outcome[j] = "none"
  BY <1>1 DEF Custody, Settled, Agrees, Unsubmitted
<1>6. PhaseOf(j) = "new" /\ PhaseOf(j)' = "pending"
  BY <1>1, <1>3, <1>5 DEF PhaseOf, Pushed
<1>7. \A k \in Jobs : PhaseOf(k)' = IF k = j THEN "pending" ELSE PhaseOf(k)
  BY <1>1, <1>3, <1>4, <1>6, PhaseFrame
<1>8. Told(j) = "none" /\ \A k \in Jobs : Told(k)' = Told(k)
  BY <1>1 DEF Told, Open
<1>9. \A k \in Jobs, r \in Reply : Reports(r, k)' <=> Reports(r, k)
  BY <1>1, JobQueueAssumption DEF Reports
<1>10. \A w \in Workers : step'[w] \in {"done", "pushed"} => Backed(w)'
  BY <1>1 DEF Settled, Agrees, Backed
<1>11. \A k \in Jobs : /\ req'[k] \in Unsubmitted => ~Pushed(k)'
                       /\ req'[k] \in {"submitted", "waiting"} => Pushed(k)'
  BY <1>1, <1>3 DEF Settled, Agrees, Unsubmitted
<1>12. \A k \in Jobs : /\ (Queued(k) \/ HeldBy(k) # {})' => Pushed(k)'
                       /\ Ran(k)' <=> outcome'[k] # "none"
                       /\ \A r \in Reply : InSeq(r, results'[k]) => Reports(r, k)'
  BY <1>1, <1>3, <1>4, <1>9 DEF Settled, Agrees
<1>13. Settled'
  <2>1. \A k \in Jobs : Agrees(k)'
    BY <1>11, <1>12 DEF Agrees
  <2> QED BY <1>10, <2>1 DEF Settled
<1> QED BY <1>6, <1>7, <1>8, <1>13, OnePhase DEF Maps

\* A STOP is no job.
LEMMA StopMaps ==
  ASSUME TypeInv, Settled, NEW a \in Accounts, SubmitStop(a)
  PROVE  Maps
<1>1. /\ queue \in [Accounts -> Seq(Jobs \cup {STOP})]
      /\ sent \in [Accounts -> Seq(Jobs \cup {STOP})]
      /\ queue' = [queue EXCEPT ![a] = Append(queue[a], STOP)]
      /\ sent' = [sent EXCEPT ![a] = Append(sent[a], STOP)]
      /\ UNCHANGED <<req, results, hand, step, reply, outcome, done>>
      /\ STOP \notin Jobs /\ AccountOf \in [Jobs -> Accounts]
  BY JobQueueAssumption DEF TypeInv, TypeOK, SubmitStop, Push, clientVars, workerVars
<1>2. ASSUME NEW k \in Jobs
      PROVE  /\ InSeq(k, queue'[a]) <=> InSeq(k, queue[a])
             /\ InSeq(k, sent'[a]) <=> InSeq(k, sent[a])
  <2>1. /\ STOP \in Jobs \cup {STOP} /\ k # STOP
        /\ queue[a] \in Seq(Jobs \cup {STOP}) /\ sent[a] \in Seq(Jobs \cup {STOP})
    BY <1>1
  <2>2. queue'[a] = Append(queue[a], STOP) /\ sent'[a] = Append(sent[a], STOP)
    BY <1>1
  <2>3. InSeq(k, Append(queue[a], STOP)) <=> InSeq(k, queue[a]) \/ k = STOP
    BY <2>1, InAppend
  <2>4. InSeq(k, Append(sent[a], STOP)) <=> InSeq(k, sent[a]) \/ k = STOP
    BY <2>1, InAppend
  <2> QED BY <2>1, <2>2, <2>3, <2>4
<1>3. \A k \in Jobs : (Queued(k)' <=> Queued(k)) /\ (Pushed(k)' <=> Pushed(k))
  BY <1>1, <1>2 DEF Queued, Pushed
<1>4. \A k \in Jobs : HeldBy(k)' = HeldBy(k) /\ (Ran(k)' <=> Ran(k)) /\ Told(k)' = Told(k)
  BY <1>1 DEF HeldBy, Ran, Told
<1>5. \A k \in Jobs : PhaseOf(k)' = PhaseOf(k)
  BY <1>1, <1>3, <1>4, PhaseFrame
<1>6. \A k \in Jobs, r \in Reply : Reports(r, k)' <=> Reports(r, k)
  BY <1>1, JobQueueAssumption DEF Reports
<1>7. \A w \in Workers : step'[w] \in {"done", "pushed"} => Backed(w)'
  BY <1>1 DEF Settled, Agrees, Backed
<1>8. Settled'
  BY <1>1, <1>3, <1>4, <1>6, <1>7 DEF Settled, Agrees
<1> QED BY <1>4, <1>5, <1>8, NothingHappens DEF Maps

\* Steps of a worker that run and push nothing.
LEMMA SettledFrame ==
  ASSUME Settled, UNCHANGED <<outcome, sent, done>>,
         \A j \in Jobs :
           /\ req'[j] \in Unsubmitted => req[j] \in Unsubmitted
           /\ req'[j] \in {"submitted", "waiting"} => req[j] \in {"submitted", "waiting"}
           /\ \A r \in Reply : InSeq(r, results'[j]) => InSeq(r, results[j]) \/ Reports(r, j)
           /\ (Queued(j) \/ HeldBy(j) # {})' => Queued(j) \/ HeldBy(j) # {},
         \A w \in Workers : step'[w] \in {"done", "pushed"} => Backed(w)'
  PROVE  Settled' /\ \A j \in Jobs : Pushed(j)' <=> Pushed(j)
<1>1. \A j \in Jobs : (Pushed(j)' <=> Pushed(j)) /\ (Ran(j)' <=> Ran(j))
  BY DEF Pushed, Ran
<1>2. \A j \in Jobs, r \in Reply : Reports(r, j)' <=> Reports(r, j)
  BY JobQueueAssumption DEF Reports
<1>3. Settled'
  BY <1>1, <1>2 DEF Settled, Agrees
<1> QED BY <1>1, <1>3

\* A worker takes a job from the queue into its hand, or a STOP into no hand.
LEMMA PopMaps ==
  ASSUME TypeInv, Custody, Settled, NEW w \in Workers, PopJob(w) \/ PopStop(w)
  PROVE  Maps
<1> DEFINE a == serves[w]
<1> DEFINE x == Head(queue[a])
<1>1. /\ a \in Accounts /\ queue[a] \in Seq(Jobs \cup {STOP}) /\ queue[a] # <<>>
      /\ x \in Jobs \cup {STOP} /\ hand[w] = None
      /\ queue \in [Accounts -> Seq(Jobs \cup {STOP})]
      /\ queue' = [queue EXCEPT ![a] = Tail(queue[a])]
      /\ hand \in [Workers -> Jobs \cup {None}]
      /\ step \in [Workers -> {"off", "idle", "busy", "done", "pushed"}]
      /\ reply \in [Workers -> Reply \cup {"none"}]
      /\ STOP \notin Jobs /\ None \notin Jobs /\ AccountOf \in [Jobs -> Accounts]
      /\ UNCHANGED <<req, results, outcome, sent, done>>
  BY PopTypes, JobQueueAssumption
  DEF PopJob, PopStop, HasNext, PopQueue, TypeInv, TypeOK, LoopInv, clientVars, history
<1>2. \A k : InSeq(k, queue[a]) <=> k = x \/ InSeq(k, queue'[a])
  BY <1>1, InTail
<1>3. \A k \in Jobs : k # x => (Queued(k)' <=> Queued(k))
  BY <1>1, <1>2 DEF Queued
<1>4. hand' = [hand EXCEPT ![w] = IF x = STOP THEN None ELSE x]
  BY <1>1 DEF PopJob, PopStop, OutOfLoop
<1>5. \A k \in Jobs : k # x => HeldBy(k)' = HeldBy(k)
  BY <1>1, <1>4 DEF HeldBy
<1>6. ASSUME NEW k \in Jobs, k = x PROVE Queued(k) /\ HeldBy(k)' # {}
  <2>1. InSeq(k, queue[a]) /\ w \in HeldBy(k)'
    BY <1>1, <1>2, <1>4, <1>6 DEF HeldBy
  <2>2. AccountOf[k] = a
    BY <1>1, <2>1 DEF Custody
  <2> QED BY <2>1, <2>2 DEF Queued
<1>7. \A k \in Jobs : (Queued(k) \/ HeldBy(k) # {})' <=> (Queued(k) \/ HeldBy(k) # {})
  BY <1>3, <1>5, <1>6
<1>8. \A v \in Workers : step'[v] \in {"done", "pushed"} =>
        v # w /\ step[v] = step'[v] /\ hand'[v] = hand[v] /\ reply'[v] = reply[v]
  BY <1>1, <1>4 DEF PopJob, PopStop, OutOfLoop
<1>9. \A v \in Workers : step'[v] \in {"done", "pushed"} => Backed(v)'
  BY <1>1, <1>8 DEF Settled, Agrees, Backed
<1>10. Settled' /\ \A k \in Jobs : Pushed(k)' <=> Pushed(k)
  BY <1>1, <1>7, <1>9, SettledFrame
<1>11. \A k \in Jobs : PhaseOf(k)' = PhaseOf(k) /\ Told(k)' = Told(k)
  BY <1>1, <1>7, <1>10, PhaseFrame DEF Told
<1> QED BY <1>10, <1>11, NothingHappens DEF Maps

\* A worker is left with an empty hand: a job it had not run is lost.
LEMMA DropMaps ==
  ASSUME TypeInv, Custody, Settled, NEW w \in Workers,
         UNCHANGED <<queue, req, results, outcome, sent, done>>,
         hand' = [hand EXCEPT ![w] = None],
         \A v \in Workers : step'[v] \in {"done", "pushed"} =>
           v # w /\ step[v] = step'[v] /\ reply'[v] = reply[v]
  PROVE  Maps
<1>1. /\ hand \in [Workers -> Jobs \cup {None}] /\ None \notin Jobs
  BY JobQueueAssumption DEF TypeInv, TypeOK
<1>2. \A k \in Jobs : (Queued(k)' <=> Queued(k)) /\ Told(k)' = Told(k)
  BY DEF Queued, Told
<1>3. \A k \in Jobs : HeldBy(k)' = HeldBy(k) \ {w}
  BY <1>1 DEF HeldBy
<1>4. \A v \in Workers : step'[v] \in {"done", "pushed"} => Backed(v)'
  BY <1>1 DEF Settled, Agrees, Backed
<1>5. Settled' /\ \A k \in Jobs : Pushed(k)' <=> Pushed(k)
  BY <1>2, <1>3, <1>4, SettledFrame
<1>6. \A k \in Jobs : hand[w] # k \/ outcome[k] # "none" => PhaseOf(k)' = PhaseOf(k)
  <2> SUFFICES ASSUME NEW k \in Jobs, hand[w] # k \/ outcome[k] # "none"
               PROVE  PhaseOf(k)' = PhaseOf(k)
    OBVIOUS
  <2>1. hand[w] # k => HeldBy(k)' = HeldBy(k)
    BY <1>3 DEF HeldBy
  <2> QED BY <1>2, <1>5, <2>1, PhaseFrame
<1>7. CASE \A k \in Jobs : hand[w] # k \/ outcome[k] # "none"
  BY <1>2, <1>5, <1>6, <1>7, NothingHappens DEF Maps
<1>8. ASSUME NEW j \in Jobs, hand[w] = j, outcome[j] = "none" PROVE Maps
  <2>1. w \in HeldBy(j) /\ HeldBy(j)' = {} /\ ~Queued(j)
    BY <1>1, <1>3, <1>8 DEF HeldBy, Custody
  <2>2. Pushed(j)
    BY <2>1 DEF Settled, Agrees
  <2>3. PhaseOf(j) = "pending" /\ PhaseOf(j)' = "lost"
    BY <1>2, <1>5, <1>8, <2>1, <2>2 DEF PhaseOf, Pushed
  <2>4. \A k \in Jobs : PhaseOf(k)' = IF k = j THEN "lost" ELSE PhaseOf(k)
    BY <1>6, <1>8, <2>3
  <2> QED BY <1>2, <1>5, <2>3, <2>4, OnePhase DEF Maps
<1> QED BY <1>7, <1>8

\* The other steps of a worker that touch nothing but itself.
LEMMA WorkerMaps ==
  ASSUME TypeInv, Custody, Settled, NEW w \in Workers,
         \/ \E a \in Accounts : EnterLoop(w, a)
         \/ IdleOut(w) \/ ExpireResult(w) \/ PushRaises(w) \/ WorkerDies(w)
  PROVE  Maps
<1>1. /\ UNCHANGED <<queue, req, results, outcome, sent, done>>
      /\ hand \in [Workers -> Jobs \cup {None}]
      /\ step \in [Workers -> {"off", "idle", "busy", "done", "pushed"}]
      /\ reply \in [Workers -> Reply \cup {"none"}]
  BY DEF EnterLoop, IdleOut, ExpireResult, PushRaises, WorkerDies, clientVars, history,
         TypeInv, TypeOK
<1>2. CASE OutOfLoop(w) \/ BackToLoop(w)
  BY <1>1, <1>2, DropMaps DEF OutOfLoop, BackToLoop
<1>3. ASSUME UNCHANGED hand, \A v \in Workers : step'[v] \in {"done", "pushed"} => Backed(v)'
      PROVE  Maps
  <2>1. \A k \in Jobs : (Queued(k)' <=> Queued(k)) /\ HeldBy(k)' = HeldBy(k) /\ Told(k)' = Told(k)
    BY <1>1, <1>3 DEF Queued, HeldBy, Told
  <2>2. Settled' /\ \A k \in Jobs : Pushed(k)' <=> Pushed(k)
    BY <1>1, <1>3, <2>1, SettledFrame
  <2>3. \A k \in Jobs : PhaseOf(k)' = PhaseOf(k)
    BY <1>1, <2>1, <2>2, PhaseFrame
  <2> QED BY <2>1, <2>2, <2>3, NothingHappens DEF Maps
<1>4. ASSUME NEW a \in Accounts, EnterLoop(w, a) PROVE Maps
  <2>1. /\ UNCHANGED <<hand, reply>>
        /\ \A v \in Workers : step'[v] \in {"done", "pushed"} => step[v] = step'[v]
    BY <1>1, <1>4 DEF EnterLoop
  <2> QED BY <1>1, <1>3, <2>1 DEF Settled, Agrees, Backed
<1>5. ASSUME RedisMayFail, UNCHANGED hand PROVE Maps
  BY <1>3, <1>5 DEF Backed
<1> QED BY <1>2, <1>4, <1>5 DEF IdleOut, ExpireResult, PushRaises, WorkerDies

\* A result pushed is one entry more.
LEMMA InPush ==
  ASSUME NEW s \in Seq(Reply), NEW r \in Reply, NEW x, InSeq(x, <<r>> \o s)
  PROVE  x = r \/ InSeq(x, s)
<1>1. /\ DOMAIN (<<r>> \o s) = 1..(1 + Len(s)) /\ (<<r>> \o s)[1] = r
      /\ \A n \in 2..(1 + Len(s)) : (<<r>> \o s)[n] = s[n - 1]
      /\ DOMAIN s = 1..Len(s) /\ Len(s) \in Nat
  BY ConcatProperties, LenProperties
<1>2. PICK n \in 1..(1 + Len(s)) : (<<r>> \o s)[n] = x
  BY <1>1 DEF InSeq
<1>3. CASE n = 1
  BY <1>1, <1>2, <1>3
<1>4. CASE n # 1
  <2>1. n \in 2..(1 + Len(s)) /\ n - 1 \in DOMAIN s
    BY <1>1, <1>4
  <2>2. s[n - 1] = x
    BY <1>1, <1>2, <2>1
  <2> QED BY <2>1, <2>2 DEF InSeq
<1> QED BY <1>3, <1>4

\* A report reaches a requester that waits for it, or the list it will look at.
LEMMA PushMaps ==
  ASSUME TypeInv, Earned, Settled, NEW w \in Workers, PushResult(w)
  PROVE  Maps
<1> PICK j : j = hand[w]
  OBVIOUS
<1> PICK r : r = reply[w]
  OBVIOUS
<1>1. /\ j \in Jobs /\ r \in Reply /\ step[w] = "done"
      /\ UNCHANGED <<queue, hand, reply, outcome, sent, done>>
      /\ step' = [step EXCEPT ![w] = "pushed"]
      /\ step \in [Workers -> {"off", "idle", "busy", "done", "pushed"}]
      /\ results \in [Jobs -> Seq(Reply)] /\ req \in [Jobs -> Open \cup Ended]
  BY DEF PushResult, TypeInv, TypeOK, LoopInv, history
<1>2. Ran(j) /\ Reports(r, j) /\ (r = "ok" => outcome[j] = "ok")
  BY <1>1 DEF Earned, EarnedOnTheWay, Settled, Agrees, Backed, Reports
<1>3. \A k \in Jobs : (Queued(k)' <=> Queued(k)) /\ HeldBy(k)' = HeldBy(k)
  BY <1>1 DEF Queued, HeldBy
<1>4. \A v \in Workers : step'[v] \in {"done", "pushed"} => Backed(v)'
  BY <1>1 DEF Settled, Agrees, Backed
<1>5. CASE req[j] = "waiting" /\ req' = [req EXCEPT ![j] = Answered(j, r)] /\ UNCHANGED results
  <2>1. Settled' /\ \A k \in Jobs : Pushed(k)' <=> Pushed(k)
    BY <1>1, <1>3, <1>4, <1>5, SettledFrame DEF Unsubmitted, Reply, Answered
  <2>2. \A k \in Jobs : PhaseOf(k)' = PhaseOf(k)
    BY <1>1, <1>3, <2>1, PhaseFrame
  <2>3. Told(j) = "none" /\ \A k \in Jobs : Told(k)' = IF k = j THEN Answered(j, r) ELSE Told(k)
    BY <1>1, <1>5 DEF Told, Open, Reply, Answered
  <2>4. MayBeTold(j, r)
    BY <1>1, <1>2, ReportIsTold
  <2> QED BY <1>1, <2>1, <2>2, <2>3, <2>4, OneAnswer DEF Maps
<1>6. CASE results' = [results EXCEPT ![j] = <<r>> \o results[j]] /\ UNCHANGED req
  <2>1. \A k \in Jobs, x \in Reply : InSeq(x, results'[k]) => InSeq(x, results[k]) \/ Reports(x, k)
    <3> SUFFICES ASSUME NEW k \in Jobs, NEW x \in Reply, InSeq(x, results'[k])
                 PROVE  InSeq(x, results[k]) \/ Reports(x, k)
      OBVIOUS
    <3>1. CASE k = j
      <4>1. results'[k] = <<r>> \o results[j] /\ results[j] \in Seq(Reply)
        BY <1>1, <1>6, <3>1
      <4>2. x = r \/ InSeq(x, results[j])
        BY <1>1, <4>1, InPush
      <4> QED BY <1>2, <3>1, <4>2
    <3>2. CASE k # j
      BY <1>1, <1>6, <3>2
    <3> QED BY <3>1, <3>2
  <2>2. Settled' /\ \A k \in Jobs : Pushed(k)' <=> Pushed(k)
    BY <1>1, <1>3, <1>4, <1>6, <2>1, SettledFrame
  <2>3. \A k \in Jobs : PhaseOf(k)' = PhaseOf(k) /\ Told(k)' = Told(k)
    BY <1>1, <1>3, <1>6, <2>2, PhaseFrame DEF Told
  <2> QED BY <2>2, <2>3, NothingHappens DEF Maps
<1> QED BY <1>5, <1>6 DEF PushResult

\* A job runs: it was pending, and nothing of it was reported.
LEMMA HandleMaps ==
  ASSUME TypeInv, Custody, Earned, Settled, NEW w \in Workers, NEW r \in Reply, HandleJob(w, r)
  PROVE  Maps
<1> PICK j : j = hand[w]
  OBVIOUS
<1> PICK a : a = AccountOf[j]
  OBVIOUS
<1>1. /\ j \in Jobs /\ a \in Accounts /\ step[w] = "busy"
      /\ UNCHANGED <<queue, req, results, hand, sent>>
      /\ done' = [done EXCEPT ![a] = Append(done[a], j)]
      /\ done \in [Accounts -> Seq(Jobs)]
      /\ outcome' = [outcome EXCEPT ![j] = r]
      /\ outcome \in [Jobs -> Reply \cup {"none"}]
      /\ reply' = [reply EXCEPT ![w] = r]
      /\ reply \in [Workers -> Reply \cup {"none"}]
      /\ step' = [step EXCEPT ![w] = "done"]
      /\ step \in [Workers -> {"off", "idle", "busy", "done", "pushed"}]
      /\ AccountOf \in [Jobs -> Accounts]
  BY JobQueueAssumption DEF HandleJob, TypeInv, TypeOK, LoopInv, clientVars
<1>2. ~Ran(j)
  BY <1>1 DEF Custody
<1>3. \A k : InSeq(k, done'[a]) <=> InSeq(k, done[a]) \/ k = j
  BY <1>1, InAppend
<1>4. \A k \in Jobs : (Ran(k)' <=> Ran(k) \/ k = j) /\ (k # j => outcome'[k] = outcome[k])
  BY <1>1, <1>3 DEF Ran
<1>5. outcome[j] = "none" /\ results[j] = <<>>
  BY <1>1, <1>2 DEF Earned, EarnedOnTheWay, Settled, Agrees
<1>6. \A k \in Jobs : /\ Pushed(k)' <=> Pushed(k)
                      /\ Queued(k)' <=> Queued(k)
                      /\ HeldBy(k)' = HeldBy(k)
  BY <1>1 DEF Pushed, Queued, HeldBy
<1>7. \A k \in Jobs : Told(k)' = Told(k)
  BY <1>1 DEF Told
<1>8. ASSUME NEW v \in Workers, step'[v] \in {"done", "pushed"} PROVE Backed(v)'
  <2>1. CASE v = w
    BY <1>1, <2>1 DEF Backed
  <2>2. CASE v # w
    <3>1. /\ step[v] \in {"done", "pushed"} /\ hand'[v] = hand[v] /\ reply'[v] = reply[v]
      BY <1>1, <1>8, <2>2
    <3>2. Ran(hand[v]) /\ hand[v] \in Jobs /\ Backed(v)
      BY <3>1 DEF Earned, EarnedOnTheWay, TypeInv, LoopInv, Settled, Agrees
    <3>3. outcome'[hand[v]] = outcome[hand[v]]
      BY <1>2, <1>4, <3>2
    <3> QED BY <3>1, <3>2, <3>3 DEF Backed
  <2> QED BY <2>1, <2>2
<1>9. ASSUME NEW k \in Jobs, NEW x \in Reply, InSeq(x, results'[k]) PROVE Reports(x, k)'
  <2>1. InSeq(x, results[k]) /\ results[k] # <<>>
    BY <1>1, <1>9 DEF InSeq
  <2>2. k # j
    BY <1>5, <2>1
  <2>3. Reports(x, k) /\ outcome'[k] = outcome[k]
    BY <1>4, <2>1, <2>2 DEF Settled, Agrees
  <2> QED BY <2>3 DEF Reports
<1>10. \A k \in Jobs : Ran(k)' <=> outcome'[k] # "none"
  BY <1>1, <1>4 DEF Settled, Agrees, Reply
<1>11. Settled'
  <2>1. ASSUME NEW k \in Jobs PROVE Agrees(k)'
    <3>1. Agrees(k) /\ UNCHANGED req
      BY <1>1 DEF Settled
    <3> QED BY <1>6, <1>9, <1>10, <3>1 DEF Agrees
  <2> QED BY <1>8, <2>1 DEF Settled
<1>12. PhaseOf(j) = "pending"
  <2>1. w \in HeldBy(j)
    BY DEF HeldBy
  <2>2. Pushed(j)
    BY <1>1, <2>1 DEF Settled, Agrees
  <2> QED BY <1>5, <2>1, <2>2 DEF PhaseOf, Pushed
<1>13. \A k \in Jobs : PhaseOf(k)' = IF k = j THEN r ELSE PhaseOf(k)
  <2>1. PhaseOf(j)' = r
    BY <1>1 DEF PhaseOf, Reply
  <2>2. \A k \in Jobs : k # j => PhaseOf(k)' = PhaseOf(k)
    BY <1>4, <1>6, PhaseFrame
  <2> QED BY <2>1, <2>2
<1> QED BY <1>1, <1>7, <1>11, <1>12, <1>13, OnePhase DEF Maps

\* Every step of the queue is a step of the life cycle or a stutter, and keeps Settled.
LEMMA NextMaps == TypeInv /\ Custody /\ Earned /\ Settled /\ [Next]_jqVars => Maps
<1> SUFFICES ASSUME TypeInv, Custody, Earned, Settled, [Next]_jqVars PROVE Maps
  OBVIOUS
<1>1. CASE UNCHANGED jqVars
  <2>1. UNCHANGED <<queue, hand, step, reply, outcome, sent, done, req, results>>
    BY <1>1 DEF jqVars, clientVars, workerVars, history
  <2>2. Settled' /\ \A k \in Jobs : PhaseOf(k)' = PhaseOf(k)
    BY <2>1, RequestFrame
  <2>3. \A k \in Jobs : Told(k)' = Told(k)
    BY <2>1 DEF Told
  <2> QED BY <2>2, <2>3, NothingHappens DEF Maps
<1> HIDE DEF Maps, Settled, Agrees, Earned, Custody, TypeInv
<1> QED BY <1>1, RequestMaps, SubmitMaps, DeathMaps, StopMaps, WorkerMaps, PopMaps, HandleMaps,
     PushMaps DEF Next, Request, Loop

\* Every behaviour of the queue, its requesters and its workers is one JobLifecycle allows.
THEOREM JobQueueImplementsLifecycle == Spec => ImplementsLifecycle
<1>1. Maps => Settled' /\ [Lifecycle!Next]_(Lifecycle!lifeVars)
  BY DEF Maps
<1>2. Spec => []Settled
  BY <1>1, InitSettled, NextMaps, InitTypeInv, NextTypeInv, InitCustody, NextCustody,
     InitEarned, NextEarned, PTL DEF Spec
<1> QED BY <1>1, <1>2, InitLifecycle, InitSettled, NextMaps, InitTypeInv, NextTypeInv,
     InitCustody, NextCustody, InitEarned, NextEarned,
     PTL DEF Spec, ImplementsLifecycle, Lifecycle!Spec
=============================================================================
