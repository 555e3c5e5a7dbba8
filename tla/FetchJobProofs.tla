--------------------------- MODULE FetchJobProofs ---------------------------
(***************************************************************************)
(* Proofs about FetchJob, for any number of requests and worker slots, any *)
(* subset of them that carries the key, and any number of faults.          *)
(***************************************************************************)
EXTENDS FetchJob, TLAPS

(***************************************************************************)
(* The inductive invariant.  Each part relates what one coroutine holds to *)
(* what another one reads: the handler's step to the job's status, the     *)
(* worker's step to the status, and the worker's step to its accounts.     *)
(***************************************************************************)

\* How far a request's handler is tells whether its job exists yet.
ApiPhase(r) ==
  /\ api[r] \in {"idle", "missed"} => status[r] = "absent"
  /\ api[r] = "marked" => status[r] = "pending"
  /\ api[r] \in {"idle", "missed", "marked"} => r \notin queue /\ task[r] = "none"
  /\ api[r] \in {"marked", "queued", "accepted"} => status[r] # "absent"

\* The stored key and every replayed answer name a job with a status, and an answered
\* keyed request has left its key behind.
KeyIsSound ==
  /\ key # NoJob => status[key] # "absent"
  /\ \A r \in Reqs : api[r] = "replayed" => reply[r] \in Reqs /\ status[reply[r]] # "absent"
  /\ \A r \in Keyed : api[r] = "accepted" => key # NoJob

\* A queued job has no task; a task's step tells the status it last wrote.
TaskPhase(j) ==
  /\ j \in queue => task[j] = "none"
  /\ task[j] \in {"fetching", "storing"} => status[j] = "running"
  /\ task[j] \in {"learning", "charging"} => status[j] = "completed"
  /\ task[j] \in {"erring", "billing"} => status[j] = "failed"

\* Before the first start there is no task; the first start sends nothing before its last
\* step, and what it sent is the status it left, also when its worker is lost before arq
\* has removed the job.
Notices(j) ==
  /\ tries[j] = 0 => task[j] = "none" /\ notified[j] = {}
  /\ tries[j] = 1 /\ task[j] \in Active \ {"returning"} => notified[j] = {}
  /\ tries[j] = 1 => \A s \in notified[j] : status[j] = s

\* A running task has its own usage and, up to the fetch, its own crawl still to come.
Accounts(j) ==
  /\ usage[j] + (IF task[j] \in Active \ {"returning"} THEN 1 ELSE 0) <= tries[j] + cancels
  /\ crawled[j] + (IF task[j] \in {"starting", "fetching"} THEN 1 ELSE 0) <= tries[j]

IInv ==
  /\ TypeOK
  /\ KeyIsSound
  /\ \A j \in Reqs : ApiPhase(j) /\ TaskPhase(j) /\ Notices(j) /\ Accounts(j)

LEMMA InitIInv == Init => IInv
  BY JobAssumption DEF Init, IInv, TypeOK, KeyIsSound, ApiPhase, TaskPhase, Notices, Accounts,
     ApiSteps, Statuses, Terminal, TaskSteps, Active, TryBody, Handler

\* Every step of every coroutine preserves the invariant.
LEMMA NextIInv == IInv /\ [Next]_vars => IInv'
  <1> SUFFICES ASSUME IInv, [Next]_vars PROVE IInv'
    OBVIOUS
  <1> USE JobAssumption DEF IInv, ApiSteps, Statuses, Terminal, TaskSteps, Active, TryBody, Handler
  <1>1. ASSUME NEW j \in Reqs, HandleIdempotency(j) PROVE IInv'
    <2> USE <1>1 DEF HandleIdempotency, HandlerStep, workerVars, redisVars, bounds
    <2>1. TypeOK'
      BY DEF TypeOK
    <2>2. KeyIsSound'
      BY DEF TypeOK, KeyIsSound, ApiPhase
    <2>3. ASSUME NEW i \in Reqs PROVE ApiPhase(i)' /\ TaskPhase(i)'
      BY <2>3 DEF TypeOK, ApiPhase, TaskPhase
    <2>4. ASSUME NEW i \in Reqs PROVE Notices(i)'
      BY <2>4 DEF TypeOK, ApiPhase, TaskPhase, Notices
    <2>5. ASSUME NEW i \in Reqs PROVE Accounts(i)'
      BY <2>5 DEF TypeOK, Accounts
    <2> QED BY <2>1, <2>2, <2>3, <2>4, <2>5
  <1>2. ASSUME NEW j \in Reqs, MarkPending(j) PROVE IInv'
    <2> USE <1>2 DEF MarkPending, HandlerStep, workerVars, bounds
    <2>1. TypeOK'
      BY DEF TypeOK
    <2>2. KeyIsSound'
      BY DEF TypeOK, KeyIsSound, ApiPhase
    <2>3. ASSUME NEW i \in Reqs PROVE ApiPhase(i)' /\ TaskPhase(i)'
      BY <2>3 DEF TypeOK, ApiPhase, TaskPhase
    <2>4. ASSUME NEW i \in Reqs PROVE Notices(i)'
      BY <2>4 DEF TypeOK, ApiPhase, TaskPhase, Notices
    <2>5. ASSUME NEW i \in Reqs PROVE Accounts(i)'
      BY <2>5 DEF TypeOK, Accounts
    <2> QED BY <2>1, <2>2, <2>3, <2>4, <2>5
  <1>3. ASSUME NEW j \in Reqs, Enqueue(j) PROVE IInv'
    <2> USE <1>3 DEF Enqueue, HandlerStep, workerVars, redisVars, bounds
    <2>1. TypeOK'
      BY DEF TypeOK
    <2>2. KeyIsSound'
      BY DEF TypeOK, KeyIsSound, ApiPhase
    <2>3. ASSUME NEW i \in Reqs PROVE ApiPhase(i)' /\ TaskPhase(i)'
      BY <2>3 DEF TypeOK, ApiPhase, TaskPhase
    <2>4. ASSUME NEW i \in Reqs PROVE Notices(i)'
      BY <2>4 DEF TypeOK, ApiPhase, TaskPhase, Notices
    <2>5. ASSUME NEW i \in Reqs PROVE Accounts(i)'
      BY <2>5 DEF TypeOK, Accounts
    <2> QED BY <2>1, <2>2, <2>3, <2>4, <2>5
  <1>4. ASSUME NEW j \in Reqs, StoreIdempotency(j) PROVE IInv'
    <2> USE <1>4 DEF StoreIdempotency, HandlerStep, workerVars, redisVars, bounds
    <2>1. TypeOK'
      BY DEF TypeOK
    <2>2. KeyIsSound'
      BY DEF TypeOK, KeyIsSound, ApiPhase
    <2>3. ASSUME NEW i \in Reqs PROVE ApiPhase(i)' /\ TaskPhase(i)'
      BY <2>3 DEF TypeOK, ApiPhase, TaskPhase
    <2>4. ASSUME NEW i \in Reqs PROVE Notices(i)'
      BY <2>4 DEF TypeOK, ApiPhase, TaskPhase, Notices
    <2>5. ASSUME NEW i \in Reqs PROVE Accounts(i)'
      BY <2>5 DEF TypeOK, Accounts
    <2> QED BY <2>1, <2>2, <2>3, <2>4, <2>5
  <1>5. ASSUME NEW j \in Reqs, HandlerDies(j) PROVE IInv'
    <2> USE <1>5 DEF HandlerDies, workerVars, redisVars, bounds
    <2>1. TypeOK'
      BY DEF TypeOK
    <2>2. KeyIsSound'
      BY DEF TypeOK, KeyIsSound, ApiPhase
    <2>3. ASSUME NEW i \in Reqs PROVE ApiPhase(i)' /\ TaskPhase(i)'
      BY <2>3 DEF TypeOK, ApiPhase, TaskPhase
    <2>4. ASSUME NEW i \in Reqs PROVE Notices(i)'
      BY <2>4 DEF TypeOK, ApiPhase, TaskPhase, Notices
    <2>5. ASSUME NEW i \in Reqs PROVE Accounts(i)'
      BY <2>5 DEF TypeOK, Accounts
    <2> QED BY <2>1, <2>2, <2>3, <2>4, <2>5
  <1>6. ASSUME NEW j \in Reqs, Dequeue(j) PROVE IInv'
    <2> USE <1>6 DEF Dequeue, apiVars, redisVars, bounds
    <2>1. TypeOK'
      BY DEF TypeOK
    <2>2. KeyIsSound'
      BY DEF TypeOK, KeyIsSound, ApiPhase
    <2>3. ASSUME NEW i \in Reqs PROVE ApiPhase(i)' /\ TaskPhase(i)'
      BY <2>3 DEF TypeOK, ApiPhase, TaskPhase
    <2>4. ASSUME NEW i \in Reqs PROVE Notices(i)'
      BY <2>4 DEF TypeOK, ApiPhase, TaskPhase, Notices
    <2>5. ASSUME NEW i \in Reqs PROVE Accounts(i)'
      BY <2>5 DEF TypeOK, Accounts
    <2> QED BY <2>1, <2>2, <2>3, <2>4, <2>5
  <1>7. ASSUME NEW j \in Reqs, SetRunning(j) PROVE IInv'
    <2> USE <1>7 DEF SetRunning, TaskStep, apiVars, bounds
    <2>1. TypeOK'
      BY DEF TypeOK
    <2>2. KeyIsSound'
      BY DEF TypeOK, KeyIsSound, ApiPhase
    <2>3. ASSUME NEW i \in Reqs PROVE ApiPhase(i)' /\ TaskPhase(i)'
      BY <2>3 DEF TypeOK, ApiPhase, TaskPhase
    <2>4. ASSUME NEW i \in Reqs PROVE Notices(i)'
      BY <2>4 DEF TypeOK, ApiPhase, TaskPhase, Notices
    <2>5. ASSUME NEW i \in Reqs PROVE Accounts(i)'
      BY <2>5 DEF TypeOK, Accounts
    <2> QED BY <2>1, <2>2, <2>3, <2>4, <2>5
  <1>8. ASSUME NEW j \in Reqs, Fetch(j) PROVE IInv'
    <2> USE <1>8 DEF Fetch, TaskStep, apiVars, redisVars, bounds
    <2>1. TypeOK'
      BY DEF TypeOK
    <2>2. KeyIsSound'
      BY DEF TypeOK, KeyIsSound, ApiPhase
    <2>3. ASSUME NEW i \in Reqs PROVE ApiPhase(i)' /\ TaskPhase(i)'
      BY <2>3 DEF TypeOK, ApiPhase, TaskPhase
    <2>4. ASSUME NEW i \in Reqs PROVE Notices(i)'
      BY <2>4 DEF TypeOK, ApiPhase, TaskPhase, Notices
    <2>5. ASSUME NEW i \in Reqs PROVE Accounts(i)'
      BY <2>5 DEF TypeOK, Accounts
    <2> QED BY <2>1, <2>2, <2>3, <2>4, <2>5
  <1>9. ASSUME NEW j \in Reqs, SetCompleted(j) PROVE IInv'
    <2> USE <1>9 DEF SetCompleted, TaskStep, apiVars, bounds
    <2>1. TypeOK'
      BY DEF TypeOK
    <2>2. KeyIsSound'
      BY DEF TypeOK, KeyIsSound, ApiPhase
    <2>3. ASSUME NEW i \in Reqs PROVE ApiPhase(i)' /\ TaskPhase(i)'
      BY <2>3 DEF TypeOK, ApiPhase, TaskPhase
    <2>4. ASSUME NEW i \in Reqs PROVE Notices(i)'
      BY <2>4 DEF TypeOK, ApiPhase, TaskPhase, Notices
    <2>5. ASSUME NEW i \in Reqs PROVE Accounts(i)'
      BY <2>5 DEF TypeOK, Accounts
    <2> QED BY <2>1, <2>2, <2>3, <2>4, <2>5
  <1>10. ASSUME NEW j \in Reqs, RecordOutcome(j) PROVE IInv'
    <2> USE <1>10 DEF RecordOutcome, TaskStep, apiVars, redisVars, bounds
    <2>1. TypeOK'
      BY DEF TypeOK
    <2>2. KeyIsSound'
      BY DEF TypeOK, KeyIsSound, ApiPhase
    <2>3. ASSUME NEW i \in Reqs PROVE ApiPhase(i)' /\ TaskPhase(i)'
      BY <2>3 DEF TypeOK, ApiPhase, TaskPhase
    <2>4. ASSUME NEW i \in Reqs PROVE Notices(i)'
      BY <2>4 DEF TypeOK, ApiPhase, TaskPhase, Notices
    <2>5. ASSUME NEW i \in Reqs PROVE Accounts(i)'
      BY <2>5 DEF TypeOK, Accounts
    <2> QED BY <2>1, <2>2, <2>3, <2>4, <2>5
  <1>11. ASSUME NEW j \in Reqs, ChargeAndNotify(j) PROVE IInv'
    <2> USE <1>11 DEF ChargeAndNotify, TaskStep, UpsertUsage, apiVars, redisVars, bounds
    <2>1. TypeOK'
      BY DEF TypeOK
    <2>2. KeyIsSound'
      BY DEF TypeOK, KeyIsSound, ApiPhase
    <2>3. ASSUME NEW i \in Reqs PROVE ApiPhase(i)' /\ TaskPhase(i)'
      BY <2>3 DEF TypeOK, ApiPhase, TaskPhase
    <2>4. ASSUME NEW i \in Reqs PROVE Notices(i)'
      <3>1. notified' = [notified EXCEPT ![j] = @ \cup {"completed"}] /\ status' = status /\ tries' = tries
        OBVIOUS
      <3>2. tries[j] = 1 => notified[j] = {} /\ status[j] = "completed"
        BY DEF TypeOK, TaskPhase, Notices
      <3>3. tries[j] # 0 /\ task'[j] = "returning"
        BY DEF TypeOK, Notices, Accounts
      <3>4. CASE i = j
        BY <3>1, <3>2, <3>3, <3>4 DEF TypeOK, Notices
      <3>5. CASE i # j
        BY <2>4, <3>1, <3>5 DEF TypeOK, Notices
      <3> QED BY <3>4, <3>5
    <2>5. ASSUME NEW i \in Reqs PROVE Accounts(i)'
      BY <2>5 DEF TypeOK, Accounts
    <2> QED BY <2>1, <2>2, <2>3, <2>4, <2>5
  <1>12. ASSUME NEW j \in Reqs, Interrupted(j) PROVE IInv'
    <2> USE <1>12 DEF Interrupted, apiVars, redisVars, bounds
    <2>1. TypeOK'
      BY DEF TypeOK
    <2>2. KeyIsSound'
      BY DEF TypeOK, KeyIsSound, ApiPhase
    <2>3. ASSUME NEW i \in Reqs PROVE ApiPhase(i)' /\ TaskPhase(i)'
      BY <2>3 DEF TypeOK, ApiPhase, TaskPhase
    <2>4. ASSUME NEW i \in Reqs PROVE Notices(i)'
      BY <2>4 DEF TypeOK, ApiPhase, TaskPhase, Notices
    <2>5. ASSUME NEW i \in Reqs PROVE Accounts(i)'
      BY <2>5 DEF TypeOK, Accounts
    <2> QED BY <2>1, <2>2, <2>3, <2>4, <2>5
  <1>13. ASSUME NEW j \in Reqs, CancelledInCommit(j) PROVE IInv'
    <2> USE <1>13 DEF CancelledInCommit, TaskStep, UpsertUsage, apiVars, redisVars
    <2>1. TypeOK'
      BY DEF TypeOK
    <2>2. KeyIsSound'
      BY DEF TypeOK, KeyIsSound, ApiPhase
    <2>3. ASSUME NEW i \in Reqs PROVE ApiPhase(i)' /\ TaskPhase(i)'
      BY <2>3 DEF TypeOK, ApiPhase, TaskPhase
    <2>4. ASSUME NEW i \in Reqs PROVE Notices(i)'
      BY <2>4 DEF TypeOK, ApiPhase, TaskPhase, Notices
    <2>5. ASSUME NEW i \in Reqs PROVE Accounts(i)'
      BY <2>5 DEF TypeOK, Accounts
    <2> QED BY <2>1, <2>2, <2>3, <2>4, <2>5
  <1>14. ASSUME NEW j \in Reqs, SetFailed(j) PROVE IInv'
    <2> USE <1>14 DEF SetFailed, TaskStep, apiVars, bounds
    <2>1. TypeOK'
      BY DEF TypeOK
    <2>2. KeyIsSound'
      BY DEF TypeOK, KeyIsSound, ApiPhase
    <2>3. ASSUME NEW i \in Reqs PROVE ApiPhase(i)' /\ TaskPhase(i)'
      BY <2>3 DEF TypeOK, ApiPhase, TaskPhase
    <2>4. ASSUME NEW i \in Reqs PROVE Notices(i)'
      BY <2>4 DEF TypeOK, ApiPhase, TaskPhase, Notices
    <2>5. ASSUME NEW i \in Reqs PROVE Accounts(i)'
      BY <2>5 DEF TypeOK, Accounts
    <2> QED BY <2>1, <2>2, <2>3, <2>4, <2>5
  <1>15. ASSUME NEW j \in Reqs, SetError(j) PROVE IInv'
    <2> USE <1>15 DEF SetError, TaskStep, apiVars, bounds
    <2>1. TypeOK'
      BY DEF TypeOK
    <2>2. KeyIsSound'
      BY DEF TypeOK, KeyIsSound, ApiPhase
    <2>3. ASSUME NEW i \in Reqs PROVE ApiPhase(i)' /\ TaskPhase(i)'
      BY <2>3 DEF TypeOK, ApiPhase, TaskPhase
    <2>4. ASSUME NEW i \in Reqs PROVE Notices(i)'
      BY <2>4 DEF TypeOK, ApiPhase, TaskPhase, Notices
    <2>5. ASSUME NEW i \in Reqs PROVE Accounts(i)'
      BY <2>5 DEF TypeOK, Accounts
    <2> QED BY <2>1, <2>2, <2>3, <2>4, <2>5
  <1>16. ASSUME NEW j \in Reqs, BillFailure(j) PROVE IInv'
    <2> USE <1>16 DEF BillFailure, TaskStep, UpsertUsage, apiVars, redisVars, bounds
    <2>1. TypeOK'
      BY DEF TypeOK
    <2>2. KeyIsSound'
      BY DEF TypeOK, KeyIsSound, ApiPhase
    <2>3. ASSUME NEW i \in Reqs PROVE ApiPhase(i)' /\ TaskPhase(i)'
      BY <2>3 DEF TypeOK, ApiPhase, TaskPhase
    <2>4. ASSUME NEW i \in Reqs PROVE Notices(i)'
      <3>1. notified' = [notified EXCEPT ![j] = @ \cup {"failed"}] /\ status' = status /\ tries' = tries
        OBVIOUS
      <3>2. tries[j] = 1 => notified[j] = {} /\ status[j] = "failed"
        BY DEF TypeOK, TaskPhase, Notices
      <3>3. tries[j] # 0 /\ task'[j] = "returning"
        BY DEF TypeOK, Notices, Accounts
      <3>4. CASE i = j
        BY <3>1, <3>2, <3>3, <3>4 DEF TypeOK, Notices
      <3>5. CASE i # j
        BY <2>4, <3>1, <3>5 DEF TypeOK, Notices
      <3> QED BY <3>4, <3>5
    <2>5. ASSUME NEW i \in Reqs PROVE Accounts(i)'
      BY <2>5 DEF TypeOK, Accounts
    <2> QED BY <2>1, <2>2, <2>3, <2>4, <2>5
  <1>17. ASSUME NEW j \in Reqs, HandlerAborts(j) PROVE IInv'
    <2> USE <1>17 DEF HandlerAborts, UpsertUsage, apiVars, redisVars
    <2>1. TypeOK'
      BY DEF TypeOK
    <2>2. KeyIsSound'
      BY DEF TypeOK, KeyIsSound, ApiPhase
    <2>3. ASSUME NEW i \in Reqs PROVE ApiPhase(i)' /\ TaskPhase(i)'
      BY <2>3 DEF TypeOK, ApiPhase, TaskPhase
    <2>4. ASSUME NEW i \in Reqs PROVE Notices(i)'
      BY <2>4 DEF TypeOK, ApiPhase, TaskPhase, Notices
    <2>5. ASSUME NEW i \in Reqs PROVE Accounts(i)'
      BY <2>5 DEF TypeOK, Accounts
    <2> QED BY <2>1, <2>2, <2>3, <2>4, <2>5
  <1>18. ASSUME NEW j \in Reqs, Killed(j) PROVE IInv'
    <2> USE <1>18 DEF Killed, apiVars, redisVars
    <2>1. TypeOK'
      BY DEF TypeOK
    <2>2. KeyIsSound'
      BY DEF TypeOK, KeyIsSound, ApiPhase
    <2>3. ASSUME NEW i \in Reqs PROVE ApiPhase(i)' /\ TaskPhase(i)'
      BY <2>3 DEF TypeOK, ApiPhase, TaskPhase
    <2>4. ASSUME NEW i \in Reqs PROVE Notices(i)'
      BY <2>4 DEF TypeOK, ApiPhase, TaskPhase, Notices
    <2>5. ASSUME NEW i \in Reqs PROVE Accounts(i)'
      BY <2>5 DEF TypeOK, Accounts
    <2> QED BY <2>1, <2>2, <2>3, <2>4, <2>5
  <1>19. ASSUME NEW j \in Reqs, FinishJob(j) PROVE IInv'
    <2> USE <1>19 DEF FinishJob, TaskStep, apiVars, redisVars, bounds
    <2>1. TypeOK'
      BY DEF TypeOK
    <2>2. KeyIsSound'
      BY DEF TypeOK, KeyIsSound, ApiPhase
    <2>3. ASSUME NEW i \in Reqs PROVE ApiPhase(i)' /\ TaskPhase(i)'
      BY <2>3 DEF TypeOK, ApiPhase, TaskPhase
    <2>4. ASSUME NEW i \in Reqs PROVE Notices(i)'
      BY <2>4 DEF TypeOK, ApiPhase, TaskPhase, Notices
    <2>5. ASSUME NEW i \in Reqs PROVE Accounts(i)'
      BY <2>5 DEF TypeOK, Accounts
    <2> QED BY <2>1, <2>2, <2>3, <2>4, <2>5
  <1>20. CASE UNCHANGED vars
    BY <1>20 DEF vars, TypeOK, KeyIsSound, ApiPhase, TaskPhase, Notices, Accounts
  <1> QED
    BY <1>1, <1>2, <1>3, <1>4, <1>5, <1>6, <1>7, <1>8, <1>9, <1>10, <1>11, <1>12, <1>13, <1>14, <1>15, <1>16, <1>17, <1>18, <1>19,
       <1>20
       DEF Next, ApiStep, WorkerStep, Fault

\* The inductive invariant holds in every reachable state.
THEOREM Invariance == Spec => []IInv
  BY InitIInv, NextIInv, PTL DEF Spec

\* Type correctness: the fault counters respect their bounds, the key holds the id of a
\* keyed request, and only the two outcomes are ever sent.
THEOREM TypeCorrect == Spec => []TypeOK
  <1>1. IInv => TypeOK
    BY DEF IInv
  <1> QED BY <1>1, Invariance, PTL

\* For any number of racing and dying handlers, a replayed answer names a job whose
\* status can be read.
THEOREM ReplaysFindTheJob == Spec => []ReplayFindsTheJob
  <1>1. IInv => ReplayFindsTheJob
    BY DEF IInv, KeyIsSound, ReplayFindsTheJob
  <1> QED BY <1>1, Invariance, PTL

\* For any number of jobs and slots, the callback of a job that ran once tells the status
\* that a poll reads.
THEOREM CallbacksMatch == Spec => []CallbackMatchesStatus
  <1>1. IInv => CallbackMatchesStatus
    BY DEF IInv, Notices, CallbackMatchesStatus
  <1> QED BY <1>1, Invariance, PTL

\* However many workers die, a job is counted at most once per start and once per
\* cancellation that caught the usage commit, and fetches at most once per start.
THEOREM UsageIsBounded == Spec => []UsageBounded
  <1>1. IInv => UsageBounded
    <2> SUFFICES ASSUME IInv, NEW j \in Reqs
                 PROVE  usage[j] <= tries[j] + cancels /\ crawled[j] <= tries[j]
      BY DEF UsageBounded
    <2>1. /\ usage[j] \in Nat /\ tries[j] \in Nat /\ crawled[j] \in Nat /\ cancels \in Nat
          /\ Accounts(j)
      BY JobAssumption DEF IInv, TypeOK
    <2> QED
      BY <2>1 DEF Accounts
  <1> QED BY <1>1, Invariance, PTL

\* However many requests carry the key, one that looks it up after another was answered
\* starts no job of its own.
THEOREM AnsweredKeyIsFinal == Spec => AnsweredKeyStartsNoJob
  <1> DEFINE A == \A r \in Keyed : api[r] = "idle" /\ api'[r] = "missed"
                                     => \A s \in Keyed : api[s] # "accepted"
  <1>1. IInv /\ [Next]_vars => [A]_vars
    <2> SUFFICES ASSUME IInv, Next, NEW r \in Keyed, NEW s \in Keyed,
                        api[r] = "idle", api'[r] = "missed", api[s] = "accepted"
                 PROVE  FALSE
      OBVIOUS
    <2>1. key # NoJob
      BY DEF IInv, KeyIsSound
    <2>2. api \in [Reqs -> ApiSteps] /\ r \in Reqs
      BY JobAssumption DEF IInv, TypeOK
    <2>3. PICK j \in Reqs : ApiStep(j) \/ WorkerStep(j) \/ Fault(j)
      BY DEF Next
    <2>4. HandleIdempotency(r)
      BY <2>2, <2>3 DEF ApiStep, WorkerStep, Fault, HandlerStep, TaskStep, apiVars,
         HandleIdempotency, MarkPending, Enqueue, StoreIdempotency, HandlerDies, Dequeue, SetRunning,
         Fetch, SetCompleted, RecordOutcome, ChargeAndNotify, Interrupted, CancelledInCommit,
         SetFailed, SetError, BillFailure, FinishJob, HandlerAborts, Killed
    <2> QED
      BY <2>1, <2>2, <2>4 DEF HandleIdempotency, HandlerStep
  <1> QED
    BY <1>1, Invariance, PTL DEF Spec, AnsweredKeyStartsNoJob

-----------------------------------------------------------------------------
(***************************************************************************)
(* The refinement: every step of a handler, a worker or a fault is a step  *)
(* of JobLifecycle, or changes nothing that it talks about.                *)
(***************************************************************************)

\* The work that the contract sees after a task moves.
LEMMA WorkMoves ==
  ASSUME TypeOK, NEW j \in Reqs, NEW to \in TaskSteps, task' = [task EXCEPT ![j] = to]
  PROVE  [i \in Reqs |-> WorkOf(task[i])]'
           = [[i \in Reqs |-> WorkOf(task[i])] EXCEPT ![j] = WorkOf(to)]
  <1>1. \A i \in Reqs : task'[i] = IF i = j THEN to ELSE task[i]
    BY DEF TypeOK
  <1>2. \A i \in Reqs : WorkOf(task[i])' = IF i = j THEN WorkOf(to) ELSE WorkOf(task[i])
    <2> SUFFICES ASSUME NEW i \in Reqs
                 PROVE  WorkOf(task[i])' = IF i = j THEN WorkOf(to) ELSE WorkOf(task[i])
      OBVIOUS
    <2>1. CASE i = j
      <3>1. task'[i] = to
        BY <1>1, <2>1
      <3> QED BY <2>1, <3>1, Zenon DEF WorkOf
    <2>2. CASE i # j
      <3>1. task'[i] = task[i]
        BY <1>1, <2>2
      <3> QED BY <2>2, <3>1, Zenon DEF WorkOf
    <2> QED BY <2>1, <2>2
  <1> QED
    BY <1>2

LEMMA StepRefines == IInv /\ [Next]_vars => [Contract!Next]_(Contract!jobVars)
  <1> SUFFICES ASSUME IInv, [Next]_vars PROVE Contract!Next \/ UNCHANGED Contract!jobVars
    OBVIOUS
  <1> DEFINE work == [i \in Reqs |-> WorkOf(task[i])]
  <1>a. ASSUME NEW j \in Reqs
        PROVE  TypeOK /\ ApiPhase(j) /\ TaskPhase(j) /\ work[j] = WorkOf(task[j])
    BY <1>a DEF IInv
  <1>b. ASSUME NEW j \in Reqs, NEW to \in TaskSteps, task' = [task EXCEPT ![j] = to]
        PROVE  work' = [work EXCEPT ![j] = WorkOf(to)]
    BY <1>b, WorkMoves DEF IInv
  <1>c. ASSUME NEW j \in Reqs, NEW to \in TaskSteps, WorkOf(task[j]) = WorkOf(to),
               task' = [task EXCEPT ![j] = to]
        PROVE  work' = work
    BY <1>a, <1>b, <1>c
  <1>d. ASSUME task' = task PROVE work' = work
    BY <1>d
  <1> HIDE DEF work
  <1>1. ASSUME NEW j \in Reqs, HandleIdempotency(j) \/ StoreIdempotency(j) \/ HandlerDies(j) \/ SetError(j)
                                 \/ Fetch(j) \/ RecordOutcome(j) \/ CancelledInCommit(j)
        PROVE  UNCHANGED Contract!jobVars
    <2>1. status' = status /\ queue' = queue
      BY <1>1 DEF HandleIdempotency, StoreIdempotency, HandlerDies, SetError, Fetch, RecordOutcome,
                  CancelledInCommit, redisVars
    <2>2. CASE HandleIdempotency(j) \/ StoreIdempotency(j) \/ HandlerDies(j)
      BY <2>1, <2>2, <1>d DEF HandleIdempotency, StoreIdempotency, HandlerDies, workerVars, Contract!jobVars, work
    <2>3. CASE SetError(j) \/ Fetch(j) \/ RecordOutcome(j) \/ CancelledInCommit(j)
      <3>1. work' = work
        BY <2>3, <1>c DEF SetError, Fetch, RecordOutcome, CancelledInCommit, TaskStep, WorkOf, TaskSteps,
                          Active, TryBody, Handler
      <3> QED
        BY <2>1, <3>1 DEF Contract!jobVars, work
    <2> QED BY <1>1, <2>2, <2>3
  <1>2. ASSUME NEW j \in Reqs, MarkPending(j) PROVE Contract!Accept(j)
    BY <1>2, <1>a, <1>d DEF MarkPending, HandlerStep, ApiPhase, workerVars, work, Contract!Accept, Contract!Shows
  <1>3. ASSUME NEW j \in Reqs, Enqueue(j) PROVE Contract!Enqueue(j)
    BY <1>3, <1>a, <1>d DEF Enqueue, HandlerStep, ApiPhase, workerVars, redisVars, work, WorkOf, Contract!Enqueue
  <1>4. ASSUME NEW j \in Reqs, Dequeue(j) PROVE Contract!Start(j)
    <2>1. work' = [work EXCEPT ![j] = "started"] /\ work[j] = "none"
      BY <1>4, <1>a, <1>b DEF Dequeue, TaskPhase, WorkOf, TaskSteps, Active, TryBody
    <2> QED
      BY <1>4, <2>1 DEF Dequeue, redisVars, work, Contract!Start, Contract!Moves
  <1>5. ASSUME NEW j \in Reqs, SetRunning(j) PROVE Contract!Begin(j)
    <2>1. work' = [work EXCEPT ![j] = "running"] /\ work[j] = "started"
      BY <1>5, <1>a, <1>b DEF SetRunning, TaskStep, WorkOf, TaskSteps, Active, TryBody
    <2> QED
      BY <1>5, <2>1 DEF SetRunning, work, Contract!Begin, Contract!Moves, Contract!Shows
  <1>6. ASSUME NEW j \in Reqs, Interrupted(j) PROVE Contract!Begin(j) \/ UNCHANGED Contract!jobVars
    <2>1. status' = status /\ queue' = queue
      BY <1>6 DEF Interrupted, redisVars
    <2>2. CASE task[j] = "starting"
      <3>1. work' = [work EXCEPT ![j] = "running"] /\ work[j] = "started"
        BY <1>6, <2>2, <1>a, <1>b DEF Interrupted, WorkOf, TaskSteps, Active, Handler
      <3> QED
        BY <2>1, <3>1 DEF work, Contract!Begin, Contract!Moves
    <2>3. CASE task[j] # "starting"
      <3>1. work' = work
        BY <1>6, <2>3, <1>c DEF Interrupted, WorkOf, TaskSteps, Active, Handler, TryBody
      <3> QED
        BY <2>1, <3>1 DEF Contract!jobVars, work
    <2> QED BY <2>2, <2>3
  <1>7. ASSUME NEW j \in Reqs, SetCompleted(j) PROVE Contract!Complete(j)
    <2>1. work' = work /\ work[j] = "running"
      BY <1>7, <1>a, <1>c DEF SetCompleted, TaskStep, WorkOf, TaskSteps, Active, TryBody
    <2>2. status[j] = "running"
      BY <1>7, <1>a DEF SetCompleted, TaskStep, TaskPhase
    <2> QED
      BY <1>7, <2>1, <2>2 DEF SetCompleted, work, Contract!Complete, Contract!Shows
  <1>8. ASSUME NEW j \in Reqs, SetFailed(j) PROVE Contract!Fail(j)
    <2>1. work' = [work EXCEPT ![j] = "ending"] /\ work[j] = "running"
      BY <1>8, <1>a, <1>b DEF SetFailed, TaskStep, WorkOf, TaskSteps, Active, Handler
    <2> QED
      BY <1>8, <2>1 DEF SetFailed, work, Contract!Fail, Contract!Moves, Contract!Shows
  <1>9. ASSUME NEW j \in Reqs, ChargeAndNotify(j) \/ BillFailure(j) PROVE Contract!Settle(j)
    <2>1. work' = [work EXCEPT ![j] = "returning"]
      BY <1>9, <1>b DEF ChargeAndNotify, BillFailure, TaskStep, WorkOf, TaskSteps, Active
    <2>2. (work[j] = "running" /\ status[j] = "completed") \/ work[j] = "ending"
      BY <1>9, <1>a DEF ChargeAndNotify, BillFailure, TaskStep, TaskPhase, WorkOf
    <2> QED
      BY <1>9, <2>1, <2>2 DEF ChargeAndNotify, BillFailure, redisVars, work, Contract!Settle
  <1>10. ASSUME NEW j \in Reqs, HandlerAborts(j) PROVE Contract!Abandon(j)
    <2>1. work' = [work EXCEPT ![j] = "returning"] /\ work[j] \in {"running", "ending"}
      BY <1>10, <1>a, <1>b DEF HandlerAborts, WorkOf, TaskSteps, Active, Handler
    <2> QED
      BY <1>10, <2>1 DEF HandlerAborts, redisVars, work, Contract!Abandon
  <1>11. ASSUME NEW j \in Reqs, Killed(j) PROVE Contract!Lose({j})
    <2>1. work' = [work EXCEPT ![j] = "none"] /\ work[j] \in {"started", "running", "ending", "returning"}
      BY <1>11, <1>a, <1>b DEF Killed, WorkOf, TaskSteps, Active, TryBody, Handler
    <2>2. work' = [i \in Reqs |-> IF i \in {j} THEN "none" ELSE work[i]]
      BY <2>1 DEF work
    <2> QED
      BY <1>11, <2>1, <2>2 DEF Killed, redisVars, work, Contract!Lose, Contract!Working
  <1>12. ASSUME NEW j \in Reqs, FinishJob(j) PROVE Contract!Finish(j)
    <2>1. work' = [work EXCEPT ![j] = "done"] /\ work[j] = "returning"
      BY <1>12, <1>a, <1>b DEF FinishJob, TaskStep, WorkOf, TaskSteps
    <2> QED
      BY <1>12, <2>1 DEF FinishJob, redisVars, work, Contract!Finish, Contract!Moves
  <1>13. CASE UNCHANGED vars
    BY <1>13, <1>d DEF vars, Contract!jobVars, work
  <1> QED
    BY <1>1, <1>2, <1>3, <1>4, <1>5, <1>6, <1>7, <1>8, <1>9, <1>10, <1>11, <1>12, <1>13
       DEF Next, ApiStep, WorkerStep, Fault, Contract!Next

\* The API handlers, the queue, the worker task and every fault together implement
\* JobLifecycle, for any number of jobs, slots and faults.
THEOREM JobsKeepTheContract == Spec => JobContract
  <1>1. Init => Contract!Init
    BY DEF Init, Contract!Init, WorkOf
  <1> QED
    BY <1>1, StepRefines, Invariance, PTL DEF Spec, JobContract, Contract!Spec
=============================================================================
