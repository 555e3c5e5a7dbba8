------------------------------ MODULE FetchJob ------------------------------
(***************************************************************************)
(* The life of a fetch job: POST /v1/fetch with an idempotency key         *)
(* (api/v1/endpoints/jobs.py, services/job_service.py), the arq queue, and *)
(* the worker task (worker/tasks/fetch_task.py).                           *)
(*                                                                         *)
(* API handlers and worker tasks are asyncio coroutines of different       *)
(* processes that share Redis; one action is what happens between two      *)
(* awaits.  A request mints its own job id, so a job is named by the       *)
(* request that created it.  All keyed requests carry the same key of the  *)
(* same application, and a behaviour is shorter than job_result_ttl_s, so  *)
(* no Redis key expires in it.                                             *)
(***************************************************************************)
EXTENDS Integers, FiniteSets

CONSTANTS
  Reqs,       \* the requests, and the ids of the jobs they create
  Keyed,      \* the requests that carry the idempotency key
  NoJob,      \* no job id
  MaxJobs,    \* worker slots (20 in arq_worker.py)
  MaxCancels, \* bound on cancellations (job timeout, SIGTERM) that hit the usage commit
  MaxAborts,  \* bound on failures of the error handler itself
  MaxKills    \* bound on worker processes that die without running a handler

ASSUME JobAssumption ==
  /\ Keyed \subseteq Reqs
  /\ NoJob \notin Reqs
  /\ MaxJobs \in Nat \ {0}
  /\ MaxCancels \in Nat /\ MaxAborts \in Nat /\ MaxKills \in Nat

VARIABLES
  api,        \* where each request's handler is
  reply,      \* the job id each request was answered with
  key,        \* Redis: idempotency:{application}:{key}
  status,     \* Redis: job:{id}:status
  error,      \* Redis: whether job:{id}:error is set
  queue,      \* the arq queue
  task,       \* where each job's worker task is
  tries,      \* how often arq has started each job
  crawled,    \* history: how often each job ran its fetch
  usage,      \* usage_counters.request_count, split by job
  notified,   \* the callbacks scheduled for each job
  cancels, aborts, kills   \* faults so far, against their bounds

apiVars   == <<api, reply, key>>
redisVars == <<status, error>>
bounds    == <<cancels, aborts, kills>>
vars      == <<api, reply, key, status, error, queue, task, tries, crawled, usage,
               notified, cancels, aborts, kills>>

Terminal == {"completed", "failed"}
Statuses == {"absent", "pending", "running"} \cup Terminal

ApiSteps  == {"idle", "missed", "marked", "queued", "accepted", "replayed", "gone"}
TryBody   == {"starting", "fetching", "storing", "learning"}
Handler   == {"failing", "erring", "billing"}
Active    == TryBody \cup {"charging"} \cup Handler \cup {"returning"}
TaskSteps == {"none", "done"} \cup Active

Init ==
  /\ api = [r \in Reqs |-> "idle"]
  /\ reply = [r \in Reqs |-> NoJob]
  /\ key = NoJob
  /\ status = [j \in Reqs |-> "absent"]
  /\ error = [j \in Reqs |-> FALSE]
  /\ queue = {}
  /\ task = [j \in Reqs |-> "none"]
  /\ tries = [j \in Reqs |-> 0]
  /\ crawled = [j \in Reqs |-> 0]
  /\ usage = [j \in Reqs |-> 0]
  /\ notified = [j \in Reqs |-> {}]
  /\ cancels = 0 /\ aborts = 0 /\ kills = 0

-----------------------------------------------------------------------------
(* POST /v1/fetch                                                          *)

HandlerStep(r, from, to) == api[r] = from /\ api' = [api EXCEPT ![r] = to]

workerVars == <<task, tries, crawled, usage, notified, bounds>>

\* Faulty variant: the key is claimed when it is looked up.
HandleIdempotency_ClaimsEarly(r) ==
  /\ \/ /\ r \in Keyed /\ key # NoJob
        /\ HandlerStep(r, "idle", "replayed")
        /\ reply' = [reply EXCEPT ![r] = key]
        /\ key' = key
     \/ /\ r \in Keyed /\ key = NoJob
        /\ HandlerStep(r, "idle", "missed")
        /\ key' = r
        /\ reply' = reply
  /\ UNCHANGED <<redisVars, queue, workerVars>>

\* The key is known: its job is looked up and returned; otherwise go on.
HandleIdempotency(r) ==
  /\ \/ /\ r \in Keyed /\ key # NoJob
        /\ HandlerStep(r, "idle", "replayed")
        /\ reply' = [reply EXCEPT ![r] = key]
     \/ /\ r \notin Keyed \/ key = NoJob
        /\ HandlerStep(r, "idle", "missed")
        /\ reply' = reply
  /\ UNCHANGED <<key, redisVars, queue, workerVars>>

\* JobService.enqueue: first the pending status ...
MarkPending(r) ==
  /\ HandlerStep(r, "missed", "marked")
  /\ status' = [status EXCEPT ![r] = "pending"]
  /\ UNCHANGED <<reply, key, error, queue, workerVars>>

\* ... then the arq job.
Enqueue(r) ==
  /\ HandlerStep(r, "marked", "queued")
  /\ queue' = queue \cup {r}
  /\ UNCHANGED <<reply, key, redisVars, workerVars>>

\* Faulty variant: the pending status is written once the job is queued.
StoreIdempotency_MarksLate(r) ==
  /\ HandlerStep(r, "queued", "accepted")
  /\ reply' = [reply EXCEPT ![r] = r]
  /\ key' = IF r \in Keyed THEN r ELSE key
  /\ status' = [status EXCEPT ![r] = "pending"]
  /\ UNCHANGED <<error, queue, workerVars>>

\* Faulty variant: the key is not stored.
StoreIdempotency_Forgets(r) ==
  /\ HandlerStep(r, "queued", "accepted")
  /\ reply' = [reply EXCEPT ![r] = r]
  /\ UNCHANGED <<key, redisVars, queue, workerVars>>

\* The key is stored last, then the client is answered.
StoreIdempotency(r) ==
  /\ HandlerStep(r, "queued", "accepted")
  /\ reply' = [reply EXCEPT ![r] = r]
  /\ key' = IF r \in Keyed THEN r ELSE key
  /\ UNCHANGED <<redisVars, queue, workerVars>>

\* The API process dies or Redis fails between two steps; the client gets no answer.
HandlerDies(r) ==
  /\ api[r] \in {"missed", "marked", "queued"}
  /\ api' = [api EXCEPT ![r] = "gone"]
  /\ UNCHANGED <<reply, key, redisVars, queue, workerVars>>

-----------------------------------------------------------------------------
(* fetch_task                                                              *)

TaskStep(j, from, to) == task[j] = from /\ task' = [task EXCEPT ![j] = to]

\* arq starts a queued job in a free slot.
Dequeue(j) ==
  /\ j \in queue
  /\ Cardinality({i \in Reqs : task[i] \in Active}) < MaxJobs
  /\ queue' = queue \ {j}
  /\ task' = [task EXCEPT ![j] = "starting"]
  /\ tries' = [tries EXCEPT ![j] = @ + 1]
  /\ UNCHANGED <<apiVars, redisVars, crawled, usage, notified, bounds>>

SetRunning(j) ==
  /\ TaskStep(j, "starting", "fetching")
  /\ status' = [status EXCEPT ![j] = "running"]
  /\ UNCHANGED <<apiVars, error, queue, tries, crawled, usage, notified, bounds>>

\* Policy, fetch_with_retry, decoding and archiving.
Fetch(j) ==
  /\ TaskStep(j, "fetching", "storing")
  /\ crawled' = [crawled EXCEPT ![j] = @ + 1]
  /\ UNCHANGED <<apiVars, redisVars, queue, tries, usage, notified, bounds>>

\* Status "completed" with the result in the same value.
SetCompleted(j) ==
  /\ TaskStep(j, "storing", "learning")
  /\ status' = [status EXCEPT ![j] = "completed"]
  /\ UNCHANGED <<apiVars, error, queue, tries, crawled, usage, notified, bounds>>

\* Faulty variant: the callback goes out before the usage is committed.
RecordOutcome_Notifies(j) ==
  /\ TaskStep(j, "learning", "charging")
  /\ notified' = [notified EXCEPT ![j] = @ \cup {"completed"}]
  /\ UNCHANGED <<apiVars, redisVars, queue, tries, crawled, usage, bounds>>

\* Faulty variant: the request is counted here as well as in the usage step.
RecordOutcome_Charges(j) ==
  /\ TaskStep(j, "learning", "charging")
  /\ usage' = [usage EXCEPT ![j] = @ + 1]
  /\ UNCHANGED <<apiVars, redisVars, queue, tries, crawled, notified, bounds>>

RecordOutcome(j) ==
  /\ TaskStep(j, "learning", "charging")
  /\ UNCHANGED <<apiVars, redisVars, queue, tries, crawled, usage, notified, bounds>>

\* _upsert_usage commits, or swallows its failure.
UpsertUsage(j) == \E n \in {0, 1} : usage' = [usage EXCEPT ![j] = @ + n]

\* Usage, then the callback, with no await between them; the task returns.
ChargeAndNotify(j) ==
  /\ TaskStep(j, "charging", "returning")
  /\ UpsertUsage(j)
  /\ notified' = [notified EXCEPT ![j] = @ \cup {"completed"}]
  /\ UNCHANGED <<apiVars, redisVars, queue, tries, crawled, bounds>>

\* An exception or a cancellation in the body of the try, at any of its awaits.
Interrupted(j) ==
  /\ task[j] \in TryBody
  /\ task' = [task EXCEPT ![j] = "failing"]
  /\ UNCHANGED <<apiVars, redisVars, queue, tries, crawled, usage, notified, bounds>>

\* A cancellation during the usage commit: the row may have been committed.
CancelledInCommit(j) ==
  /\ cancels < MaxCancels
  /\ TaskStep(j, "charging", "failing")
  /\ UpsertUsage(j)
  /\ cancels' = cancels + 1
  /\ UNCHANGED <<apiVars, redisVars, queue, tries, crawled, notified, aborts, kills>>

\* _set_error: first the status ...
SetFailed(j) ==
  /\ TaskStep(j, "failing", "erring")
  /\ status' = [status EXCEPT ![j] = "failed"]
  /\ UNCHANGED <<apiVars, error, queue, tries, crawled, usage, notified, bounds>>

\* Faulty variant: the error text is not written.
SetError_Skipped(j) ==
  /\ TaskStep(j, "erring", "billing")
  /\ UNCHANGED <<apiVars, redisVars, queue, tries, crawled, usage, notified, bounds>>

\* ... then the error text.
SetError(j) ==
  /\ TaskStep(j, "erring", "billing")
  /\ error' = [error EXCEPT ![j] = TRUE]
  /\ UNCHANGED <<apiVars, status, queue, tries, crawled, usage, notified, bounds>>

BillFailure(j) ==
  /\ TaskStep(j, "billing", "returning")
  /\ UpsertUsage(j)
  /\ notified' = [notified EXCEPT ![j] = @ \cup {"failed"}]
  /\ UNCHANGED <<apiVars, redisVars, queue, tries, crawled, bounds>>

\* Redis fails in the handler, or a second cancellation hits it: the task ends there.
HandlerAborts(j) ==
  /\ aborts < MaxAborts
  /\ task[j] \in Handler
  /\ task' = [task EXCEPT ![j] = "returning"]
  /\ IF task[j] = "billing" THEN UpsertUsage(j) ELSE usage' = usage
  /\ aborts' = aborts + 1
  /\ UNCHANGED <<apiVars, redisVars, queue, tries, crawled, notified, cancels, kills>>

\* arq removes the job once its task has returned or raised.
FinishJob(j) ==
  /\ TaskStep(j, "returning", "done")
  /\ UNCHANGED <<apiVars, redisVars, queue, tries, crawled, usage, notified, bounds>>

\* The worker process dies, perhaps when the outcome is stored and the callback sent: arq
\* still holds the job and starts it again later.
Killed(j) ==
  /\ kills < MaxKills
  /\ task[j] \in Active
  /\ task' = [task EXCEPT ![j] = "none"]
  /\ queue' = queue \cup {j}
  /\ kills' = kills + 1
  /\ UNCHANGED <<apiVars, redisVars, tries, crawled, usage, notified, cancels, aborts>>

-----------------------------------------------------------------------------

ApiStep(r) == HandleIdempotency(r) \/ MarkPending(r) \/ Enqueue(r) \/ StoreIdempotency(r)

WorkerStep(j) ==
  \/ Dequeue(j) \/ SetRunning(j) \/ Fetch(j) \/ SetCompleted(j) \/ RecordOutcome(j)
  \/ ChargeAndNotify(j) \/ SetFailed(j) \/ SetError(j) \/ BillFailure(j) \/ FinishJob(j)

Fault(j) ==
  HandlerDies(j) \/ Interrupted(j) \/ CancelledInCommit(j) \/ HandlerAborts(j) \/ Killed(j)

Next == \E j \in Reqs : ApiStep(j) \/ WorkerStep(j) \/ Fault(j)

\* The worker polls its queue and every await in a task is bounded by the job
\* timeout; nothing makes a client send a request or a handler finish.
Spec == Init /\ [][Next]_vars /\ \A j \in Reqs : WF_vars(WorkerStep(j))

-----------------------------------------------------------------------------
(* Properties.                                                             *)

\* Type correctness: every variable stays in the range that its declaration describes.
TypeOK ==
  /\ api \in [Reqs -> ApiSteps]
  /\ reply \in [Reqs -> Reqs \cup {NoJob}]
  /\ key \in Keyed \cup {NoJob}
  /\ status \in [Reqs -> Statuses]
  /\ error \in [Reqs -> BOOLEAN]
  /\ queue \subseteq Reqs
  /\ task \in [Reqs -> TaskSteps]
  /\ tries \in [Reqs -> Nat]
  /\ crawled \in [Reqs -> Nat]
  /\ usage \in [Reqs -> Nat]
  /\ notified \in [Reqs -> SUBSET Terminal]
  /\ cancels \in 0 .. MaxCancels /\ aborts \in 0 .. MaxAborts /\ kills \in 0 .. MaxKills

\* A replayed answer names a job whose status can be read: get_result on the stored
\* job id never answers 404, whatever handlers race or die around the key.
ReplayFindsTheJob == \A r \in Reqs : api[r] = "replayed" => status[reply[r]] # "absent"

\* Once a request with the key was answered, a later one with the key starts no job of its
\* own: only requests that overlap, or whose handler died, crawl the page twice.
AnsweredKeyStartsNoJob ==
  [][\A r \in Keyed : api[r] = "idle" /\ api'[r] = "missed"
       => \A s \in Keyed : api[s] # "accepted"]_vars

\* The callback sent for a job that ran once tells the status that GET /v1/jobs shows,
\* although the result was stored before it and the job may still fail in between.
CallbackMatchesStatus ==
  \A j \in Reqs : tries[j] = 1 => \A s \in notified[j] : status[j] = s

\* A job is counted at most once per start, plus once for each cancellation that
\* caught the usage commit; it fetches at most once per start.
UsageBounded ==
  \A j \in Reqs : usage[j] <= tries[j] + cancels /\ crawled[j] <= tries[j]

\* Every queued job reaches a terminal status, a failed one with its error text although
\* status and text are two writes, however often its fetch fails, its worker dies or its slot
\* is taken, unless an error handler itself breaks.
JobsFinish ==
  \A j \in Reqs : (j \in queue) ~>
    \/ task[j] = "done" /\ (status[j] = "completed" \/ (status[j] = "failed" /\ error[j]))
    \/ aborts > 0

-----------------------------------------------------------------------------
(* The contract: handlers, worker, faults and restarts implement           *)
(* JobLifecycle.                                                           *)

\* How far a task is, as the contract tells it.
WorkOf(t) ==
  CASE t = "starting" -> "started"
    [] t \in {"fetching", "storing", "learning", "charging", "failing"} -> "running"
    [] t \in {"erring", "billing"} -> "ending"
    [] OTHER -> t

Contract == INSTANCE JobLifecycle
  WITH Jobs <- Reqs, shown <- status, work <- [j \in Reqs |-> WorkOf(task[j])]

\* Whoever polls a job sees the lifecycle of JobLifecycle: nothing before it was accepted,
\* no step back and no change of outcome except completed to failed, running again only
\* after a lost worker, and a task that ends normally leaves an outcome.
JobContract == Contract!Spec
=============================================================================
