-------------------------------- MODULE Batch --------------------------------
(***************************************************************************)
(* POST /v1/batches and the two endpoints that poll a batch                *)
(* (api/v1/endpoints/batches.py, services/batch_service.py), on top of the *)
(* jobs' contract (JobLifecycle) and the delivery of their callbacks       *)
(* (Callback).                                                             *)
(*                                                                         *)
(* One handler creates the batch: it charges every domain, enqueues one    *)
(* job per URL in order, saves the batch info and answers; it may die at   *)
(* any await.  A client polls status or results; the poll reads the jobs   *)
(* one by one while workers go on.  Every request has a callback URL.  A   *)
(* job ends before its status expires.                                     *)
(***************************************************************************)
EXTENDS Integers, FiniteSets

CONSTANTS
  N,          \* the number of URLs
  Domains,    \* the domains of the URLs
  MaxRetries, \* posts per callback
  MaxFaults   \* bound on error handlers that break and worker processes that stop

Jobs == 1 .. N

ASSUME BatchAssumption ==
  N \in Nat \ {0} /\ MaxRetries \in Nat \ {0} /\ MaxFaults \in Nat

VARIABLES
  shown, queue, work,           \* the jobs, see JobLifecycle
  cb, told, attempts, heard,    \* their callbacks, see Callback
  handler,   \* where create_crawl_batch is
  charged,   \* the domains charged so far
  made,      \* how many jobs create_batch has appended to job_ids
  info,      \* Redis: batch:{id}
  expired,   \* the jobs whose status has expired
  poll,      \* the poll under way
  reported,  \* history: the jobs the last status poll counted as completed
  again,     \* history: the jobs whose worker was lost after the receiver heard of them
  aborts, stops   \* faults so far, against their bound

jobVars      == <<shown, queue, work>>
callbackVars == <<cb, told, attempts, heard>>
createVars   == <<handler, charged, made, info>>
pollVars     == <<poll, reported>>
bounds       == <<again, aborts, stops>>
vars         == <<jobVars, callbackVars, createVars, expired, pollVars, bounds>>

Job  == INSTANCE JobLifecycle
Hook == INSTANCE Callback

Idle  == [kind |-> "none", next |-> 1, ended |-> {}]
Kinds == {"none", "status", "results"}

Init ==
  /\ Job!Init
  /\ Hook!Init
  /\ handler = "checking" /\ charged = {} /\ made = 0 /\ info = "none"
  /\ expired = {}
  /\ poll = Idle /\ reported = {}
  /\ again = {} /\ aborts = 0 /\ stops = 0

-----------------------------------------------------------------------------
(* create_crawl_batch and create_batch                                     *)

\* The SSRF check of the URLs, before anything else.
Refuse ==
  /\ handler = "checking" /\ charged = {}
  /\ handler' = "refused"
  /\ UNCHANGED <<jobVars, callbackVars, charged, made, info, expired, pollVars, bounds>>

\* One domain is charged, or its limiter denies and the loop stops.
CheckDomain(d) ==
  /\ handler = "checking" /\ d \notin charged
  /\ \/ charged' = charged \cup {d} /\ handler' = handler
     \/ charged' = charged /\ handler' = "denied"
  /\ UNCHANGED <<jobVars, callbackVars, made, info, expired, pollVars, bounds>>

\* JobService.enqueue for the next URL: the pending status ...
AcceptJob ==
  /\ \/ handler = "checking" /\ charged = Domains
     \/ handler = "creating"
  /\ made < N
  /\ handler' = "creating"
  /\ Job!Accept(made + 1)
  /\ UNCHANGED <<callbackVars, charged, made, info, expired, pollVars, bounds>>

\* Faulty variant: a failure to enqueue is swallowed and the loop goes on.
EnqueueJob_Swallows ==
  /\ handler = "creating" /\ made < N
  /\ \/ Job!Enqueue(made + 1)
     \/ shown[made + 1] = "pending" /\ UNCHANGED jobVars
  /\ made' = made + 1
  /\ UNCHANGED <<callbackVars, handler, charged, info, expired, pollVars, bounds>>

\* ... then the arq job, and the id is appended to job_ids.
EnqueueJob ==
  /\ handler = "creating" /\ made < N
  /\ Job!Enqueue(made + 1)
  /\ made' = made + 1
  /\ UNCHANGED <<callbackVars, handler, charged, info, expired, pollVars, bounds>>

\* The batch can be polled and the client is answered (whether the answer still gets to it
\* changes nothing here).
SaveBatchInfo ==
  /\ handler = "creating" /\ made = N
  /\ handler' = "answered"
  /\ info' = "saved"
  /\ UNCHANGED <<jobVars, callbackVars, charged, made, expired, pollVars, bounds>>

\* Redis or the database fails, or the API process dies: the client gets no batch id.
HandlerDies ==
  /\ handler \in {"checking", "creating"}
  /\ handler' = "gone"
  /\ UNCHANGED <<jobVars, callbackVars, charged, made, info, expired, pollVars, bounds>>

-----------------------------------------------------------------------------
(* The jobs and their callbacks                                            *)

\* Faulty variant: the callback is scheduled as soon as the result is stored.
CompleteJob_Notifies(j) ==
  /\ Job!Complete(j)
  /\ Hook!Schedule(j, "completed")
  /\ UNCHANGED <<createVars, expired, pollVars, bounds>>

CompleteJob(j) ==
  /\ Job!Complete(j)
  /\ UNCHANGED <<callbackVars, createVars, expired, pollVars, bounds>>

RunJob(j) ==
  /\ Job!Start(j) \/ Job!Begin(j) \/ Job!Fail(j)
  /\ UNCHANGED <<callbackVars, createVars, expired, pollVars, bounds>>

\* The last step of a task schedules the callback.
SettleJob(j) ==
  /\ Job!Settle(j)
  /\ Hook!Schedule(j, shown[j])
  /\ UNCHANGED <<createVars, expired, pollVars, bounds>>

\* The delivery may be over by then or still to come.
FinishJob(j) ==
  /\ Job!Finish(j)
  /\ UNCHANGED <<callbackVars, createVars, expired, pollVars, bounds>>

AbandonJob(j) ==
  /\ aborts + stops < MaxFaults
  /\ Job!Abandon(j)
  /\ aborts' = aborts + 1
  /\ UNCHANGED <<callbackVars, createVars, expired, pollVars, again, stops>>

\* A worker process stops with the jobs and the deliveries it has at that time: a job whose
\* task has not returned runs again, announced or not.
WorkerStops(js) ==
  /\ aborts + stops < MaxFaults
  /\ LET busy    == {j \in js : work[j] \in Job!Working}
         pending == {j \in js : cb[j] = "pending"}
     IN  /\ js # {} /\ js = busy \cup pending
         /\ Job!Lose(busy)
         /\ Hook!Stop(pending)
         /\ again' = again \cup {j \in busy : heard[j] # {}}
  /\ stops' = stops + 1
  /\ UNCHANGED <<createVars, expired, pollVars, aborts>>

DeliverCallback(j) ==
  /\ Hook!Deliver(j)
  /\ UNCHANGED <<jobVars, createVars, expired, pollVars, bounds>>

\* The status of a finished job and the batch info live equally long, each from its last
\* write: any of them may be gone first.
ExpireJob(j) ==
  /\ work[j] = "done" /\ shown[j] # "absent"
  /\ shown' = [shown EXCEPT ![j] = "absent"]
  /\ expired' = expired \cup {j}
  /\ UNCHANGED <<queue, work, callbackVars, createVars, pollVars, bounds>>

ExpireInfo ==
  /\ info = "saved"
  /\ info' = "expired"
  /\ UNCHANGED <<jobVars, callbackVars, handler, charged, made, expired, pollVars, bounds>>

-----------------------------------------------------------------------------
(* get_batch_status and get_batch_results                                  *)

\* Without info the answer is 404.
StartPoll(kind) ==
  /\ poll.kind = "none" /\ info = "saved"
  /\ poll' = [kind |-> kind, next |-> 1, ended |-> {}]
  /\ UNCHANGED <<jobVars, callbackVars, createVars, expired, reported, bounds>>

\* Faulty variant: the status endpoint takes a missing job for a pending one.
CountsAsEnded_MissingIsPending(kind, status) == status \in {"completed", "failed"}

\* _STATE_MAP and _TERMINAL_STATES: status takes a missing job for a failed one, results
\* leaves it out.
CountsAsEnded(kind, status) ==
  \/ status \in {"completed", "failed"}
  \/ status = "absent" /\ kind = "status"

\* The jobs counted as ended when the next one is read.
Counted == poll.ended \cup {j \in {poll.next} : CountsAsEnded(poll.kind, shown[j])}

ReadJob ==
  /\ poll.kind # "none" /\ poll.next < N
  /\ poll' = [poll EXCEPT !.next = @ + 1, !.ended = Counted]
  /\ UNCHANGED <<jobVars, callbackVars, createVars, expired, reported, bounds>>

\* The last job is read, and the poll answered.
AnswerPoll ==
  /\ poll.kind # "none" /\ poll.next = N
  /\ poll' = Idle
  /\ reported' = IF poll.kind = "status" THEN Counted ELSE reported
  /\ UNCHANGED <<jobVars, callbackVars, createVars, expired, bounds>>

-----------------------------------------------------------------------------

Create ==
  \/ Refuse \/ \E d \in Domains : CheckDomain(d)
  \/ AcceptJob \/ EnqueueJob \/ SaveBatchInfo \/ HandlerDies

WorkerStep(j) == RunJob(j) \/ CompleteJob(j) \/ SettleJob(j) \/ FinishJob(j)

Fault(j) == AbandonJob(j) \/ ExpireJob(j)

Poll == (\E kind \in Kinds \ {"none"} : StartPoll(kind)) \/ ReadJob \/ AnswerPoll

Next ==
  \/ Create
  \/ \E j \in Jobs : WorkerStep(j) \/ DeliverCallback(j) \/ Fault(j)
  \/ \E js \in SUBSET Jobs : WorkerStops(js)
  \/ ExpireInfo
  \/ Poll

\* Workers poll their queue, tasks have a timeout, posts and pauses are bounded; nothing
\* makes a handler finish or a client poll.  A task that has scheduled its callback returns
\* while it is delivered; the posts are bounded, so neither keeps the other waiting.
Spec ==
  /\ Init /\ [][Next]_vars
  /\ \A j \in Jobs : WF_vars(WorkerStep(j) \/ DeliverCallback(j))

-----------------------------------------------------------------------------
(* Properties.                                                             *)

\* Type correctness: every variable stays in the range that its declaration describes.
TypeOK ==
  /\ shown \in [Jobs -> Job!Shown] /\ queue \subseteq Jobs /\ work \in [Jobs -> Job!Work]
  /\ cb \in [Jobs -> Hook!CbSteps] /\ told \in [Jobs -> Job!Shown]
  /\ attempts \in [Jobs -> 0 .. MaxRetries - 1] /\ heard \in [Jobs -> SUBSET Job!Terminal]
  /\ handler \in {"checking", "refused", "denied", "creating", "answered", "gone"}
  /\ charged \subseteq Domains /\ made \in 0 .. N /\ info \in {"none", "saved", "expired"}
  /\ expired \subseteq Jobs
  /\ poll \in [kind : Kinds, next : Jobs, ended : SUBSET Jobs] /\ reported \subseteq Jobs
  /\ again \subseteq Jobs /\ aborts \in 0 .. MaxFaults /\ stops \in 0 .. MaxFaults

\* A batch that can be polled has every one of its jobs in the queue, at work or ended,
\* whatever the handler met between the first URL and the last; and a job that no batch names
\* exists only while its batch is being created or after the handler died, so that a batch
\* that was refused or rate limited at any domain left nothing.
BatchNamesItsJobs ==
  /\ info # "none" => \A j \in Jobs : j \in queue \/ work[j] # "none"
  /\ info = "none" /\ (\E j \in Jobs : shown[j] # "absent" \/ j \in queue)
       => handler \in {"creating", "gone"}

\* The polls agree with each other and with the jobs, although each reads the jobs one by
\* one while workers go on: a status poll counts jobs that have ended, and all that an earlier
\* one counted, expiry of single jobs included; the results hold every job that was counted
\* and has not expired.  Only a lost worker makes an exception.
PollsAgree ==
  [][stops = 0 /\ poll' = Idle =>
       /\ poll.kind = "status" =>
            /\ reported \subseteq reported'
            /\ \A j \in reported' : shown[j] \in Job!Terminal \/ j \in expired
       /\ poll.kind = "results" => reported \subseteq Counted \cup expired]_vars

\* A delivery under way, also the repeated one of a job that ran again, tells the status
\* that the API shows; and what the receiver heard is what the API shows from then on,
\* unless the worker was lost before arq took the job off its books: the job then runs
\* once more, is shown as running again and may end otherwise.
CallbackTellsTheOutcome ==
  \A j \in Jobs :
    /\ cb[j] = "pending" => told[j] = shown[j] \/ j \in expired
    /\ \A s \in heard[j] : shown[j] = s \/ j \in expired \cup again

\* A batch comes to rest, answered or half created: nothing is queued or at work, every
\* callback was delivered, dropped, given up or lost, and every job that ran shows an outcome
\* as long as it can be read, unless an error handler broke.
BatchSettles ==
  (handler \in {"answered", "gone"}) ~>
    /\ queue = {}
    /\ \A j \in Jobs : work[j] \in {"none", "done"} /\ cb[j] # "pending"
    /\ aborts = 0 => \A j \in Jobs : work[j] = "done" => shown[j] \in Job!Terminal \/ j \in expired
=============================================================================
