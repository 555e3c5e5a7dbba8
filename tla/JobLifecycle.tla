---------------------------- MODULE JobLifecycle ----------------------------
(***************************************************************************)
(* What a fetch job promises to those who enqueue and poll it, without the *)
(* steps by which handlers and workers keep the promise.  FetchJob         *)
(* implements this specification; Batch builds on it.                      *)
(*                                                                         *)
(* A job is accepted (its status can be read), queued, taken by a worker,  *)
(* shown as running, and shown as completed or failed.  A completed job    *)
(* may still fail while its worker finishes the paper work.  The task then *)
(* returns, and arq takes the job off its books; a worker that is lost     *)
(* before that, with the outcome shown or not, has the job run again, and  *)
(* only then is it shown as running once more.                             *)
(***************************************************************************)
EXTENDS Integers

CONSTANT Jobs

VARIABLES
  shown,   \* the status a poll reads, "absent" when there is none
  queue,   \* the jobs waiting for a worker
  work     \* how far a worker is with each job

jobVars == <<shown, queue, work>>

Terminal == {"completed", "failed"}
Shown    == {"absent", "pending", "running"} \cup Terminal
Working  == {"started", "running", "ending", "returning"}
Work     == {"none", "done"} \cup Working

Init ==
  /\ shown = [j \in Jobs |-> "absent"]
  /\ queue = {}
  /\ work = [j \in Jobs |-> "none"]

Moves(j, from, to) == work[j] = from /\ work' = [work EXCEPT ![j] = to]
Shows(j, s)        == shown' = [shown EXCEPT ![j] = s]

-----------------------------------------------------------------------------

Accept(j) ==
  /\ shown[j] = "absent"
  /\ Shows(j, "pending")
  /\ UNCHANGED <<queue, work>>

Enqueue(j) ==
  /\ shown[j] = "pending" /\ work[j] = "none" /\ j \notin queue
  /\ queue' = queue \cup {j}
  /\ UNCHANGED <<shown, work>>

Start(j) ==
  /\ j \in queue
  /\ queue' = queue \ {j}
  /\ Moves(j, "none", "started")
  /\ UNCHANGED shown

\* Shown as running, or interrupted before that.
Begin(j) ==
  /\ Moves(j, "started", "running")
  /\ \/ Shows(j, "running")
     \/ UNCHANGED shown
  /\ UNCHANGED queue

Complete(j) ==
  /\ work[j] = "running" /\ shown[j] = "running"
  /\ Shows(j, "completed")
  /\ UNCHANGED <<queue, work>>

Fail(j) ==
  /\ Moves(j, "running", "ending")
  /\ Shows(j, "failed")
  /\ UNCHANGED queue

\* The task is done with a job that has its outcome.
Settle(j) ==
  /\ \/ work[j] = "running" /\ shown[j] = "completed"
     \/ work[j] = "ending"
  /\ work' = [work EXCEPT ![j] = "returning"]
  /\ UNCHANGED <<shown, queue>>

\* The error handling itself breaks: the task leaves the job as it is.
Abandon(j) ==
  /\ work[j] \in {"running", "ending"}
  /\ work' = [work EXCEPT ![j] = "returning"]
  /\ UNCHANGED <<shown, queue>>

\* arq has seen the task return: the job is over.
Finish(j) ==
  /\ Moves(j, "returning", "done")
  /\ UNCHANGED <<shown, queue>>

\* A worker process dies with the jobs it had; they wait for another one.
Lose(js) ==
  /\ \A j \in js : work[j] \in Working
  /\ work' = [j \in Jobs |-> IF j \in js THEN "none" ELSE work[j]]
  /\ queue' = queue \cup js
  /\ UNCHANGED shown

Next ==
  \/ \E j \in Jobs :
       Accept(j) \/ Enqueue(j) \/ Start(j) \/ Begin(j) \/ Complete(j) \/ Fail(j)
         \/ Settle(j) \/ Abandon(j) \/ Finish(j)
  \/ \E js \in SUBSET Jobs : Lose(js)

Spec == Init /\ [][Next]_jobVars
=============================================================================
