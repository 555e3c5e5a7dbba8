------------------------------ MODULE Callback ------------------------------
(***************************************************************************)
(* Delivery of the callbacks of finished jobs: _schedule_callback of       *)
(* worker/tasks/fetch_task.py starts a task nobody waits for, and          *)
(* deliver_callback of services/callback.py guards the address and posts   *)
(* the payload up to max_retries times.  Between the post and the          *)
(* receiver everything may get lost, the answer included.                  *)
(***************************************************************************)
EXTENDS Integers

CONSTANTS
  Jobs,
  MaxRetries   \* max_retries (3 in the code)

VARIABLES
  cb,        \* where the delivery of each job's callback is
  told,      \* the status in the payload of a delivery under way
  attempts,  \* the posts of a delivery under way
  heard      \* history: the statuses the receiver was told

callbackVars == <<cb, told, attempts, heard>>

CbSteps == {"none", "pending"}

Init ==
  /\ cb = [j \in Jobs |-> "none"]
  /\ told = [j \in Jobs |-> "absent"]
  /\ attempts = [j \in Jobs |-> 0]
  /\ heard = [j \in Jobs |-> {}]

\* The task is created; it first runs when the scheduler gets to it.  A job that runs again
\* gets another one.
Schedule(j, status) ==
  /\ cb[j] # "pending"
  /\ cb' = [cb EXCEPT ![j] = "pending"]
  /\ told' = [told EXCEPT ![j] = status]
  /\ UNCHANGED <<attempts, heard>>

\* validate_url_async, once before the first post: a refused address, or a name that does
\* not resolve, is dropped.
Guard(j) ==
  /\ cb[j] = "pending" /\ attempts[j] = 0
  /\ cb' = [cb EXCEPT ![j] = "none"]
  /\ told' = [told EXCEPT ![j] = "absent"]
  /\ UNCHANGED <<attempts, heard>>

\* The post arrives or not; deliver_callback returns, or posts once more.
Posted(j, arrives, returns) ==
  /\ heard' = [heard EXCEPT ![j] = IF arrives THEN @ \cup {told[j]} ELSE @]
  /\ cb' = [cb EXCEPT ![j] = IF returns THEN "none" ELSE "pending"]
  /\ attempts' = [attempts EXCEPT ![j] = IF returns THEN 0 ELSE @ + 1]
  /\ told' = [told EXCEPT ![j] = IF returns THEN "absent" ELSE @]

\* Faulty variant: a connection error starts the count again.
Post_CountsAnew(j) ==
  /\ cb[j] = "pending"
  /\ \/ Posted(j, TRUE, TRUE)
     \/ /\ attempts' = [attempts EXCEPT ![j] = 1 - @]
        /\ UNCHANGED <<cb, told, heard>>

\* One post.  It may arrive or not; if it does, the answer may be a 2xx, or an error, or
\* too late, and the payload is posted again after a pause, up to MaxRetries posts.
Post(j) ==
  /\ cb[j] = "pending"
  /\ \E arrives, acknowledged \in BOOLEAN :
       Posted(j, arrives, (arrives /\ acknowledged) \/ attempts[j] + 1 = MaxRetries)

Deliver(j) == Guard(j) \/ Post(j)

\* A worker process stops, and its pending deliveries with it.
Stop(js) ==
  /\ \A j \in js : cb[j] = "pending"
  /\ cb' = [j \in Jobs |-> IF j \in js THEN "none" ELSE cb[j]]
  /\ attempts' = [j \in Jobs |-> IF j \in js THEN 0 ELSE attempts[j]]
  /\ told' = [j \in Jobs |-> IF j \in js THEN "absent" ELSE told[j]]
  /\ UNCHANGED heard
=============================================================================
