---------------------------- MODULE BatchProofs ----------------------------
(***************************************************************************)
(* Proofs about Batch, for any number of URLs and domains, any number of   *)
(* posts per callback, and any number of faults.                           *)
(***************************************************************************)
EXTENDS Batch, TLAPS

(***************************************************************************)
(* The inductive invariant.                                                *)
(***************************************************************************)

\* create_batch goes through the URLs in order: the jobs up to made are out, the next one
\* may be marked, and nothing exists of the others.
Created ==
  /\ \A j \in Jobs : j <= made <=> (j \in queue \/ work[j] # "none")
  /\ \A j \in Jobs : j > made => shown[j] \in {"absent", "pending"}
  /\ \A j \in Jobs : j > made + 1 => shown[j] = "absent"
  /\ handler \in {"checking", "refused", "denied"} => made = 0 /\ \A j \in Jobs : shown[j] = "absent"
  /\ handler = "answered" => info # "none"
  /\ info # "none" => made = N

\* What the worker's step says about the status; once the job is done only expiry changes it.
Worked(j) ==
  /\ j \in queue => work[j] = "none"
  /\ work[j] = "ending" => shown[j] = "failed"
  /\ j \in expired => work[j] = "done" /\ shown[j] = "absent"
  /\ j <= made /\ shown[j] = "absent" => j \in expired
  /\ stops = 0 /\ work[j] \in {"none", "started"} => shown[j] \notin Job!Terminal

\* A callback is scheduled by the last step of its task, with the status shown then; it is
\* lost with the worker if the job has to run again.
Called(j) ==
  /\ cb[j] = "pending" => /\ work[j] \in {"returning", "done"}
                          /\ told[j] \in Job!Terminal /\ (shown[j] = told[j] \/ j \in expired)
  /\ heard[j] # {} => work[j] \in {"returning", "done"} \/ j \in again
  /\ \A s \in heard[j] : shown[j] = s \/ j \in expired \cup again

HasEnded(j) == shown[j] \in Job!Terminal \/ j \in expired

\* What was counted has ended, and a poll under way has passed no job that an earlier one
\* counted without taking it up.
Polled ==
  /\ poll.kind # "none" => made = N
  /\ stops = 0 =>
       /\ \A j \in reported : HasEnded(j)
       /\ poll.kind = "status" => \A j \in poll.ended : HasEnded(j)
       /\ poll.kind # "none" => \A j \in reported :
            j < poll.next => j \in poll.ended \/ (poll.kind = "results" /\ j \in expired)

IInv == TypeOK /\ Created /\ Polled /\ \A j \in Jobs : Worked(j) /\ Called(j)

-----------------------------------------------------------------------------
\* The jobs are numbers, and the next one to be made is a job.
LEMMA JobNumbers ==
  /\ N \in Nat \ {0} /\ MaxRetries \in Nat \ {0} /\ MaxFaults \in Nat
  /\ \A j \in Jobs : j \in Nat /\ j >= 1 /\ j <= N
  /\ \A m \in 0 .. N : m < N => m + 1 \in Jobs
  BY BatchAssumption DEF Jobs

LEMMA InitIInv == Init => IInv
  <1> SUFFICES ASSUME Init PROVE IInv
    OBVIOUS
  <1> USE JobNumbers DEF Init, Job!Init, Hook!Init, Idle
  <1>1. TypeOK
    BY DEF TypeOK, Job!Shown, Job!Work, Job!Working, Job!Terminal, Hook!CbSteps, Kinds
  <1>2. Created /\ Polled
    BY DEF Created, Polled
  <1>3. \A j \in Jobs : Worked(j) /\ Called(j)
    BY DEF Worked, Called, Job!Terminal
  <1> QED BY <1>1, <1>2, <1>3 DEF IInv

\* What a poll has counted when it reads the next job has ended ...
LEMMA CountedHaveEnded ==
  ASSUME IInv, stops = 0, poll.kind = "status"
  PROVE  \A j \in Counted : HasEnded(j)
  <1> SUFFICES ASSUME NEW j \in Counted PROVE HasEnded(j)
    OBVIOUS
  <1>1. poll.next \in Jobs /\ made = N
    BY DEF IInv, TypeOK, Polled
  <1>2. CASE j \in poll.ended
    BY <1>2 DEF IInv, Polled
  <1>3. CASE j = poll.next /\ CountsAsEnded(poll.kind, shown[j])
    <2>1. shown[j] \in Job!Terminal \/ shown[j] = "absent"
      BY <1>3 DEF CountsAsEnded, Job!Terminal
    <2> QED BY <1>1, <1>3, <2>1, JobNumbers DEF IInv, Worked, HasEnded
  <1> QED BY <1>2, <1>3 DEF Counted

\* ... and leaves out none that an earlier poll counted, but for what the results cannot show.
LEMMA CountedCovers ==
  ASSUME IInv, stops = 0, poll.kind # "none"
  PROVE  \A j \in reported : j < poll.next + 1 => j \in Counted \/ (poll.kind = "results" /\ j \in expired)
  <1> SUFFICES ASSUME NEW j \in reported, j < poll.next + 1
               PROVE  j \in Counted \/ (poll.kind = "results" /\ j \in expired)
    OBVIOUS
  <1>0. j \in Jobs /\ HasEnded(j) /\ j \in Nat /\ poll.next \in Nat
    BY JobNumbers DEF IInv, TypeOK, Polled
  <1>1. CASE j < poll.next
    BY <1>1 DEF IInv, Polled, Counted
  <1>2. CASE j = poll.next
    <2>1. poll.kind \in {"status", "results"}
      BY DEF IInv, TypeOK, Kinds
    <2>2. CountsAsEnded(poll.kind, shown[j]) \/ (poll.kind = "results" /\ j \in expired)
      BY <1>0, <2>1 DEF IInv, HasEnded, Worked, CountsAsEnded, Job!Terminal
    <2> QED BY <1>2, <2>2 DEF Counted
  <1> QED BY <1>0, <1>1, <1>2

\* Every step of the handler, of a worker, of a delivery, of a poll and of a fault
\* preserves the invariant.
LEMMA NextIInv == IInv /\ [Next]_vars => IInv'
  <1> SUFFICES ASSUME IInv, [Next]_vars PROVE IInv'
    OBVIOUS
  <1> USE JobNumbers DEF IInv, jobVars, callbackVars, createVars, pollVars, bounds,
          Job!Terminal, Job!Working
  <1>1. CASE Refuse
    <2> USE <1>1 DEF Refuse
    <2>1. TypeOK'
      BY DEF TypeOK, Job!Shown, Job!Work, Hook!CbSteps
    <2>2. Created'
      BY DEF TypeOK, Created, Worked
    <2>3. ASSUME NEW i \in Jobs PROVE Worked(i)'
      BY <2>3 DEF TypeOK, Created, Worked
    <2>4. ASSUME NEW i \in Jobs PROVE Called(i)'
      BY <2>4 DEF TypeOK, Created, Worked, Called
    <2>5. Polled'
      BY DEF TypeOK, Created, Worked, Polled, HasEnded
    <2> QED BY <2>1, <2>2, <2>3, <2>4, <2>5
  <1>2. ASSUME NEW d \in Domains, CheckDomain(d) PROVE IInv'
    <2> USE <1>2 DEF CheckDomain
    <2>1. TypeOK'
      BY DEF TypeOK, Job!Shown, Job!Work, Hook!CbSteps
    <2>2. Created'
      BY DEF TypeOK, Created, Worked
    <2>3. ASSUME NEW i \in Jobs PROVE Worked(i)'
      BY <2>3 DEF TypeOK, Created, Worked
    <2>4. ASSUME NEW i \in Jobs PROVE Called(i)'
      BY <2>4 DEF TypeOK, Created, Worked, Called
    <2>5. Polled'
      BY DEF TypeOK, Created, Worked, Polled, HasEnded
    <2> QED BY <2>1, <2>2, <2>3, <2>4, <2>5
  <1>3. CASE AcceptJob
    <2> USE <1>3 DEF AcceptJob, Job!Accept, Job!Shows
    <2>1. TypeOK'
      BY DEF TypeOK, Job!Shown, Job!Work, Hook!CbSteps
    <2>2. Created'
      BY DEF TypeOK, Created, Worked
    <2>3. ASSUME NEW i \in Jobs PROVE Worked(i)'
      BY <2>3 DEF TypeOK, Created, Worked
    <2>4. ASSUME NEW i \in Jobs PROVE Called(i)'
      BY <2>4 DEF TypeOK, Created, Worked, Called
    <2>5. Polled'
      BY DEF TypeOK, Created, Worked, Polled, HasEnded
    <2> QED BY <2>1, <2>2, <2>3, <2>4, <2>5
  <1>4. CASE EnqueueJob
    <2> USE <1>4 DEF EnqueueJob, Job!Enqueue
    <2>1. TypeOK'
      BY DEF TypeOK, Job!Shown, Job!Work, Hook!CbSteps
    <2>2. Created'
      BY DEF TypeOK, Created, Worked
    <2>3. ASSUME NEW i \in Jobs PROVE Worked(i)'
      BY <2>3 DEF TypeOK, Created, Worked
    <2>4. ASSUME NEW i \in Jobs PROVE Called(i)'
      BY <2>4 DEF TypeOK, Created, Worked, Called
    <2>5. Polled'
      BY DEF TypeOK, Created, Worked, Polled, HasEnded
    <2> QED BY <2>1, <2>2, <2>3, <2>4, <2>5
  <1>5. CASE SaveBatchInfo
    <2> USE <1>5 DEF SaveBatchInfo
    <2>1. TypeOK'
      BY DEF TypeOK, Job!Shown, Job!Work, Hook!CbSteps
    <2>2. Created'
      BY DEF TypeOK, Created, Worked
    <2>3. ASSUME NEW i \in Jobs PROVE Worked(i)'
      BY <2>3 DEF TypeOK, Created, Worked
    <2>4. ASSUME NEW i \in Jobs PROVE Called(i)'
      BY <2>4 DEF TypeOK, Created, Worked, Called
    <2>5. Polled'
      BY DEF TypeOK, Created, Worked, Polled, HasEnded
    <2> QED BY <2>1, <2>2, <2>3, <2>4, <2>5
  <1>6. ASSUME NEW j \in Jobs, SettleJob(j) PROVE IInv'
    <2> USE <1>6 DEF SettleJob, Job!Settle, Hook!Schedule
    <2>1. TypeOK'
      BY DEF TypeOK, Job!Shown, Job!Work, Hook!CbSteps
    <2>2. Created'
      BY DEF TypeOK, Created, Worked
    <2>3. ASSUME NEW i \in Jobs PROVE Worked(i)'
      BY <2>3 DEF TypeOK, Created, Worked
    <2>4. ASSUME NEW i \in Jobs PROVE Called(i)'
      BY <2>4 DEF TypeOK, Created, Worked, Called
    <2>5. Polled'
      BY DEF TypeOK, Created, Worked, Polled, HasEnded
    <2> QED BY <2>1, <2>2, <2>3, <2>4, <2>5
  <1>7. CASE HandlerDies
    <2> USE <1>7 DEF HandlerDies
    <2>1. TypeOK'
      BY DEF TypeOK, Job!Shown, Job!Work, Hook!CbSteps
    <2>2. Created'
      BY DEF TypeOK, Created, Worked
    <2>3. ASSUME NEW i \in Jobs PROVE Worked(i)'
      BY <2>3 DEF TypeOK, Created, Worked
    <2>4. ASSUME NEW i \in Jobs PROVE Called(i)'
      BY <2>4 DEF TypeOK, Created, Worked, Called
    <2>5. Polled'
      BY DEF TypeOK, Created, Worked, Polled, HasEnded
    <2> QED BY <2>1, <2>2, <2>3, <2>4, <2>5
  <1>8. ASSUME NEW j \in Jobs, CompleteJob(j) PROVE IInv'
    <2> USE <1>8 DEF CompleteJob, Job!Complete, Job!Shows
    <2>1. TypeOK'
      BY DEF TypeOK, Job!Shown, Job!Work, Hook!CbSteps
    <2>2. Created'
      BY DEF TypeOK, Created, Worked
    <2>3. ASSUME NEW i \in Jobs PROVE Worked(i)'
      BY <2>3 DEF TypeOK, Created, Worked
    <2>4. ASSUME NEW i \in Jobs PROVE Called(i)'
      BY <2>4 DEF TypeOK, Created, Worked, Called
    <2>5. Polled'
      BY DEF TypeOK, Created, Worked, Polled, HasEnded
    <2> QED BY <2>1, <2>2, <2>3, <2>4, <2>5
  <1>9. ASSUME NEW j \in Jobs, RunJob(j) PROVE IInv'
    <2> USE <1>9 DEF RunJob, Job!Start, Job!Begin, Job!Fail, Job!Shows, Job!Moves
    <2>1. TypeOK'
      BY DEF TypeOK, Job!Shown, Job!Work, Hook!CbSteps
    <2>2. Created'
      BY DEF TypeOK, Created, Worked
    <2>3. ASSUME NEW i \in Jobs PROVE Worked(i)'
      BY <2>3 DEF TypeOK, Created, Worked
    <2>4. ASSUME NEW i \in Jobs PROVE Called(i)'
      BY <2>4 DEF TypeOK, Created, Worked, Called
    <2>5. Polled'
      BY DEF TypeOK, Created, Worked, Polled, HasEnded
    <2> QED BY <2>1, <2>2, <2>3, <2>4, <2>5
  <1>10. ASSUME NEW j \in Jobs, FinishJob(j) PROVE IInv'
    <2> USE <1>10 DEF FinishJob, Job!Finish, Job!Moves
    <2>1. TypeOK'
      BY DEF TypeOK, Job!Shown, Job!Work, Hook!CbSteps
    <2>2. Created'
      BY DEF TypeOK, Created, Worked
    <2>3. ASSUME NEW i \in Jobs PROVE Worked(i)'
      BY <2>3 DEF TypeOK, Created, Worked
    <2>4. ASSUME NEW i \in Jobs PROVE Called(i)'
      BY <2>4 DEF TypeOK, Created, Worked, Called
    <2>5. Polled'
      BY DEF TypeOK, Created, Worked, Polled, HasEnded
    <2> QED BY <2>1, <2>2, <2>3, <2>4, <2>5
  <1>11. ASSUME NEW j \in Jobs, AbandonJob(j) PROVE IInv'
    <2> USE <1>11 DEF AbandonJob, Job!Abandon
    <2>1. TypeOK'
      BY DEF TypeOK, Job!Shown, Job!Work, Hook!CbSteps
    <2>2. Created'
      BY DEF TypeOK, Created, Worked
    <2>3. ASSUME NEW i \in Jobs PROVE Worked(i)'
      BY <2>3 DEF TypeOK, Created, Worked
    <2>4. ASSUME NEW i \in Jobs PROVE Called(i)'
      BY <2>4 DEF TypeOK, Created, Worked, Called
    <2>5. Polled'
      BY DEF TypeOK, Created, Worked, Polled, HasEnded
    <2> QED BY <2>1, <2>2, <2>3, <2>4, <2>5
  <1>12. ASSUME NEW js \in SUBSET Jobs, WorkerStops(js) PROVE IInv'
    <2> USE <1>12 DEF WorkerStops, Job!Lose, Hook!Stop
    <2>1. TypeOK'
      BY DEF TypeOK, Job!Shown, Job!Work, Hook!CbSteps
    <2>2. Created'
      BY DEF TypeOK, Created, Worked
    <2>3. ASSUME NEW i \in Jobs PROVE Worked(i)'
      BY <2>3 DEF TypeOK, Created, Worked
    <2>4. ASSUME NEW i \in Jobs PROVE Called(i)'
      BY <2>4 DEF TypeOK, Created, Worked, Called
    <2>5. Polled'
      BY DEF TypeOK, Created, Worked, Polled, HasEnded
    <2> QED BY <2>1, <2>2, <2>3, <2>4, <2>5
  <1>13. ASSUME NEW j \in Jobs, DeliverCallback(j) PROVE IInv'
    <2> USE <1>13 DEF DeliverCallback, Hook!Deliver, Hook!Guard, Hook!Post, Hook!Posted
    <2>1. TypeOK'
      <3>1. /\ cb' \in [Jobs -> Hook!CbSteps] /\ told' \in [Jobs -> Job!Shown]
            /\ attempts' \in [Jobs -> 0 .. MaxRetries - 1] /\ heard' \in [Jobs -> SUBSET Job!Terminal]
        <4>1. CASE Hook!Guard(j)
          BY <4>1 DEF TypeOK, Hook!CbSteps, Job!Shown
        <4>2. ASSUME NEW arrives \in BOOLEAN, NEW acknowledged \in BOOLEAN, cb[j] = "pending",
                     Hook!Posted(j, arrives, (arrives /\ acknowledged) \/ attempts[j] + 1 = MaxRetries)
              PROVE  /\ cb' \in [Jobs -> Hook!CbSteps] /\ told' \in [Jobs -> Job!Shown]
                     /\ attempts' \in [Jobs -> 0 .. MaxRetries - 1] /\ heard' \in [Jobs -> SUBSET Job!Terminal]
          <5>1. told[j] \in Job!Terminal /\ attempts[j] \in 0 .. MaxRetries - 1
            BY <4>2 DEF TypeOK, Called
          <5>2. cb' \in [Jobs -> Hook!CbSteps] /\ told' \in [Jobs -> Job!Shown]
            BY <4>2 DEF TypeOK, Hook!CbSteps, Job!Shown
          <5>3. heard' \in [Jobs -> SUBSET Job!Terminal]
            BY <4>2, <5>1 DEF TypeOK
          <5>4. attempts' \in [Jobs -> 0 .. MaxRetries - 1]
            <6> DEFINE ret == (arrives /\ acknowledged) \/ attempts[j] + 1 = MaxRetries
                       n   == IF ret THEN 0 ELSE attempts[j] + 1
            <6>1. attempts' = [attempts EXCEPT ![j] = n]
              BY <4>2
            <6>2. 0 \in 0 .. MaxRetries - 1
              OBVIOUS
            <6>3. attempts[j] + 1 # MaxRetries => attempts[j] + 1 \in 0 .. MaxRetries - 1
              BY <5>1
            <6>4. n \in 0 .. MaxRetries - 1
              BY <6>2, <6>3, Zenon
            <6> HIDE DEF n
            <6> QED BY <6>1, <6>4 DEF TypeOK
          <5> QED BY <5>2, <5>3, <5>4
        <4> QED BY <4>1, <4>2
      <3> QED BY <3>1 DEF TypeOK
    <2>2. Created'
      BY DEF TypeOK, Created, Worked
    <2>3. ASSUME NEW i \in Jobs PROVE Worked(i)'
      BY <2>3 DEF TypeOK, Created, Worked
    <2>4. ASSUME NEW i \in Jobs PROVE Called(i)'
      BY <2>4 DEF TypeOK, Created, Worked, Called
    <2>5. Polled'
      BY DEF TypeOK, Created, Worked, Polled, HasEnded
    <2> QED BY <2>1, <2>2, <2>3, <2>4, <2>5
  <1>14. ASSUME NEW j \in Jobs, ExpireJob(j) PROVE IInv'
    <2> USE <1>14 DEF ExpireJob
    <2>1. TypeOK'
      BY DEF TypeOK, Job!Shown, Job!Work, Hook!CbSteps
    <2>2. Created'
      BY DEF TypeOK, Created, Worked
    <2>3. ASSUME NEW i \in Jobs PROVE Worked(i)'
      BY <2>3 DEF TypeOK, Created, Worked
    <2>4. ASSUME NEW i \in Jobs PROVE Called(i)'
      BY <2>4 DEF TypeOK, Created, Worked, Called
    <2>5. Polled'
      BY DEF TypeOK, Created, Worked, Polled, HasEnded
    <2> QED BY <2>1, <2>2, <2>3, <2>4, <2>5
  <1>15. CASE ExpireInfo
    <2> USE <1>15 DEF ExpireInfo
    <2>1. TypeOK'
      BY DEF TypeOK, Job!Shown, Job!Work, Hook!CbSteps
    <2>2. Created'
      BY DEF TypeOK, Created, Worked
    <2>3. ASSUME NEW i \in Jobs PROVE Worked(i)'
      BY <2>3 DEF TypeOK, Created, Worked
    <2>4. ASSUME NEW i \in Jobs PROVE Called(i)'
      BY <2>4 DEF TypeOK, Created, Worked, Called
    <2>5. Polled'
      BY DEF TypeOK, Created, Worked, Polled, HasEnded
    <2> QED BY <2>1, <2>2, <2>3, <2>4, <2>5
  <1>16. ASSUME NEW kind \in Kinds \ {"none"}, StartPoll(kind) PROVE IInv'
    <2> USE <1>16 DEF StartPoll
    <2>1. TypeOK'
      BY DEF TypeOK, Job!Shown, Job!Work, Hook!CbSteps
    <2>2. Created'
      BY DEF TypeOK, Created, Worked
    <2>3. ASSUME NEW i \in Jobs PROVE Worked(i)'
      BY <2>3 DEF TypeOK, Created, Worked
    <2>4. ASSUME NEW i \in Jobs PROVE Called(i)'
      BY <2>4 DEF TypeOK, Created, Worked, Called
    <2>5. Polled'
      BY DEF TypeOK, Created, Worked, Polled, HasEnded
    <2> QED BY <2>1, <2>2, <2>3, <2>4, <2>5
  <1>17. CASE ReadJob
    <2> USE <1>17 DEF ReadJob, CountsAsEnded
    <2>a. poll.next \in Jobs /\ poll.next + 1 \in Jobs /\ Counted \subseteq Jobs
      BY DEF TypeOK, Jobs, Counted
    <2>1. TypeOK'
      <3>1. poll' \in [kind : Kinds, next : Jobs, ended : SUBSET Jobs]
        BY <2>a DEF TypeOK
      <3> QED BY <3>1 DEF TypeOK
    <2>2. Created'
      BY DEF TypeOK, Created, Worked
    <2>3. ASSUME NEW i \in Jobs PROVE Worked(i)'
      BY <2>3 DEF TypeOK, Created, Worked
    <2>4. ASSUME NEW i \in Jobs PROVE Called(i)'
      BY <2>4 DEF TypeOK, Created, Worked, Called
    <2>5. Polled'
      <3>1. /\ poll'.kind = poll.kind /\ poll'.next = poll.next + 1 /\ poll.kind # "none"
            /\ poll'.ended = Counted
            /\ reported' = reported /\ made' = made /\ stops' = stops /\ shown' = shown /\ expired' = expired
        BY DEF TypeOK
      <3>2. made = N
        BY DEF Polled
      <3>3. ASSUME stops = 0 PROVE \A j \in reported : HasEnded(j)'
        BY <3>1, <3>3 DEF Polled, HasEnded
      <3>4. stops = 0 /\ poll.kind = "status" => \A j \in Counted : HasEnded(j)'
        BY <3>1, CountedHaveEnded DEF HasEnded
      <3>5. stops = 0 => \A j \in reported : j < poll.next + 1 =>
              j \in Counted \/ (poll.kind = "results" /\ j \in expired)
        BY <3>1, CountedCovers
      <3> QED BY <3>1, <3>2, <3>3, <3>4, <3>5 DEF Polled
    <2> QED BY <2>1, <2>2, <2>3, <2>4, <2>5
  <1>18. CASE AnswerPoll
    <2> USE <1>18 DEF AnswerPoll, Idle
    <2>1. TypeOK'
      <3>1. Idle \in [kind : Kinds, next : Jobs, ended : SUBSET Jobs]
        BY DEF Kinds, Jobs
      <3>2. Counted \subseteq Jobs
        BY DEF Counted, TypeOK
      <3> QED BY <3>1, <3>2 DEF TypeOK
    <2>2. Created'
      BY DEF TypeOK, Created, Worked
    <2>3. ASSUME NEW i \in Jobs PROVE Worked(i)'
      BY <2>3 DEF TypeOK, Created, Worked
    <2>4. ASSUME NEW i \in Jobs PROVE Called(i)'
      BY <2>4 DEF TypeOK, Created, Worked, Called
    <2>5. Polled'
      BY CountedHaveEnded DEF TypeOK, Polled, HasEnded
    <2> QED BY <2>1, <2>2, <2>3, <2>4, <2>5
  <1>19. CASE UNCHANGED vars
    BY <1>19 DEF vars, TypeOK, Created, Worked, Called, Polled, HasEnded
  <1> QED
    BY <1>1, <1>2, <1>3, <1>4, <1>5, <1>6, <1>7, <1>8, <1>9, <1>10, <1>11, <1>12, <1>13, <1>14, <1>15, <1>16, <1>17, <1>18, <1>19
       DEF Next, Create, WorkerStep, Fault, Poll

\* The inductive invariant holds in every reachable state.
THEOREM Invariance == Spec => []IInv
  BY InitIInv, NextIInv, PTL DEF Spec

\* Type correctness: no delivery exceeds its posts, only outcomes are delivered, and a poll
\* reads the jobs of the batch and no other.
THEOREM TypeCorrect == Spec => []TypeOK
  <1>1. IInv => TypeOK
    BY DEF IInv
  <1> QED BY <1>1, Invariance, PTL

\* For any number of URLs, a batch that can be polled has every one of its jobs out, and a
\* batch that was refused or denied left none.
THEOREM BatchesNameTheirJobs == Spec => []BatchNamesItsJobs
  <1>1. IInv => BatchNamesItsJobs
    <2> SUFFICES ASSUME IInv PROVE BatchNamesItsJobs
      OBVIOUS
    <2>1. info # "none" => \A j \in Jobs : j \in queue \/ work[j] # "none"
      BY JobNumbers DEF IInv, Created
    <2>2. ASSUME info = "none", NEW j \in Jobs, shown[j] # "absent" \/ j \in queue
          PROVE  handler \in {"creating", "gone"}
      <3>1. handler \notin {"checking", "refused", "denied"}
        BY <2>2, JobNumbers DEF IInv, Created
      <3>2. handler # "answered"
        BY <2>2 DEF IInv, Created
      <3> QED BY <3>1, <3>2 DEF IInv, TypeOK
    <2> QED BY <2>1, <2>2 DEF BatchNamesItsJobs
  <1> QED BY <1>1, Invariance, PTL

\* For any number of repeated, late or lost posts and lost workers, a delivery under way
\* tells the status that the API shows, and what was heard stays true unless the job had to
\* run again.
THEOREM CallbacksTellTheOutcome == Spec => []CallbackTellsTheOutcome
  <1>1. IInv => CallbackTellsTheOutcome
    BY DEF IInv, Called, CallbackTellsTheOutcome
  <1> QED BY <1>1, Invariance, PTL

\* For any number of jobs that end or expire while a poll reads them, the polls agree with
\* each other and with the jobs, unless a worker was lost.
THEOREM AllPollsAgree == Spec => PollsAgree
  <1> DEFINE A ==
        stops = 0 /\ poll' = Idle =>
          /\ poll.kind = "status" =>
               /\ reported \subseteq reported'
               /\ \A j \in reported' : shown[j] \in Job!Terminal \/ j \in expired
          /\ poll.kind = "results" => reported \subseteq Counted \cup expired
  <1>1. IInv /\ [Next]_vars => [A]_vars
    <2> SUFFICES ASSUME IInv, Next, stops = 0, poll' = Idle, poll.kind # "none" PROVE A
      OBVIOUS
    <2>1. AnswerPoll
      <3>1. poll'.kind = "none"
        BY DEF Idle
      <3>2. ASSUME NEW kind \in Kinds \ {"none"} PROVE ~StartPoll(kind)
        BY DEF StartPoll
      <3>3. ~ReadJob
        BY <3>1 DEF ReadJob, IInv, TypeOK
      <3>4. poll' # poll
        BY <3>1
      <3> QED
        BY <3>2, <3>3, <3>4
           DEF Next, Create, WorkerStep, Fault, Poll, pollVars, Refuse, CheckDomain, AcceptJob, EnqueueJob,
               SaveBatchInfo, HandlerDies, CompleteJob, RunJob, SettleJob, FinishJob, AbandonJob, ExpireJob,
               WorkerStops, DeliverCallback, ExpireInfo
    <2>2. poll.next = N /\ reported' = IF poll.kind = "status" THEN Counted ELSE reported
      BY <2>1 DEF AnswerPoll
    <2>3. \A j \in reported : j \in Nat /\ j < N + 1
      BY JobNumbers DEF IInv, TypeOK
    <2>4. \A j \in reported : j \in Counted \/ (poll.kind = "results" /\ j \in expired)
      BY <2>2, <2>3, CountedCovers
    <2> QED
      BY <2>2, <2>4, CountedHaveEnded DEF HasEnded
  <1> QED
    BY <1>1, Invariance, PTL DEF Spec, PollsAgree
=============================================================================
