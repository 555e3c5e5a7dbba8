----------------------------- MODULE ProxyHealth -----------------------------
(***************************************************************************)
(* Health, cooldown and counters of the proxies: record_success and        *)
(* record_failure (services/proxy_health.py), get_proxy and report_result  *)
(* (services/proxy_manager.py), and the admin's reset                      *)
(* (api/v1/endpoints/proxy.py), used by several jobs at once.              *)
(*                                                                         *)
(* A job reports all its attempts in one session: an UPDATE locks the row  *)
(* until the job commits or rolls back, so a row has a committed version,  *)
(* which get_proxy reads in a session of its own, and at most one newer,   *)
(* uncommitted one.  record_failure reads the failure count, computes the  *)
(* cooldown and only then waits for the lock.  Postgres ends a deadlock by *)
(* aborting one transaction, whose session is of no use from then on.      *)
(***************************************************************************)
EXTENDS Integers, FiniteSets, Sequences, FiniteSetsExt

CONSTANTS
  Jobs, Proxies,
  NoProxy,         \* no proxy; also nobody, as the holder of a lock
  MaxAttempts,     \* proxied attempts of each job
  Base, Cap,       \* COOLDOWN_BASE_S, COOLDOWN_MAX_S
  MaxScore, Decay, Recover,   \* the health score, in units of 0.05
  MaxTime,         \* bound on the clock
  MaxEvents        \* bound on killed and cancelled jobs, lost daily counts, resets, imports

ASSUME HealthAssumption ==
  /\ NoProxy \notin Proxies \cup Jobs
  /\ MaxAttempts \in [Jobs -> Nat \ {0}]
  /\ {Base, Cap, MaxScore, Decay, Recover} \subseteq Nat \ {0}
  /\ {MaxTime, MaxEvents} \subseteq Nat

VARIABLES
  row,       \* the committed rows of the table proxies
  dirty,     \* the uncommitted versions of the locked rows
  lock,      \* the job that has locked each row
  pc,        \* where each job is
  attempt,   \* the attempts it has made
  using,     \* its proxy
  tried,     \* failed_proxy_ids
  seen,      \* new_failures and cooldown_until, computed before the UPDATE
  broken,    \* whether its transaction was aborted
  pin,       \* Redis: sticky:{domain}:{job}
  daily,     \* Redis: requests in proxy:daily:{proxy}:{date}
  reset,     \* the reset under way: the proxy and the attributes it will send
  log,       \* history: the committed reports and resets of each proxy, in order
  filed,     \* history: the reports made since under the lock of each row
  now,
  faults, resets   \* so far, against their bound

sessionVars == <<row, dirty, lock, log, filed>>
jobVars     == <<pc, attempt, using, tried, seen, broken>>
vars        == <<row, dirty, lock, pc, attempt, using, tried, seen, broken, pin, daily,
                 reset, log, filed, now, faults, resets>>

Fresh == [score |-> MaxScore, fails |-> 0, until |-> 0, reqs |-> 0, errs |-> 0,
          at |-> 0, exact |-> TRUE]   \* at, exact: history, see SerialReportsAreExact

NotSeen == [fails |-> 0, until |-> 0, at |-> 0, stale |-> FALSE]
NoReset == [proxy |-> NoProxy, sends |-> {}, stale |-> FALSE]

Waiting == {"crediting", "debiting"}
Steps   == {"picking", "fetching", "counting", "ending", "done"} \cup Waiting

Init ==
  /\ row = [p \in Proxies |-> Fresh]
  /\ dirty = [p \in Proxies |-> Fresh]
  /\ lock = [p \in Proxies |-> NoProxy]
  /\ pc = [j \in Jobs |-> "picking"]
  /\ attempt = [j \in Jobs |-> 0]
  /\ using = [j \in Jobs |-> NoProxy]
  /\ tried = [j \in Jobs |-> {}]
  /\ seen = [j \in Jobs |-> NotSeen]
  /\ broken = [j \in Jobs |-> FALSE]
  /\ pin = [j \in Jobs |-> NoProxy]
  /\ daily = [p \in Proxies |-> 0]
  /\ reset = NoReset
  /\ log = [p \in Proxies |-> <<>>]
  /\ filed = [p \in Proxies |-> <<>>]
  /\ now = 0 /\ faults = 0 /\ resets = 0

Goto(j, step) == pc' = [pc EXCEPT ![j] = step]

\* The locals of a job that is over are gone, and nobody reads its pin again.
JobEnds(j) ==
  /\ Goto(j, "done")
  /\ attempt' = [attempt EXCEPT ![j] = 0]
  /\ broken' = [broken EXCEPT ![j] = FALSE]
  /\ pin' = [pin EXCEPT ![j] = NoProxy]

-----------------------------------------------------------------------------
(* get_proxy                                                               *)

is_on_cooldown(p) == row[p].until > now

Eligible(j) == {p \in Proxies : ~is_on_cooldown(p) /\ p \notin tried[j]}

\* The first attempt of a job that was started before uses its pinned proxy, unless that
\* cools down: then the pin is dropped and the selection goes on.
UsePin(j) == attempt[j] = 0 /\ pin[j] # NoProxy /\ ~is_on_cooldown(pin[j])

GetProxy(j, p) ==
  /\ pc[j] = "picking"
  /\ p \in IF UsePin(j) THEN {pin[j]} ELSE Eligible(j)
  /\ Goto(j, "fetching")
  /\ attempt' = [attempt EXCEPT ![j] = @ + 1]
  /\ using' = [using EXCEPT ![j] = p]
  /\ pin' = IF attempt[j] = 0 THEN [pin EXCEPT ![j] = p] ELSE pin
  /\ UNCHANGED <<sessionVars, tried, seen, broken, daily, reset, now, faults, resets>>

NoProxyLeft(j) ==
  /\ pc[j] = "picking" /\ Eligible(j) = {} /\ ~UsePin(j)
  /\ Goto(j, "ending")
  /\ pin' = IF attempt[j] = 0 THEN [pin EXCEPT ![j] = NoProxy] ELSE pin
  /\ UNCHANGED <<sessionVars, attempt, using, tried, seen, broken, daily, reset, now, faults,
                 resets>>

-----------------------------------------------------------------------------
(* report_result                                                           *)

\* Faulty variant: no cap.
Backoff_NoCap(n) == Base * 2 ^ (n - 1)

Backoff(n) == Min({Base * 2 ^ (n - 1), Cap})

\* What a statement of job j sees, and what its UPDATE starts from.
Visible(j, p) == IF lock[p] = j THEN dirty[p] ELSE row[p]

\* The page came; record_success will update the row.
Succeeds(j) ==
  /\ pc[j] = "fetching" /\ ~broken[j]
  /\ Goto(j, "crediting")
  /\ UNCHANGED <<sessionVars, attempt, using, tried, seen, broken, pin, daily, reset, now, faults,
                 resets>>

\* The attempt failed; record_failure selects the count and computes the cooldown.
ReadFailures(j) ==
  /\ pc[j] = "fetching" /\ ~broken[j]
  /\ LET n == Visible(j, using[j]).fails + 1
     IN  seen' = [seen EXCEPT ![j] =
                    [fails |-> n, until |-> now + Backoff(n), at |-> now, stale |-> FALSE]]
  /\ Goto(j, "debiting")
  /\ UNCHANGED <<sessionVars, attempt, using, tried, broken, pin, daily, reset, now, faults, resets>>

\* The UPDATE waits for the lock and works on the row as it is then.
Update(j, report, new) ==
  LET p == using[j] IN
  /\ lock[p] \in {NoProxy, j}
  /\ lock' = [lock EXCEPT ![p] = j]
  /\ dirty' = [dirty EXCEPT ![p] = new]
  /\ filed' = [filed EXCEPT ![p] = Append(@, report)]
  /\ Goto(j, "counting")
  /\ UNCHANGED <<row, log, attempt, using, tried, seen, broken, pin, daily, reset, now, faults, resets>>

RecordSuccess(j) ==
  /\ pc[j] = "crediting"
  /\ Update(j, "ok", [Visible(j, using[j]) EXCEPT
       !.score = Min({@ + Recover, MaxScore}), !.fails = 0, !.until = 0, !.reqs = @ + 1,
       !.exact = TRUE])

\* Faulty variant: total_errors is written back as the failure count is.
RecordFailure_AbsoluteTotals(j) ==
  /\ pc[j] = "debiting"
  /\ Update(j, "fail", [Visible(j, using[j]) EXCEPT
       !.score = Max({@ - Decay, 0}), !.fails = seen[j].fails, !.until = seen[j].until,
       !.errs = seen[j].fails, !.reqs = @ + 1, !.at = seen[j].at, !.exact = @ /\ ~seen[j].stale])

RecordFailure(j) ==
  /\ pc[j] = "debiting"
  /\ Update(j, "fail", [Visible(j, using[j]) EXCEPT
       !.score = Max({@ - Decay, 0}), !.fails = seen[j].fails, !.until = seen[j].until,
       !.errs = @ + 1, !.reqs = @ + 1, !.at = seen[j].at, !.exact = @ /\ ~seen[j].stale])

\* What follows a report: the call ends, or the proxy is excluded, or the tier is climbed and
\* nobody is, and the loop goes on while attempts are left.
AfterReport(j, ends) ==
  LET goesOn == ~ends /\ attempt[j] < MaxAttempts[j]
      bans   == IF goesOn THEN {{}, tried[j] \cup {using[j]}} ELSE {{}}
  IN
  /\ Goto(j, IF goesOn THEN "picking" ELSE "ending")
  /\ \E ps \in bans : tried' = [tried EXCEPT ![j] = ps]
  /\ using' = [using EXCEPT ![j] = NoProxy]
  /\ seen' = [seen EXCEPT ![j] = NotSeen]

\* The daily count in Redis, whose failure is swallowed.  A success ends the call, and so
\* does a block at the top of the ladder.
RecordDailyAggregate(j) ==
  /\ pc[j] = "counting"
  /\ \/ daily' = [daily EXCEPT ![using[j]] = @ + 1] /\ faults' = faults
     \/ daily' = daily /\ faults + resets < MaxEvents /\ faults' = faults + 1
  /\ \E ends \in BOOLEAN : (seen[j].fails = 0 => ends) /\ AfterReport(j, ends)
  /\ UNCHANGED <<sessionVars, attempt, broken, pin, reset, now, resets>>

\* In an aborted transaction every statement fails, and the report with it: the generic
\* handler goes on, but a report that fails in the handler of a FetchError ends the call.
ReportFails(j) ==
  /\ pc[j] = "fetching" /\ broken[j]
  /\ \E ends \in BOOLEAN : AfterReport(j, ends)
  /\ UNCHANGED <<sessionVars, attempt, broken, pin, daily, reset, now, faults, resets>>

-----------------------------------------------------------------------------
(* The end of a transaction                                                *)

Held(j) == {p \in Proxies : lock[p] = j}

\* The locks of j are released, its uncommitted versions gone.
Release(j) ==
  /\ lock' = [p \in Proxies |-> IF lock[p] = j THEN NoProxy ELSE lock[p]]
  /\ dirty' = [p \in Proxies |-> IF lock[p] = j THEN Fresh ELSE dirty[p]]
  /\ filed' = [p \in Proxies |-> IF lock[p] = j THEN <<>> ELSE filed[p]]

\* Whoever has read a row that now changes has read an old one.
MarkStale(ps, others) ==
  /\ seen' = [j \in Jobs |-> IF j \in others /\ pc[j] = "debiting" /\ using[j] \in ps
                             THEN [seen[j] EXCEPT !.stale = TRUE] ELSE seen[j]]

\* The rows a transaction has written become visible, and its reports are committed.
Commit(j) ==
  /\ pc[j] = "ending"
  /\ row' = [p \in Proxies |-> IF p \in Held(j) THEN dirty[p] ELSE row[p]]
  /\ log' = [p \in Proxies |-> IF p \in Held(j) THEN log[p] \o filed[p] ELSE log[p]]
  /\ Release(j)
  /\ MarkStale(Held(j), Jobs \ {j})
  /\ reset' = [reset EXCEPT !.stale = @ \/ reset.proxy \in Held(j)]
  /\ JobEnds(j)
  /\ UNCHANGED <<using, tried, daily, now, faults, resets>>

\* Faulty variant: the connection goes back to the pool with its transaction open.
Rollback_KeepsLocks(j) ==
  /\ pc[j] = "ending"
  /\ JobEnds(j)
  /\ UNCHANGED <<sessionVars, using, tried, seen, daily, reset, now, faults, resets>>

\* record_outcome rolls back, the commit fails, or the session closes without one.
Rollback(j) ==
  /\ pc[j] = "ending"
  /\ Release(j)
  /\ JobEnds(j)
  /\ UNCHANGED <<row, log, using, tried, seen, daily, reset, now, faults, resets>>

\* The job is cancelled and its handler still commits the session, which is lost if the
\* cancellation hit a statement.
Cancelled(j) ==
  /\ pc[j] \in {"picking", "fetching", "counting"} \cup Waiting
  /\ faults + resets < MaxEvents /\ faults' = faults + 1
  /\ IF pc[j] \in Waiting THEN Release(j) ELSE UNCHANGED <<lock, dirty, filed>>
  /\ Goto(j, "ending")
  /\ using' = [using EXCEPT ![j] = NoProxy]
  /\ tried' = [tried EXCEPT ![j] = {}]
  /\ seen' = [seen EXCEPT ![j] = NotSeen]
  /\ UNCHANGED <<row, log, attempt, broken, pin, daily, reset, now, resets>>

\* The worker dies, the database drops its transaction, and arq starts the job again.
Killed(j) ==
  /\ pc[j] # "done"
  /\ faults + resets < MaxEvents /\ faults' = faults + 1
  /\ Release(j)
  /\ Goto(j, "picking")
  /\ attempt' = [attempt EXCEPT ![j] = 0]
  /\ using' = [using EXCEPT ![j] = NoProxy]
  /\ tried' = [tried EXCEPT ![j] = {}]
  /\ seen' = [seen EXCEPT ![j] = NotSeen]
  /\ broken' = [broken EXCEPT ![j] = FALSE]
  /\ UNCHANGED <<row, log, pin, daily, reset, now, resets>>

Holder(j) == IF pc[j] \in Waiting THEN lock[using[j]] ELSE NoProxy

\* j and others wait in a circle.
InDeadlock(j) ==
  \E js \in SUBSET Jobs :
    /\ j \in js
    /\ {Holder(k) : k \in js} = js
    /\ \A k \in js : Holder(k) # k

\* Postgres aborts one of them; its report fails, which ends the call if it was made in the
\* handler of a FetchError.
DeadlockDetected(j) ==
  /\ InDeadlock(j)
  /\ Release(j)
  /\ broken' = [broken EXCEPT ![j] = TRUE]
  /\ \E ends \in BOOLEAN : (ends => pc[j] = "debiting") /\ AfterReport(j, ends)
  /\ UNCHANGED <<row, log, attempt, pin, daily, reset, now, faults, resets>>

-----------------------------------------------------------------------------
(* reset_proxy, import_proxies, and time                                   *)

\* The row is loaded; the attributes that differ from their new values will be sent.
ResetReads(p) ==
  /\ reset = NoReset /\ faults + resets < MaxEvents
  /\ reset' = [proxy |-> p, stale |-> FALSE,
               sends |-> {f \in {"score", "fails", "until"} : row[p][f] # Fresh[f]}]
  /\ resets' = resets + 1
  /\ UNCHANGED <<sessionVars, jobVars, pin, daily, now, faults>>

ResetWrites ==
  LET p == reset.proxy IN
  /\ p # NoProxy /\ lock[p] = NoProxy
  /\ row' = [row EXCEPT ![p] = [f \in DOMAIN Fresh |->
               IF f \in reset.sends THEN Fresh[f]
               ELSE IF f = "exact" THEN ~reset.stale ELSE row[p][f]]]
  /\ log' = [log EXCEPT ![p] = Append(@, "reset")]
  /\ MarkStale({p}, Jobs)
  /\ reset' = NoReset
  /\ UNCHANGED <<dirty, lock, filed, pc, attempt, using, tried, broken, pin, daily, now, faults,
                 resets>>

\* An import of a proxy that exists: the upsert waits for the lock and writes constants.
ImportUpserts(p) ==
  /\ lock[p] = NoProxy /\ faults + resets < MaxEvents
  /\ row' = [row EXCEPT ![p] = [f \in DOMAIN Fresh |->
               IF f \in {"score", "fails", "until", "exact"} THEN Fresh[f] ELSE row[p][f]]]
  /\ log' = [log EXCEPT ![p] = Append(@, "reset")]
  /\ MarkStale({p}, Jobs)
  /\ reset' = [reset EXCEPT !.stale = @ \/ reset.proxy = p]
  /\ resets' = resets + 1
  /\ UNCHANGED <<dirty, lock, filed, pc, attempt, using, tried, broken, pin, daily, now, faults>>

Tick ==
  /\ now < MaxTime
  /\ now' = now + 1
  /\ UNCHANGED <<sessionVars, jobVars, pin, daily, reset, faults, resets>>

-----------------------------------------------------------------------------

JobStep(j) ==
  \/ (\E p \in Proxies : GetProxy(j, p)) \/ NoProxyLeft(j)
  \/ Succeeds(j) \/ ReadFailures(j) \/ RecordSuccess(j) \/ RecordFailure(j)
  \/ RecordDailyAggregate(j) \/ ReportFails(j) \/ Commit(j) \/ Rollback(j)
  \/ DeadlockDetected(j)

Next ==
  \/ \E j \in Jobs : JobStep(j) \/ Cancelled(j) \/ Killed(j)
  \/ \E p \in Proxies : ResetReads(p) \/ ImportUpserts(p)
  \/ ResetWrites
  \/ Tick

\* Every await of a job has a timeout, and Postgres looks for deadlocks.
Spec == Init /\ [][Next]_vars /\ \A j \in Jobs : WF_vars(JobStep(j))

-----------------------------------------------------------------------------
(* Properties.                                                             *)

Rows == [score : 0 .. MaxScore, fails : Nat, until : Nat, reqs : Nat, errs : Nat,
         at : Nat, exact : BOOLEAN]

\* Type correctness: every variable stays in the range that its declaration describes.
TypeOK ==
  /\ row \in [Proxies -> Rows] /\ dirty \in [Proxies -> Rows]
  /\ lock \in [Proxies -> Jobs \cup {NoProxy}]
  /\ pc \in [Jobs -> Steps] /\ \A j \in Jobs : attempt[j] \in 0 .. MaxAttempts[j]
  /\ using \in [Jobs -> Proxies \cup {NoProxy}] /\ tried \in [Jobs -> SUBSET Proxies]
  /\ seen \in [Jobs -> [fails : Nat, until : Nat, at : Nat, stale : BOOLEAN]]
  /\ broken \in [Jobs -> BOOLEAN] /\ pin \in [Jobs -> Proxies \cup {NoProxy}]
  /\ daily \in [Proxies -> Nat]
  /\ reset \in [proxy : Proxies \cup {NoProxy}, sends : SUBSET {"score", "fails", "until"},
                stale : BOOLEAN]
  /\ log \in [Proxies -> Seq({"ok", "fail", "reset"})]
  /\ filed \in [Proxies -> Seq({"ok", "fail", "reset"})]
  /\ now \in 0 .. MaxTime /\ faults + resets \in 0 .. MaxEvents

Count(s, kinds) == Cardinality({i \in DOMAIN s : s[i] \in kinds})
Streak(s) == Len(s) - Max({0} \cup {i \in DOMAIN s : s[i] # "fail"})

\* total_requests and total_errors are the committed reports, each noted when it was made,
\* however many jobs report at once and whatever is rolled back, aborted or reset: unlike the
\* failure count they are added to in the UPDATE itself.  The daily aggregates in Redis, which
\* are written before the job commits, count no fewer, except for what Redis or a
\* cancellation lost.
TotalsMatchTheReports ==
  \A p \in Proxies :
    /\ row[p].reqs = Count(log[p], {"ok", "fail"})
    /\ row[p].errs = Count(log[p], {"fail"})
    /\ row[p].reqs <= daily[p] + faults

\* As long as no count was read before somebody else's commit and written after it,
\* consecutive_failures is the run of failures since the last success or reset, and the
\* cooldown is the documented backoff for it; the next success or reset repairs a count
\* that was lost.
SerialReportsAreExact ==
  \A p \in Proxies : row[p].exact =>
    LET n == Streak(log[p]) IN
    /\ row[p].fails = n
    /\ row[p].until = IF n = 0 THEN 0 ELSE row[p].at + Min({Base * 2 ^ (n - 1), Cap})

\* Every job comes to its end although reports wait for each other's row locks, in opposite
\* orders too.
ReportsGetTheirTurn == \A j \in Jobs : (pc[j] \in Waiting) ~> (pc[j] = "done")
=============================================================================
