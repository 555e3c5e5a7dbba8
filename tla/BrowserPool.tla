----------------------------- MODULE BrowserPool -----------------------------
(***************************************************************************)
(* The browsers of one worker: BrowserPool (worker/browser_pool.py) with   *)
(* the Playwright fetcher that uses it, the per-request Firefox of the     *)
(* Camoufox fetcher, and the worker's startup and shutdown                 *)
(* (worker/tasks/fetch_task.py).                                           *)
(*                                                                         *)
(* The jobs are tasks of one event loop: what lies between two awaits is   *)
(* one step.  An await may be broken, by an exception or by the            *)
(* cancellation of a job that ran into its timeout, and Chromium may die.  *)
(* A broken await may have had its effect or not.                          *)
(*                                                                         *)
(* A driver is the Playwright process.  Each launches at most one browser, *)
(* so the two share a number; a browser ends with its driver.              *)
(***************************************************************************)
EXTENDS Integers, FiniteSets

CONSTANTS
  Jobs,                     \* the browser fetches the worker is given
  MAX_CONCURRENT_BROWSERS,
  MAX_CONCURRENT_CAMOUFOX,
  MaxCrashes,               \* bound on deaths of Chromium
  MaxBreaks                 \* bound on broken awaits

ASSUME PoolAssumption ==
  /\ IsFiniteSet(Jobs)
  /\ MAX_CONCURRENT_BROWSERS \in Nat \ {0} /\ MAX_CONCURRENT_CAMOUFOX \in Nat \ {0}
  /\ MaxCrashes \in Nat /\ MaxBreaks \in Nat

VARIABLES
  phase,           \* of the worker
  camoufox_ready,
  _pw, _browser,   \* the driver and the browser the pool refers to, 0 for None
  drivers, up,     \* the drivers and the Chromium processes that run
  last,            \* the number of the last driver started
  sem, csem,       \* the free permits of the two semaphores
  _lock,           \* whether the pool's lock is held
  pc,              \* the await each job is in
  asked,           \* the browser a job has asked for a context
  ctx,             \* the browser of the context a job has opened, 0 for none
  fox,             \* what runs of a job's own Firefox: "driver", "browser" or "none"
  outcome,         \* what a fetch came to
  broke,           \* history: the await at which a job was broken, or "crash"
  cut,             \* history: the drivers whose start or launch was broken
  crashes, breaks

poolVars  == <<_pw, _browser, drivers, up, last>>
workVars  == <<phase, camoufox_ready>>
semVars   == <<sem, csem, _lock>>
jobVars   == <<pc, asked, ctx, fox, outcome>>
faultVars == <<broke, cut, crashes, breaks>>
vars == <<phase, camoufox_ready, _pw, _browser, drivers, up, last, sem, csem, _lock,
          pc, asked, ctx, fox, outcome, broke, cut, crashes, breaks>>

Init ==
  /\ phase = "starting" /\ camoufox_ready = FALSE
  /\ _pw = 0 /\ _browser = 0 /\ drivers = {} /\ up = {} /\ last = 0
  /\ sem = MAX_CONCURRENT_BROWSERS /\ csem = MAX_CONCURRENT_CAMOUFOX /\ _lock = FALSE
  /\ pc = [j \in Jobs |-> "new"]
  /\ asked = [j \in Jobs |-> 0] /\ ctx = [j \in Jobs |-> 0]
  /\ fox = [j \in Jobs |-> "none"]
  /\ outcome = [j \in Jobs |-> "none"]
  /\ broke = [j \in Jobs |-> "none"]
  /\ cut = {} /\ crashes = 0 /\ breaks = 0

At(j, l)   == pc[j] = l
Go(j, l)   == pc' = [pc EXCEPT ![j] = l]
End(j, o)  == Go(j, "done") /\ outcome' = [outcome EXCEPT ![j] = o]

\* Broken(j) says that the await job j is in is broken.
Broken(j) ==
  /\ breaks < MaxBreaks
  /\ breaks' = breaks + 1
  /\ broke' = [broke EXCEPT ![j] = pc[j]]
  /\ UNCHANGED crashes

-----------------------------------------------------------------------------
(* Worker startup and shutdown                                             *)

\* verify_chromium and browser_pool.start must succeed; verify_camoufox only sets a flag.
startup ==
  /\ phase = "starting"
  /\ \/ /\ phase' = "running"
        /\ _pw' = 1 /\ _browser' = 1 /\ drivers' = {1} /\ up' = {1} /\ last' = 1
        /\ camoufox_ready' \in BOOLEAN
     \/ /\ phase' = "failed"
        /\ UNCHANGED <<poolVars, camoufox_ready>>
  /\ UNCHANGED <<semVars, jobVars, faultVars>>

\* shutdown runs when the worker has no job left under way.  stop closes the browser ...
shutdown ==
  /\ phase = "running"
  /\ \A j \in Jobs : pc[j] \in {"new", "done"}
  /\ \/ /\ phase' = "closing"
        /\ up' = up \ {_browser}
        /\ ctx' = [j \in Jobs |-> IF ctx[j] = _browser THEN 0 ELSE ctx[j]]
        /\ UNCHANGED breaks
     \/ /\ breaks < MaxBreaks /\ breaks' = breaks + 1
        /\ phase' = "stopped"
        /\ UNCHANGED <<up, ctx>>
  /\ UNCHANGED <<camoufox_ready, _pw, _browser, drivers, last, semVars, pc, asked, fox, outcome,
                 broke, cut, crashes>>

\* ... and then the driver, if closing the browser raised nothing.
stop ==
  /\ phase = "closing"
  /\ phase' = "stopped"
  /\ \/ /\ drivers' = drivers \ {_pw}
        /\ up' = up \ {_pw}
        /\ UNCHANGED breaks
     \/ /\ breaks < MaxBreaks /\ breaks' = breaks + 1
        /\ UNCHANGED <<drivers, up>>
  /\ UNCHANGED <<camoufox_ready, _pw, _browser, last, semVars, jobVars, broke, cut, crashes>>

\* A Chromium process dies, with its contexts.
Crash ==
  /\ crashes < MaxCrashes
  /\ crashes' = crashes + 1
  /\ \E b \in up :
       /\ up' = up \ {b}
       /\ ctx' = [j \in Jobs |-> IF ctx[j] = b THEN 0 ELSE ctx[j]]
       /\ broke' = [j \in Jobs |-> IF asked[j] = b /\ pc[j] # "done" /\ broke[j] = "none"
                                   THEN "crash" ELSE broke[j]]
  /\ UNCHANGED <<workVars, _pw, _browser, drivers, last, semVars, pc, asked, fox, outcome, cut, breaks>>

-----------------------------------------------------------------------------
(* PlaywrightFetcher.fetch within BrowserPool.context                      *)

\* A URL that the guard rejects is refused before the pool is asked.
fetch(j) ==
  /\ phase = "running" /\ At(j, "new")
  /\ \/ Go(j, "queue") /\ UNCHANGED outcome
     \/ End(j, "refused")
  /\ UNCHANGED <<workVars, poolVars, semVars, asked, ctx, fox, faultVars>>

AcquireSlot(j) ==
  /\ At(j, "queue") /\ sem > 0
  /\ sem' = sem - 1
  /\ Go(j, "locking")
  /\ UNCHANGED <<workVars, poolVars, csem, _lock, asked, ctx, fox, outcome, faultVars>>

\* Faulty variant: a browser that has died is not noticed.
Connected_NotNone == _browser # 0

\* _browser is not None and is_connected()
Connected == _browser \in up

\* The await of new_context on browser b.
Ask(j, b) == Go(j, "context") /\ asked' = [asked EXCEPT ![j] = b]

\* Faulty variant: the pool looks at the browser before it waits for the lock.
CheckBrowser_Unlocked(j) ==
  /\ At(j, "locking")
  /\ IF Connected THEN Ask(j, _browser) ELSE Go(j, "driver") /\ UNCHANGED asked
  /\ UNCHANGED <<workVars, poolVars, semVars, ctx, fox, outcome, faultVars>>

\* The lock is free: it is kept for a relaunch, and is released at once otherwise.
CheckBrowser(j) ==
  /\ At(j, "locking") /\ ~_lock
  /\ IF Connected
     THEN Ask(j, _browser) /\ UNCHANGED _lock
     ELSE Go(j, "driver") /\ _lock' = TRUE /\ UNCHANGED asked
  /\ UNCHANGED <<workVars, poolVars, sem, csem, ctx, fox, outcome, faultVars>>

\* start: a new driver replaces the old one, which keeps running ...
StartDriver(j) ==
  /\ At(j, "driver")
  /\ last' = last + 1
  /\ _pw' = last + 1
  /\ drivers' = drivers \cup {last + 1}
  /\ Go(j, "launch")
  /\ UNCHANGED <<workVars, _browser, up, semVars, asked, ctx, fox, outcome, faultVars>>

\* ... and launches the browser, whose contexts are asked for without another await.
Launch(j) ==
  /\ At(j, "launch")
  /\ up' = up \cup {_pw}
  /\ _browser' = _pw
  /\ _lock' = FALSE
  /\ Ask(j, _pw)
  /\ UNCHANGED <<workVars, _pw, drivers, last, sem, csem, ctx, fox, outcome, faultVars>>

\* Faulty variant: a broken start keeps the lock.
StartBreaks_KeepsLock(j) ==
  /\ pc[j] \in {"driver", "launch"}
  /\ Broken(j)
  /\ sem' = sem + 1
  /\ End(j, "failed")
  /\ UNCHANGED <<workVars, poolVars, csem, _lock, asked, ctx, fox, cut>>

\* A broken start leaves what it had started; the lock and the permit are given back.
StartBreaks(j) ==
  /\ Broken(j)
  /\ \/ /\ At(j, "driver")
        /\ last' = last + 1
        /\ drivers' \in {drivers, drivers \cup {last + 1}}
        /\ cut' = cut \cup {last + 1}
        /\ UNCHANGED up
     \/ /\ At(j, "launch")
        /\ up' \in {up, up \cup {_pw}}
        /\ cut' = cut \cup {_pw}
        /\ UNCHANGED <<last, drivers>>
  /\ _lock' = FALSE /\ sem' = sem + 1
  /\ End(j, "failed")
  /\ UNCHANGED <<workVars, _pw, _browser, csem, asked, ctx, fox>>

\* new_context, then add_init_script.  A dead browser raises.
NewContext(j) ==
  /\ At(j, "context")
  /\ IF asked[j] \in up
     THEN /\ ctx' = [ctx EXCEPT ![j] = asked[j]]
          /\ Go(j, "script")
          /\ UNCHANGED <<outcome, sem>>
     ELSE End(j, "failed") /\ sem' = sem + 1 /\ UNCHANGED ctx
  /\ UNCHANGED <<workVars, poolVars, csem, _lock, asked, fox, faultVars>>

InitScript(j) ==
  /\ At(j, "script")
  /\ IF ctx[j] # 0 THEN Go(j, "use") /\ UNCHANGED <<outcome, sem>>
                   ELSE End(j, "failed") /\ sem' = sem + 1
  /\ UNCHANGED <<workVars, poolVars, csem, _lock, asked, ctx, fox, faultVars>>

\* Broken before the try: the permit is given back, the context is not closed.
ContextBreaks(j) ==
  /\ pc[j] \in {"context", "script"}
  /\ Broken(j)
  /\ ctx' \in IF At(j, "context") /\ asked[j] \in up THEN {ctx, [ctx EXCEPT ![j] = asked[j]]} ELSE {ctx}
  /\ sem' = sem + 1
  /\ End(j, "failed")
  /\ UNCHANGED <<workVars, poolVars, csem, _lock, asked, fox, cut>>

\* The page is fetched, or the navigation fails; the context is closed either way.
Use(j) ==
  /\ At(j, "use")
  /\ \/ ctx[j] # 0 /\ outcome' = [outcome EXCEPT ![j] = "ok"]
     \/ ctx[j] # 0 /\ outcome' = [outcome EXCEPT ![j] = "site"]
     \/ ctx[j] = 0 /\ outcome' = [outcome EXCEPT ![j] = "failed"]
  /\ Go(j, "close")
  /\ UNCHANGED <<workVars, poolVars, semVars, asked, ctx, fox, faultVars>>

UseBreaks(j) ==
  /\ At(j, "use")
  /\ Broken(j)
  /\ outcome' = [outcome EXCEPT ![j] = "failed"]
  /\ Go(j, "close")
  /\ UNCHANGED <<workVars, poolVars, semVars, asked, ctx, fox, cut>>

\* close returns at once when the browser is gone.
CloseContext(j) ==
  /\ At(j, "close")
  /\ ctx' = [ctx EXCEPT ![j] = 0]
  /\ sem' = sem + 1
  /\ Go(j, "done")
  /\ UNCHANGED <<workVars, poolVars, csem, _lock, asked, fox, outcome, faultVars>>

\* The exception of a failed close replaces the result.
CloseBreaks(j) ==
  /\ At(j, "close")
  /\ Broken(j)
  /\ sem' = sem + 1
  /\ End(j, "failed")
  /\ UNCHANGED <<workVars, poolVars, csem, _lock, asked, ctx, fox, cut>>

\* A job is cancelled while it waits for a permit or for the lock.
WaitBreaks(j) ==
  /\ pc[j] \in {"queue", "locking"}
  /\ Broken(j)
  /\ sem' = IF At(j, "locking") THEN sem + 1 ELSE sem
  /\ End(j, "failed")
  /\ UNCHANGED <<workVars, poolVars, csem, _lock, asked, ctx, fox, cut>>

-----------------------------------------------------------------------------
(* CamoufoxFetcher.fetch: a Firefox of its own for each request            *)

\* A worker that failed its self-check refuses at once, as does the URL guard.
fetchCamoufox(j) ==
  /\ phase = "running" /\ At(j, "new")
  /\ \/ camoufox_ready /\ Go(j, "cqueue") /\ UNCHANGED outcome
     \/ End(j, "refused")
  /\ UNCHANGED <<workVars, poolVars, semVars, asked, ctx, fox, faultVars>>

AcquireCamoufox(j) ==
  /\ At(j, "cqueue") /\ csem > 0
  /\ csem' = csem - 1
  /\ Go(j, "cdriver")
  /\ UNCHANGED <<workVars, poolVars, sem, _lock, asked, ctx, fox, outcome, faultVars>>

\* _new_browser up to its yield ...
OpenFirefox(j) ==
  /\ \/ At(j, "cdriver") /\ Go(j, "claunch") /\ fox' = [fox EXCEPT ![j] = "driver"]
     \/ At(j, "claunch") /\ Go(j, "cuse") /\ fox' = [fox EXCEPT ![j] = "browser"]
  /\ UNCHANGED <<workVars, poolVars, semVars, asked, ctx, outcome, faultVars>>

\* The page is fetched, or the navigation fails.
_do_fetch(j) ==
  /\ At(j, "cuse") /\ Go(j, "cclose")
  /\ \E o \in {"ok", "site"} : outcome' = [outcome EXCEPT ![j] = o]
  /\ UNCHANGED <<workVars, poolVars, semVars, asked, ctx, fox, faultVars>>

\* ... and its two nested finally blocks, after which the permit is given back.
CloseFirefox(j) ==
  /\ \/ At(j, "cclose") /\ Go(j, "cstop") /\ fox' = [fox EXCEPT ![j] = "driver"] /\ UNCHANGED csem
     \/ At(j, "cstop") /\ Go(j, "done") /\ fox' = [fox EXCEPT ![j] = "none"] /\ csem' = csem + 1
  /\ UNCHANGED <<workVars, poolVars, sem, _lock, asked, ctx, outcome, faultVars>>

\* Faulty variant: the driver is stopped only after the browser was launched.
AfterBreak_NoFinally(l) == IF l = "cuse" THEN "cclose" ELSE IF l = "cclose" THEN "cstop" ELSE "done"

\* Where a broken await of the wrapper leads: to the enclosing finally.
AfterBreak(l) == IF l = "cuse" THEN "cclose" ELSE IF l \in {"claunch", "cclose"} THEN "cstop" ELSE "done"

CamoufoxBreaks(j) ==
  /\ pc[j] \in {"cqueue", "cdriver", "claunch", "cuse", "cclose", "cstop"}
  /\ Broken(j)
  /\ fox' \in CASE pc[j] = "cdriver" -> {fox, [fox EXCEPT ![j] = "driver"]}
                [] pc[j] = "claunch" -> {fox, [fox EXCEPT ![j] = "browser"]}
                [] OTHER -> {fox}
  /\ csem' = IF AfterBreak(pc[j]) = "done" /\ pc[j] # "cqueue" THEN csem + 1 ELSE csem
  /\ Go(j, AfterBreak(pc[j]))
  /\ outcome' = [outcome EXCEPT ![j] = "failed"]
  /\ UNCHANGED <<workVars, poolVars, sem, _lock, asked, ctx, cut>>

-----------------------------------------------------------------------------
\* A step that a job takes by itself.
JobStep(j) ==
  \/ AcquireSlot(j) \/ CheckBrowser(j) \/ StartDriver(j) \/ Launch(j)
  \/ NewContext(j) \/ InitScript(j) \/ Use(j) \/ CloseContext(j)
  \/ AcquireCamoufox(j) \/ OpenFirefox(j) \/ _do_fetch(j) \/ CloseFirefox(j)

JobBreaks(j) ==
  \/ WaitBreaks(j) \/ StartBreaks(j) \/ ContextBreaks(j) \/ UseBreaks(j) \/ CloseBreaks(j)
  \/ CamoufoxBreaks(j)

Next ==
  \/ startup \/ shutdown \/ stop \/ Crash
  \/ \E j \in Jobs : fetch(j) \/ fetchCamoufox(j) \/ JobStep(j) \/ JobBreaks(j)

\* Every await of a job ends: launch and goto have timeouts of Playwright, the semaphores and
\* the lock serve their waiters in order, and arq's job_timeout (120 s) cancels a job that
\* waits for any other answer, which is a JobBreaks.  That a job is given, broken or that
\* Chromium dies is up to the environment.
Spec == Init /\ [][Next]_vars /\ \A j \in Jobs : WF_vars(JobStep(j))

-----------------------------------------------------------------------------
(* Properties                                                              *)

\* Type correctness of the pool and of its jobs.
TypeOK ==
  /\ phase \in {"starting", "running", "closing", "stopped", "failed"}
  /\ _pw \in 0..last /\ _browser \in 0..last
  /\ drivers \subseteq 1..last /\ up \subseteq drivers
  /\ sem \in 0..MAX_CONCURRENT_BROWSERS /\ csem \in 0..MAX_CONCURRENT_CAMOUFOX
  /\ _lock \in BOOLEAN
  /\ asked \in [Jobs -> 0..last] /\ ctx \in [Jobs -> 0..last]
  /\ fox \in [Jobs -> {"none", "driver", "browser"}]
  /\ outcome \in [Jobs -> {"none", "ok", "site", "failed", "refused"}]

\* The permits bound what the jobs under way hold: at most MAX_CONCURRENT_BROWSERS jobs
\* are past the pool's semaphore and at most MAX_CONCURRENT_CAMOUFOX own a Firefox, after
\* every cancellation and failure (BrowserPool.context, CamoufoxFetcher.fetch).
PermitsConserved ==
  /\ Cardinality({j \in Jobs : pc[j] \in {"locking", "driver", "launch", "context", "script", "use", "close"}})
       + sem = MAX_CONCURRENT_BROWSERS
  /\ Cardinality({j \in Jobs : pc[j] \in {"cdriver", "claunch", "cuse", "cclose", "cstop"}})
       + csem = MAX_CONCURRENT_CAMOUFOX

\* One Chromium: a process other than the pool's own is left of a launch that was broken,
\* and a driver was started only in place of one that died or was broken
\* (BrowserPool.context's check under the lock).
OneBrowser ==
  /\ up \subseteq {_browser} \cup cut
  /\ Cardinality(drivers) <= 1 + crashes + breaks

\* Both together: whatever is cancelled, fails or dies, and whoever relaunches, no more jobs
\* use a browser at a time than the settings allow, and a second Chromium runs only beside a
\* launch that was broken after its browser had come up.
ResourcesBounded == PermitsConserved /\ OneBrowser

\* What outlives a job or the worker has a cause.  A context stays open only when its job was
\* broken before the try of BrowserPool.context or in the close itself, a Firefox or its driver
\* only when starting or stopping the driver was broken; after a shutdown in which nothing was
\* broken no Chromium runs, and no driver but those that a relaunch replaced.
LeftoversExplained ==
  /\ \A j \in Jobs : pc[j] = "done" =>
       /\ ctx[j] # 0 => broke[j] \in {"context", "script", "close"}
       /\ fox[j] # "none" => broke[j] \in {"cdriver", "cstop"}
  /\ phase = "stopped" /\ breaks = 0 => up = {} /\ Cardinality(drivers) <= crashes

\* A death of Chromium fails the jobs that were using it and no later one: a job fails for
\* the browser's sake only if it was broken itself, or had asked for a context and not let
\* go of it when Chromium died.  The death and is_connected() turning false are one step; a
\* job that asks in between is one whose call of new_context is broken.
UnharmedJobsSucceed == \A j \in Jobs : outcome[j] = "failed" => broke[j] # "none"

\* Every job that starts comes to its end: no failure keeps a permit or the lock.
JobsEnd == \A j \in Jobs : pc[j] \notin {"new", "done"} ~> pc[j] = "done"

=============================================================================
