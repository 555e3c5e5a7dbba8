# A TLA+ model of crawler-api

This directory holds TLA+ models of the crawler service in `src/app`: a FastAPI front end, an arq
worker that fetches pages through an escalation ladder of engines and proxies, and the Redis,
PostgreSQL and S3 state they share. TLC checks the models on small instances; TLAPS proves their
safety properties for every value of the constants. `PROJECT.json` maps every definition to the
source lines it stands for.

To repeat a check: `tlc -config FetchJob.cfg FetchJob` (module and configuration of each run are
listed below); to repeat a proof: `tlapm EscalationProofs.tla`.

## 1. The system

| Part | State | Operations | Talks to |
|---|---|---|---|
| Job API, job service (`api/v1/endpoints/jobs.py`, `services/job_service.py`) | Redis: `idempotency:*`, `job:{id}:status`, `job:{id}:error` | create, replay, poll | rate limiter, arq queue |
| Worker task (`worker/tasks/fetch_task.py`, `worker/arq_worker.py`) | job status, `usage_counters`, callbacks | run one fetch, error handler, start-up and shutdown | everything below |
| Retry loop (`services/fetchers/base.py`) | locals of one coroutine | `fetch_with_retry` | ladder, proxy manager, fetchers |
| Escalation ladder (`services/escalation.py`) | none (tables and pure functions) | initial tier, next tier, gate, floors | |
| Proxy manager (`services/proxy_manager.py`) | proxies table; Redis: breaker counter and state, sticky pins | pick, report, reset breaker | proxy health |
| Proxy health (`services/proxy_health.py`) | per-proxy counters and cooldowns | record success and failure | |
| Policy learner and resolver (`services/policy_learner.py`, `services/policy_resolver.py`) | the learned columns of `domain_policies` | resolve, record outcome | admin endpoints |
| WARC storage (`services/warc/*`) | writer buffer, S3 objects, `warc_index` | archive, rotate, flush, deduplicate | archive reader |
| Archive reader (`services/archive_reader.py`, `api/v1/endpoints/archive.py`) | none | read a record back | S3, index |
| Rate limiter (`services/rate_limiter.py`) | Redis sorted sets | check one layer, check all | job and batch endpoints |
| Batches (`services/batch_service.py`) | Redis batch info | create, aggregate status | job service |
| API keys, tenants, applications (`services/key_service.py`, `api/v1/endpoints/auth_keys.py`, `api/v1/dependencies.py`) | three tables | authenticate, issue, rotate, revoke, create, change | every endpoint |
| Proxy sync (`services/proxy_sync_service.py`, `services/webshare_sync.py`) | proxies table, events | reconcile with a provider | proxy manager |
| Browser pool and browser fetchers (`worker/browser_pool.py`, `services/fetchers/*`) | one Chromium with its driver, two semaphores, a lock | open a context, relaunch, start and stop | worker |
| Callbacks (`services/callback.py`) | tasks of the event loop | deliver | worker task |
| Dead letter queue, detection, decoding | small or none | | worker |

API handlers and worker tasks are asyncio coroutines in several processes. Inside a process control
moves only at an `await`; between processes everything interleaves at the granularity of a Redis
command or a database statement. In every module **one action is what one coroutine does between
two awaits** that the properties can tell apart.

What is hard here: check-then-act over an await (idempotency key, duplicate lookup, breaker state,
the policy row held during a fetch); commands that belong together but are sent one by one (SET and
EXPIRE, status and error, record and index row); a buffer shared by all jobs of a worker; job
timeouts that cancel a task in the middle of a commit; workers that die and jobs that are started
again; row locks held from the first report of a job to its commit; two writers that reconcile one
table from what they read before; browsers that die under the jobs; clocks of different processes in
one sliding window; a retry loop with five exits and three counters. `hazards` in `PROJECT.json`
lists each at its line, with the properties aimed at it.

## 2. Modules

| Module | Stands for | State |
|---|---|---|
| `Escalation` | the ladder, gate, vendor floors and escalatable reasons, as constant operators | none |
| `FetchRetry` | one `fetch_with_retry` call | tier, counters, exclusions, last result, outcome |
| `FetchJob` | POST /v1/fetch, the arq queue, `fetch_task` | key, statuses, errors, queue, tasks, usage, callbacks |
| `WarcStorage` | `archive`, `_rotate`, `shutdown_flush`, `check_duplicate`, `index_record`, reading | writer, S3, index, per-call copies |
| `CircuitBreaker` | `_increment_`, `_reset_circuit_breaker`, `_is_circuit_open` | two Redis keys with lifetimes |
| `PolicyLearner` (extends `Escalation`) | `record_outcome` against the admin endpoints | the row, its lock, every session's copy |
| `RateLimiter` | the Lua script and its callers | sorted sets, waiting checks, time |
| `JobLifecycle` | what a job promises: the abstract specification that `FetchJob` implements | shown status, queue, work |
| `Callback` | `_schedule_callback` and `deliver_callback` | deliveries, attempts, what was heard |
| `Batch` (instantiates `JobLifecycle` and `Callback`) | `create_batch`, the polls of status and results | handler, batch info, poll |
| `ProxyHealth` | `record_success`, `record_failure`, `get_proxy`, `report_result`, the admin's reset | rows with locks and uncommitted versions, pins, daily counts |
| `ProxySync` | `sync_proxies`, the provider client, `ProxySyncService`, the bulk import | provider, table, pools, events, what each sync read |
| `ApiKeys` | authentication, key, tenant and application endpoints, `key_service` | three tables, requests |
| `BrowserPool` | `BrowserPool`, both browser fetchers, startup and shutdown | processes, permits, lock, jobs |
| `FetchJobProofs`, `WarcStorageProofs`, `RateLimiterProofs`, `BatchProofs`, `ApiKeysProofs`, `BrowserPoolProofs` | theorems and proofs, each about the module it extends | |
| `EscalationProofs`, `ProxyProofs` | theorems and proofs about `FetchRetry` and `PolicyLearner`, and about `ProxyHealth`, `ProxySync` and `CircuitBreaker`: each extends the modules it is about, whose names and variables are all different | |
| `MCFetchRetry`, `MCWarcStorage`, `MCPolicyLearner`, `MCRateLimiter`, `MCProxySync`, `MCProxyHealth`, `MCApiKeys` | values of constants and symmetry for TLC | |

How they hang together: `FetchRetry` and `PolicyLearner` share `Escalation`; the answer of a call
in `FetchRetry` (blocked, tier used) is the input that `PolicyLearner.Fetched` chooses; `FetchJob`
runs the whole of `FetchRetry`, `WarcStorage` and `PolicyLearner` in its steps `Fetch` and
`RecordOutcome`, of which it only needs that they end or fail; `RateLimiter` stands before
`FetchJob.HandleIdempotency`; `CircuitBreaker` decides when `FetchRetry.NoProxyLeft` happens.
`FetchJob` implements `JobLifecycle` (the property `JobContract`, with the refinement mapping in the
`INSTANCE` of `FetchJob`), and `Batch` is built on that contract instead of on the details, so what
is shown for a batch holds over `FetchJob`'s races, retries and lost workers. `ProxyHealth` is the
other side of `FetchRetry`'s reports; `ProxySync` decides which proxies both may choose from;
`BrowserPool` is what `FetchRetry`'s browser tiers call.

### Escalation and FetchRetry
A page is what the fetcher answers: a success, a block with a reason, or an exception. The pool is
the choice `get_proxy` makes among `Selectable`; whatever other jobs do to it (cooldowns, breaker,
deactivation) shows as that choice, `None` included. `Blocked` is the whole branch from the report
to the climb, the stay or the return; `AttemptRaises`, `BlockedReportFails` and
`RaisesAndReportFails` are the three ways in which the handlers at lines 441-465 are reached.
`burned` is a history variable: the proxies that failed, per tier. Sleeps and `get_fetcher`
(line 301, outside the `try`) are left out: it raises for unknown engines only, which no tier and no
policy names.

### FetchJob
A job is named by the request that created it. All keyed requests carry one key of one application,
which is the only way in which they meet. Each Redis write is a step of its own. `Interrupted`
covers every exception and every cancellation (arq's job timeout, SIGTERM) inside the `try`;
`CancelledInCommit` is the one that arrives while the usage row is committed, where the row may or
may not be there; `HandlerAborts` is a failure of the handler. That arq starts a job again after
its worker was killed is an assumption about the library, marked external; so is that arq removes
the job only when the task has returned (`FinishJob`), so a worker that dies after the callback was
scheduled (`returning`) has the job run, answer and call back once more. Left out: the rate
limit check (its own module), the synchronous poll (it only reads), and expiry (a behaviour is
shorter than `job_result_ttl_s`).

### WarcStorage
A page is a URL and a digest, a record is the call that wrote it, a file is the number of the
writer. The upload is two steps, the effect in S3 and the resumption of the coroutine, because
other calls write to the shared buffer in between. A buffer becomes old nondeterministically and
stays so until it is replaced, hence a call that writes during another's upload uploads the same
file too. A read goes to the row itself or, for a revisit, to the full record of the same digest
that was captured first; capture order is writing order, as records are dated in microseconds by the
one event loop that writes them.
File names are unique (timestamp and random suffix). Without S3 configured the upload is lost and
nothing is awaited, which is a special case of `PutFails`.

### CircuitBreaker
Each Redis command is a step. The counter is only compared with the threshold and saturates there.
Time is in ticks; both keys live twice the timeout. The answer of the GET before the SET decides
only whether an event row is written and is not kept. POST /v1/proxy/health (`HealthReport`) reports
without asking whether the circuit is open, so it can keep an open breaker alive as long as somebody
calls it; `BreakerRecovers` says that nothing else can.

### PolicyLearner
The row is reduced to tier, lock, vendor and consecutive blocks; `last_success_at` and
`last_block_reason` decide nothing. `kept` is the object a session has held since `resolve_policy`:
SQLAlchemy's identity map does not refresh it when the row is selected again (`core/db.py` sets
`expire_on_commit=False`, and no `populate_existing` is used), and an UPDATE sends the attributes
that changed in the session. Both are external semantics, in `Sent` and `Updated`.

### RateLimiter
A request is a plan of stages; the checks of a stage run concurrently (`asyncio.gather`), a denial
stops the plan. A check takes its process's time, off by at most `Skew`, and runs its script within
`MaxDelay` ticks. A member is a score and what `math.random` answered; equal members collapse in the
sorted set, so the limiter counts members, not requests. A Redis error lets the request through,
whether or not the script ran. Limits are fixed: an operator who lowers `rate_limit_rps` while
members are in the set is not modelled.

### JobLifecycle, Batch and Callback
`JobLifecycle` keeps a job's shown status, the queue and how far a worker is; a completed job may
still be shown failed while its worker does the paper work, and a job is shown running again only
after its worker was lost. The last step of a task settles its job and schedules the callback
(`SettleJob`), arq takes the job off its books afterwards (`FinishJob`), and the delivery runs beside
both; `again` is a history variable, the jobs that the receiver had heard of when their worker was
lost. `Batch` has one handler that charges the domains, enqueues the jobs in
order, saves the batch info with the answer, and may die at any await before; the charge itself is
`RateLimiter`'s. Polls read the jobs one by one. `Callback` posts up to `MaxRetries` times; the
receiver may hear a post whose answer is lost. Statuses may expire under a batch, not under a job at
work.

### ProxyHealth
A row has a committed version, which `get_proxy` reads in a session of its own, and at most one
uncommitted one under the lock of the job that updated it. `record_failure` is the read, the
arithmetic and, after the lock, the absolute write. A deadlock is ended by aborting one transaction
(external: PostgreSQL), whose session refuses everything afterwards, as does a cancelled job's.
POST /v1/proxy/health is one report with its own commit, that is a job with one attempt. A success
ends the call; a block may, at the top of the ladder; a report that fails in the handler of a
`FetchError` does, while one that fails in the generic handler lets the loop go on. `ImportUpserts` is
a bulk import that names an existing proxy: it waits for the lock and writes constants over health
and cooldown. Two history variables note the reports when they are made, not from the counters:
`filed` under the lock of each row, and `log` what was committed. Scores are in units of 0.05; time is
in ticks of the cooldown base.

### ProxySync
A plan is a list that the provider may change at any time, between two pages of one fetch too. A
sync fetches the plans one by one, each in pages of `PageSize` (`FetchPage`); a plan whose request
fails is skipped, and a page behind the end of a list that became shorter may be such a failure.
Reading pool and rows is one step, the transaction that writes is another: its rows stay
locked until it commits, and what it read may be old by then. Proxies that only a plan without
direct endpoints offers are not fetched. One request of an admin may come in between: an import,
which inserts into a pool of its own, a new pool of the provider, or a new row. A pool is dated by
the start of its transaction, so the one committed last need not be the youngest (`WithPool`), and
the sync's name may be taken. `steady` is a history variable: the plans' entries that were there all
the time, without those of a plan that changed between two of its pages. Left out: a pool of another
provider that an admin names `webshare-pool`, which would make every first sync fail, and the
deletion of proxies, which no endpoint offers.

### ApiKeys
A request authenticates, loads and checks, and commits. The identity map of the session keeps a row
as it was first loaded, and an UPDATE sends what was assigned a different value; both are SQLAlchemy
semantics. Rows are never deleted. `granted` is a history variable: what bootstrap or an admin gave
to an application. A raw key is its row; its prefix is all that a lookup sees.

### BrowserPool
What lies between two awaits is one step, so the check of the browser, the release of the lock and
the call of `new_context` are one. Each await can be broken by an exception or a cancellation
(`...Breaks`), before or after it had its effect. That closing a context of a dead browser returns,
that a browser ends with its driver, and that arq runs `shutdown` when no job is under way, are
external semantics.

## 3. What the runs check

| Run | Result | What it shows |
|---|---|---|
| `fetch_retry` | 114 000 states | no failed proxy is reused at its tier (`BurnedProxyNotReused`); premium proxies are explained (`PremiumUseExplained`); every rung is paid for (`EveryRungIsPaidFor`); a blocked page comes back only when nothing is left (`BlockedOnlyWhenSpent`); pool errors tell the truth (`PoolErrorIsAccurate`); the call ends (`CallTerminates`) |
| `fetch_job` | 372 000 states | a replay finds its job (`ReplayFindsTheJob`); a key that was answered starts no second job (`AnsweredKeyStartsNoJob`); the callback tells the status (`CallbackMatchesStatus`); usage is bounded (`UsageBounded`); the job keeps the contract `JobLifecycle` (`JobContract`); queued jobs end, failed ones with their error (`JobsFinish`) |
| `warc_storage` | 191 000 states | rows never point at another record (`RowsPointAtTheirOwn`); revisits have an original (`RevisitHasOriginal`); a lost record takes an overlap or a fault (`SerialCallsLoseNothing`); what a row answers never changes, except for a revisit after an overlap (`ReadsAreStable`) |
| `circuit_breaker` | 69 000 states | keys keep a lifetime (`KeysHaveLifetime`) and the breaker recovers (`BreakerRecovers`), unless somebody was interrupted or clients go on for ever reporting to it while it is open |
| `policy_learner` | 823 000 states | no tier without evidence (`TierHasEvidence`); a fresh object teaches the right thing (`FreshOutcomeIsLearned`) |
| `rate_limiter` | 963 000 states | the guaranteed window holds (`WindowHolds`); Retry-After is enough (`RetryAfterIsEnough`) |
| `batch` | 596 000 states | a batch names enqueued jobs only, and jobs without a batch are explained (`BatchNamesItsJobs`); status polls never go back, count ended jobs and agree with the results (`PollsAgree`); what a callback told is what the API shows, unless the job ran again after a lost worker (`CallbackTellsTheOutcome`); the batch settles (`BatchSettles`) |
| `proxy_health` | 734 000 states | totals equal the reports that were made and committed, and the daily counts cover them (`TotalsMatchTheReports`); failure count and cooldown are exact unless a read was overtaken (`SerialReportsAreExact`); locks in opposite orders stop nobody (`ReportsGetTheirTurn`) |
| `proxy_sync` | 949 000 states | the last event tells the state (`EventTellsState`); an undisturbed sync is exact and a deactivation has a cause (`SyncsAreFaithful`); the table converges to the provider (`TableConverges`) |
| `api_keys` | 1 171 000 states | a valid key finds its own row and names are unique (`LookupsFindOneRow`); scopes were granted (`ScopesAreGranted`); rotation is atomic and no revoked key gets a successor (`RotationsAreSound`), nor comes back (`RevokedIsFinal`) |
| `browser_pool` | 211 000 states | permits are conserved, and a second Chromium runs only beside a broken launch (`ResourcesBounded`); what is left behind, after a shutdown too, has a cause (`LeftoversExplained`); a death of Chromium harms its users only (`UnharmedJobsSucceed`); every job ends (`JobsEnd`) |
| `warc_storage_overlap` | violated | of two uploads of one file the older copy may arrive last, and an indexed record is gone (`findings` in `PROJECT.json`) |

Every specification that is run states its types too, as `TypeOK` (`LearnerTypeOK`, `SyncTypeOK` and
`BreakerTypeOK` in the modules that a proof module extends beside another). It holds under the same
configurations, is proved (section 4), and is left out of the runs' lists, which are about behaviour.

### Bounds
* `FetchRetry`: two datacenter proxies and one residential, two attempts per tier, six in all, so
  that the ceiling is met at every tier and pools run dry; `MCCalls` holds every combination of
  engine, forced proxy, type, gate and sticky pin with five policies, among them one whose vendor
  floor is above the gate. Two reasons: `captcha`, which escalates, and `ip_ban`, which does
  not.
* `FetchJob`: two requests are enough for every race on the key; one worker slot makes them compete;
  one cancellation, one broken handler and one killed worker can meet in a behaviour.
* `WarcStorage`: two fetches of one page and one of the same content under another URL, a buffer of
  two records, two calls at once, one fault, one cancellation, one shutdown: a file may be uploaded
  twice or lost, and a revisit's original may be indexed after a later one.
* `CircuitBreaker`: three processes (a setter, a second setter and a reset), threshold 2, one
  interruption. The lifetimes are proved for any number.
* `PolicyLearner`: two jobs and an admin, three operations in a behaviour, all at once if they like;
  tiers 0 and 3 from the admin; workers are symmetric.
* `RateLimiter`: windows of 5 ticks, skew 1, delay 1, so the guaranteed window is 2 ticks; with one
  tick more `WindowHolds` fails, so the bound is exact. The theorem covers all sizes.
* `Batch`: two URLs of two domains, two posts per callback, one broken handler and one lost worker
  process: enough for a poll to fall between any two jobs and for a callback to be repeated or lost.
* `ProxyHealth`: two jobs with three and two attempts on two proxies, so that locks are taken in
  opposite orders and the victim of the deadlock has an attempt left; a cooldown that reaches its
  cap with the second failure; one fault, reset or import.
* `ProxySync`: two syncs, two URLs, three plans of three subtypes, pages of one proxy, so that a
  plan of two has a page boundary; two mishaps, each a change at the provider, a plan or sync that
  fails, or the admin's request: enough for a removal between two pages and for a pool that is older
  than the sync's.
* `ApiKeys`: two requests at once and three in all (a rotation, a revocation and a third that sees
  the result), two free prefixes, so that two requests may draw the same, a clock that lets a key expire.
  Requests are symmetric; no property checked there is a liveness property.
* `BrowserPool`: three jobs for two permits (and one Firefox permit), one death of Chromium and one
  broken await, anywhere.

### Fairness
* `FetchRetry`: weak fairness of the whole loop; each await has a timeout.
* `FetchJob`: weak fairness of each job's worker steps: arq polls its queue and a job timeout bounds
  every await. API handlers have none: a client may vanish and a process may die.
* `CircuitBreaker`: weak fairness of every process that has started a sequence of commands (the
  event loop resumes it, the fetch has a timeout) and of time. Nobody has to fetch, to report or to
  reset, so recovery comes from expiry alone.
* `PolicyLearner` states fairness of jobs and commits, but only safety is checked there.
* `Batch`: weak fairness of each job's worker and callback task taken together: a task that has
  scheduled its callback returns while that is delivered, and posts and pauses are bounded, so
  neither keeps the other waiting. The handler and the client have none: a batch settles also when
  its creation died.
* `ProxyHealth`: weak fairness of each job's steps; a lock is free in the end because every holder
  commits, rolls back or is aborted as a deadlock's victim. Admin and clock have none.
* `ProxySync`: weak fairness of each sync: cron starts it twice an hour, for ever.
* `BrowserPool`: weak fairness of the awaits of a job. `launch` and `goto` have timeouts of
  Playwright, asyncio serves the waiters of a semaphore or a lock in order, and any other call that
  never answers is cut off by arq's `job_timeout` of 120 s (`arq_worker.py:22`), a `JobBreaks`.

### Deadlock
Deadlock checking is off where a behaviour ends by itself: a call that returned, requests that were
all answered, bounded operations or time. Breaker and sync never stop and are checked with it.

## 4. What is proved

For each specification there is an inductive invariant, a conjunction of named parts; one lemma
shows that it holds at first, one that each action keeps it, and the theorems follow from it. They
hold for every value of the constants that the module's assumption admits. Where a proof module is
about several specifications, each is proved about by itself, from its own assumption. Every
invariant and action property of the passing runs is proved this way.

* **EscalationProofs**, first about `FetchRetry`, for any pool, settings, ceiling and per-tier cap:
  `TypeCorrect` (attempts stay within the ceiling), `ExclusionsCorrect`, `NoReuse`,
  `GateBranchDead`, `PoolErrorsAccurate`, `RungsArePaid`, `BlockedIsTheLastResort`,
  `PremiumUseIsExplained`. The strengthening: a direct attempt at a tier means that nobody has been
  banned there (so the climb that does not clear `failed_proxy_ids` has nothing to clear), no tier
  above the current one has bans, and the tier is at most the gate unless the engine was asked for.
  For `RungsArePaid` it also counts (`RungsPaid`): the attempts made cover the price of every rung
  left behind and what was tried on this one, which is what a climb spends. Assumptions:
  `ProxyAssumption`, `CallAssumption`. Then about `PolicyLearner`, for any number of workers, admins
  and operations: `LearnerTypeCorrect`, `LearnedTiersHaveEvidence`, `FreshOutcomesAreLearned`. A
  stale object may be written at any time, so evidence is needed not for the row alone but for every
  copy a session keeps and every row it is about to write (`Backed`); `Begun` keeps the block count
  in range, and `Taught` says what a job that has fetched will write, in terms of what it kept.
  Assumption: `LearnerAssumption`. The first attempt failed for a good reason: `Learned` used a CASE
  whose guards overlapped for a pinned row, where TLC takes the first arm and the logic any; it is
  now an IF, as in `record_outcome`.
* **FetchJobProofs**, for any requests, jobs and numbers of failures: `TypeCorrect`,
  `ReplaysFindTheJob`, `AnsweredKeyIsFinal`, `CallbacksMatch`, `UsageIsBounded`, and
  `JobsKeepTheContract`, the refinement of `JobLifecycle`: `StepRefines` maps each action to one
  abstract step or to a stutter. What carries them: the stored key and every replayed answer name a
  job with a status (`KeyIsSound`), a handler's step tells whether its job exists yet (`ApiPhase`),
  a task's step tells the status it last wrote and whether anything was sent (`TaskPhase`), the
  first start sends nothing before its last step, and what it sent is the status that it leaves,
  also when its worker is lost before arq removes the job (`Notices`), and a running task still has
  its own usage to come, so that a second one takes another start or a cancellation (`Accounts`).
  Assumption: `JobAssumption`.
* **WarcStorageProofs**, for any finite number of fetches, any buffer size and any faults:
  `TypeCorrect`, `RowsAreSound`, `RevisitsResolve`, `SerialCallsKeepAll`, `ReadsStayTheSame`. A
  file's content is spread over the buffer, the copies that uploads hold, the objects and the index.
  The invariant says that there is one log of records per file which all of them are prefixes of or
  point into (`Explains`), although no variable holds it once the writer was replaced; each action
  keeps the log or extends it. `DupHasOriginal` adds that a call which found a duplicate has a full
  record with its digest in the index, and `SerialInv` says where each record is held while no two
  calls overlap and nothing fails. For the reads, the log gives one row per place, and `Ordered`
  says that without an overlap rows are indexed in the order of their capture, so that the first
  original stays the first. `WritersCounted` bounds the files by the calls, faults and shutdowns
  that replace a writer. Assumption: `WarcAssumption`.
* **ProxyProofs**, first about `ProxyHealth`, for any jobs, proxies, backoff, attempts and faults:
  `HealthTypeCorrect`, `TotalsMatch`, `SerialReportsExact`. `Right(r, l)` says that the version `r` of a
  row agrees with the history `l`: totals, and, while it is exact, failure count and cooldown. It holds
  of the committed row and its log, and of the uncommitted one and the log followed by what its holder
  has filed (`Uncommitted`), which is what a commit makes of both; one report keeps it (`LogGrows`,
  `ReportGrows`). `ReadBefore`
  says that a failure count read and not marked stale is still the count of the row that the UPDATE
  will find, because only a commit or a reset changes what others see, and both mark it. `ResetRead`
  says that the attributes a reset leaves out are fresh already. The run of failures at the end of a
  log is the maximum of a set; `MaxIsGreatest` and `StreakOfAppend` give it from the well-foundedness of
  `<`. Assumption: `HealthAssumption`.
  Then about `ProxySync`, for any number of syncs, plans and proxies: `SyncTypeCorrect`,
  `EventsTellTheState`, `EverySyncIsFaithful`. Rows are never deleted, so a row that was read as active
  exists when it is switched off, whoever wrote it meanwhile (`RowsStay`); a sync that nobody overtook
  still knows the table (`ReadsFresh`); what a plan has had all the time is on a page that was read or
  on one that will be (`SteadyFetched`), because the pages up to n cover the list up to n times the
  page size (`PagesCover`) and a sync between two pages is fetching that plan (`BetweenPages`). A pool
  enters the list somewhere without disturbing the order of the others (`InsertAtIs`, `NewPool`).
  Assumption: `SyncAssumption`.
  Last about `CircuitBreaker`, for any number of processes, any threshold and timeout:
  `BreakerTypeCorrect`, `StateExpires`, `CounterExpires` and both together, `KeysExpire`. The two
  lifetime statements are inductive together with the type invariant, which says that a key exists
  exactly while it has life left. Assumption: `BreakerAssumption`.
* **RateLimiterProofs**, for any windows, limits, skew and delay: `LimiterTypeCorrect`,
  `GuaranteedWindow`, `RetryAfterSuffices`. `WindowHolds` looks at history only; what carries it is
  `Remembered`: a member charged within `Window - 2 Skew - MaxDelay` is still in its set, because its
  score lags by at most skew plus delay, a script cuts at most a skew ahead, and the set expires a
  whole window after its last charge. Then the recent charges are a subset of a set that never
  outgrows its limit. `RetryAfterSuffices` is an action property: the oldest member, from which the
  answer was computed, has left the window by then, and a set of at most `Limit` members that lost one
  admits another. That the oldest member exists is `MinIsLeast`, from the well-foundedness of `<`.
  Assumption: `LimiterAssumption`.
* **BatchProofs**, for any number of URLs, retries and faults: `TypeCorrect`,
  `BatchesNameTheirJobs`, `CallbacksTellTheOutcome`, `AllPollsAgree`. The handler creates jobs in
  order, so its position says which exist (`Created`); a job's status and its work move together
  (`Worked`); a callback is scheduled by a job's last step with the status shown then, and only a
  lost worker takes the job back to work (`Called`); what was counted has ended and stays so while
  no worker is lost, and a poll under way has passed no job that an earlier one counted without
  taking it up (`Polled`). Assumption: `BatchAssumption`.
* **ApiKeysProofs**, for any requests, keys, names and scopes: `TypeCorrect`,
  `LookupsAreUnambiguous`, `NoScopeIsInvented`, `RotationsKeepTheirPromise`, `RevocationIsFinal`. A
  request checks in one transaction and writes in a later one. What makes the check still true at
  the commit is `Grow`: tables only grow, a key keeps its application and its scopes, and a
  revocation is never undone. The invariant keeps for each request what it has learned so far
  (`Known`), which `Grow` preserves under everybody else's steps. Uniqueness comes from the
  constraints the commit enforces. Assumption: `KeyAssumption`, whose two distinct names and
  prefixes are those of the initial rows.
* **BrowserPoolProofs**, for any finite number of jobs, any permits, deaths and broken awaits:
  `TypeCorrect`, `PermitsAndBrowsersAreBounded`, `LeftoversHaveACause`, `DeathsHarmNoLaterJob`.
  Permits are free or held by exactly the jobs that are between acquisition and release
  (`PermitsConserved`, by counting the holders); who starts a browser is alone with the lock
  (`LockHeld`); each start after the first is paid for by the death or the broken start that made it
  necessary (`StartsCounted`), which bounds the processes left behind. Assumption: `PoolAssumption`.

Only model-checked: what is temporal under fairness (`CallTerminates`, `JobsFinish`,
`BreakerRecovers`, `BatchSettles`, `ReportsGetTheirTurn`, `TableConverges`, `JobsEnd`), because the
proof system covers neither fairness nor `ENABLED`; and the violation of `warc_storage_overlap`.

## 5. Other places where text and code differ

The one with a run of its own is `warc_storage_overlap`: `storage.py:63-64` captures the file name "so
the index row matches the file actually uploaded to S3". In TLC's trace two calls upload the current
file under the same key; the first copy, which lacks the second call's record, arrives last and
replaces the object that had it; the writer that still holds the record is replaced, and its row is
committed. With a third call there is a second way: the upload that resumes last throws away the new
writer that the other one made, with what was written to it since.

The others, in each of which the model follows the code:
* `fetchers/base.py:158`: at the ceiling the call "returns the last blocked FetchResult rather than
  raising"; a climb on the last attempt leaves the loop and raises `FetchError("None")` (line 406).
* ADR-009:36: "A caller providing the same Idempotency-Key within 24h receives" the same job; two
  concurrent requests that both look the key up first get two (`jobs.py:97`). Once a request was
  answered, none follows: `AnsweredKeyStartsNoJob`.
* ADR-010:17: "This downloads only the requested record"; `extract_body` reads the first record of the
  file whatever the offset, which is wrong for every later one. `ReadsAreStable` is what is left. A
  revisit may even change its original: the one captured first may be indexed last (`archive.py:44`).
* ADR-006:67: "circuit opens for 300s"; a process that dies between SET and EXPIRE leaves a key
  without expiry, and the domain is shut until an admin resets it (`proxy_manager.py:73`); failures
  reported with POST /v1/proxy/health prolong an opening without end (`endpoints/proxy.py:104`).
* `models/domain_policy.py:65`: "When True, escalation logic must not change escalation_tier"; a job
  that read the row before the pin writes its own tier over it. `FreshOutcomeIsLearned` is the
  statement that holds.
* ADR-006:38: "On each failure, `consecutive_failures` is incremented"; it is read and written back, so
  two failures at once may count once. `SerialReportsAreExact` says when it is exact. The table at
  ADR-006:51 gives 1800 s for the sixth failure; the formula at line 41 and the code give 1920 s, and
  3600 s from the seventh.
* ADR-021:51: "exactly one `ProxyPool` per provider (`{provider}-pool`)"; the sync takes the
  provider's oldest pool, an import's or an admin's included, and creates its own only if there is
  none (`proxy_sync_service.py:144`), so a provider may have several pools and never the one of that
  name. `TableConverges` names the oldest.
* ADR-021:45: "set difference in Python (safe deactivation)"; a removal at the provider
  between two pages shifts the rest of the list (`webshare_sync.py:109`), and a proxy that was offered
  all the time may be missed and switched off until the next sync. `SyncsAreFaithful` leaves such a
  plan out.
* `scripts/import_proxies.py:74` names the conflict target `url`; the table's constraint is on
  provider and URL.
* `BrowserPool.start` replaces the driver without stopping the old one, so each relaunch leaves a
  driver process until the worker ends; `shutdown` "drain[s] browser pool" but stops the last.
  `LeftoversExplained` counts them.
* `playwright_fetcher.py:44-45`: a fetch "releases it in a finally block"; a cancellation between
  `new_context` and the `try`, or in the close itself, leaves the context open, as
  `LeftoversExplained` says. The virtual display of `camoufox_fetcher.py` is not tracked.
* `fetchers/base.py:159-161`: `use_proxy=False` "locks tier 0"; the code climbs (line 409).
* `fetchers/base.py:143`: the default proxy type is "datacenter"; the code filters on no type.
* `fetch_task.py:152-197`: a job shown as completed turns failed when its task is cancelled later;
  a cancellation in the usage commit counts the request twice (ADR-011: once). The callback is
  scheduled before the task returns (line 187), so a job that was announced as completed runs again
  when its worker is lost before arq has removed it, may end otherwise, and calls back again.
* ADR-016 D4: rotation takes the scope `keys` and copies the scopes of the rotated key, so a caller
  without `admin` may get a successor with it from a key of its own application. The code does what
  the text says; `ScopesAreGranted` is therefore about applications, not about callers.
* ADR-006:68: "a single probe request"; there is no half-open state. Two concurrent failures
  may write two `circuit_open` events; a reset that interleaves with failures may leave the counter
  at its threshold with the breaker closed.
* `policy_learner.py:49-50`: "never ratchet up on success"; `max(tier_used, current - 1)` does.
  With a stale object a success may step down by several tiers and may fail to clear the blocks.
* ADR-005: "the remaining layers are not charged"; key and application are charged concurrently, and
  a replayed request is charged before its key is looked up. `rate_limiter.py:32-33` calls members
  unique; equal random numbers in one millisecond collapse.
* ADR-015 Part C describes a dead letter queue for uploads; nothing calls it.
* `endpoints/proxy.py:157-158`: "Existing proxies are reactivated"; `is_active` is not written.
* `fetch_task.py:58-60`: the request's mode is ignored when the domain has a policy row.

## 6. Not modelled

`PROJECT.json` lists every component with its status. Left out for good: fetcher libraries, address
classification in the URL guards, byte-level decoding, configuration, logging and metrics, read-only
endpoints, one-off scripts and migrations, and the legacy key-value storage: library calls, pure I/O
or plain queries. The dead letter queue for uploads is complete code that nothing calls. The text
matching of the block detector is data; its reasons are inputs of `FetchRetry`.
