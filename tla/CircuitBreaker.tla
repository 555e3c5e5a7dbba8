--------------------------- MODULE CircuitBreaker ---------------------------
(***************************************************************************)
(* The per-domain circuit breaker of ProxyManager                          *)
(* (services/proxy_manager.py): two Redis keys, the failure counter and    *)
(* the open state, read and written by every worker and by the admin API.  *)
(*                                                                         *)
(* Every Redis command is an await, so one action is one command.  Redis   *)
(* runs a command atomically; between two commands of one process the      *)
(* others run theirs, time passes, or the process is cancelled or loses    *)
(* Redis (both functions then return False and do no more).                *)
(*                                                                         *)
(* The counter is only compared with the threshold, so it saturates there. *)
(* Time is counted in ticks.                                               *)
(***************************************************************************)
EXTENDS Integers, FiniteSets

CONSTANTS
  Procs,      \* coroutines that fetch through a proxy, and admin requests
  Threshold,  \* CIRCUIT_BREAKER_THRESHOLD
  Timeout,    \* CIRCUIT_BREAKER_TIMEOUT_S, in ticks
  MaxFaults   \* bound on cancellations and Redis errors

ASSUME BreakerAssumption ==
  /\ Threshold \in Nat \ {0}
  /\ Timeout \in Nat \ {0}
  /\ MaxFaults \in Nat

VARIABLES
  cnt,       \* cb:domain:{d}; 0 when the key is absent
  cntTtl,    \* its remaining life
  open,      \* whether cb:domain:{d}:state exists (its only value is "open")
  openTtl,   \* its remaining life
  next,      \* the next command of each process
  tripped,   \* per process: whether its INCR reached the threshold
  breaks

keys == <<cnt, cntTtl, open, openTtl>>
breakerVars == <<keys, next, tripped, breaks>>

Life  == 2 * Timeout       \* both keys get twice the timeout
Never == Life + 1          \* a key with no expiry

Failing   == {"expireCount", "getState", "setState", "expireState"}
Resetting == {"delCount", "delState"}
Points    == {"idle", "fetching"} \cup Failing \cup Resetting

BreakerInit ==
  /\ cnt = 0 /\ cntTtl = 0
  /\ open = FALSE /\ openTtl = 0
  /\ next = [w \in Procs |-> "idle"]
  /\ tripped = [w \in Procs |-> FALSE]
  /\ breaks = 0

Step(w, from, to) == next[w] = from /\ next' = [next EXCEPT ![w] = to]
Fault == breaks < MaxFaults /\ breaks' = breaks + 1

-----------------------------------------------------------------------------
(* get_proxy, as far as the breaker goes.                                  *)

\* _is_circuit_open finds no state key: a proxy is picked and the page fetched.
CircuitClosed(w) ==
  /\ ~open
  /\ Step(w, "idle", "fetching")
  /\ UNCHANGED <<keys, tripped, breaks>>

\* Redis is down when the state is read: the breaker is bypassed.
CircuitUnknown(w) ==
  /\ Fault
  /\ Step(w, "idle", "fetching")
  /\ UNCHANGED <<keys, tripped>>

\* POST /v1/proxy/health: report_result for any domain, without a fetch and without a
\* look at the breaker; no failure reaches an open breaker in another way, but for those
\* whose fetch was under way when it opened.
HealthReport(w) ==
  /\ Step(w, "idle", "fetching")
  /\ UNCHANGED <<keys, tripped, breaks>>

\* The fetch ends with no report: the job was cancelled, or an exception that is no
\* FetchError was raised, or record_success / record_failure raised first.
NoReport(w) ==
  /\ Step(w, "fetching", "idle")
  /\ UNCHANGED <<keys, tripped, breaks>>

-----------------------------------------------------------------------------
(* _increment_circuit_breaker.                                             *)

Incr(w) ==
  /\ Step(w, "fetching", "expireCount")
  /\ cnt' = IF cnt = Threshold THEN cnt ELSE cnt + 1
  /\ cntTtl' = IF cnt = 0 THEN Never ELSE cntTtl
  /\ tripped' = [tripped EXCEPT ![w] = cnt + 1 >= Threshold]
  /\ UNCHANGED <<open, openTtl, breaks>>

\* Faulty variant: the counter gets its expiry only when it trips the breaker.
ExpireCount_OnTripOnly(w) ==
  /\ Step(w, "expireCount", IF tripped[w] THEN "getState" ELSE "idle")
  /\ cntTtl' = IF cnt = 0 THEN 0 ELSE IF tripped[w] THEN Life ELSE cntTtl
  /\ UNCHANGED <<cnt, open, openTtl, tripped, breaks>>

\* EXPIRE of a key that has gone does nothing.
ExpireCount(w) ==
  /\ Step(w, "expireCount", IF tripped[w] THEN "getState" ELSE "idle")
  /\ cntTtl' = IF cnt = 0 THEN 0 ELSE Life
  /\ UNCHANGED <<cnt, open, openTtl, tripped, breaks>>

\* The answer only decides whether a circuit_open event is written.
GetState(w) ==
  /\ Step(w, "getState", "setState")
  /\ UNCHANGED <<keys, tripped, breaks>>

\* SET drops the expiry that the key had.
SetState(w) ==
  /\ Step(w, "setState", "expireState")
  /\ open' = TRUE
  /\ openTtl' = Never
  /\ UNCHANGED <<cnt, cntTtl, tripped, breaks>>

\* Faulty variant: the expiry is set only if the counter did not expire meanwhile.
ExpireState_IfCounting(w) ==
  /\ Step(w, "expireState", "idle")
  /\ openTtl' = IF ~open THEN 0 ELSE IF cnt = 0 THEN openTtl ELSE Life
  /\ UNCHANGED <<cnt, cntTtl, open, tripped, breaks>>

\* EXPIRE of the state.
ExpireState(w) ==
  /\ Step(w, "expireState", "idle")
  /\ openTtl' = IF open THEN Life ELSE 0
  /\ UNCHANGED <<cnt, cntTtl, open, tripped, breaks>>

-----------------------------------------------------------------------------
(* _reset_circuit_breaker, after a success or by the admin endpoint.       *)

ResetGet(w) ==
  /\ next[w] \in {"idle", "fetching"}
  /\ next' = [next EXCEPT ![w] = "delCount"]
  /\ UNCHANGED <<keys, tripped, breaks>>

DelCount(w) ==
  /\ Step(w, "delCount", "delState")
  /\ cnt' = 0
  /\ cntTtl' = 0
  /\ UNCHANGED <<open, openTtl, tripped, breaks>>

DelState(w) ==
  /\ Step(w, "delState", "idle")
  /\ open' = FALSE
  /\ openTtl' = 0
  /\ UNCHANGED <<cnt, cntTtl, tripped, breaks>>

-----------------------------------------------------------------------------

\* Cancelled, or Redis lost, between two commands: nothing else is sent.
Interrupted(w) ==
  /\ Fault
  /\ next[w] \in Failing \cup Resetting
  /\ next' = [next EXCEPT ![w] = "idle"]
  /\ UNCHANGED <<keys, tripped>>

\* A key whose life runs out is gone.
Aged(ttl) == IF ttl \in 1 .. Life THEN ttl - 1 ELSE ttl

BreakerTick ==
  /\ cntTtl' = Aged(cntTtl)
  /\ cnt' = IF cntTtl' = 0 THEN 0 ELSE cnt
  /\ openTtl' = Aged(openTtl)
  /\ open' = (open /\ openTtl' # 0)
  /\ UNCHANGED <<next, tripped, breaks>>

Fail(w)  == Incr(w) \/ ExpireCount(w) \/ GetState(w) \/ SetState(w) \/ ExpireState(w)
Reset(w) == ResetGet(w) \/ DelCount(w) \/ DelState(w)

BreakerNext ==
  \/ \E w \in Procs : \/ CircuitClosed(w) \/ CircuitUnknown(w) \/ HealthReport(w) \/ NoReport(w)
                      \/ Fail(w) \/ Reset(w) \/ Interrupted(w)
  \/ BreakerTick

\* The event loop resumes a coroutine whose command was answered, every fetch has a
\* timeout, and time passes; nothing makes anybody fetch, report or reset.
Proceeds(w) == next[w] # "idle" /\ (NoReport(w) \/ Fail(w) \/ Reset(w))

BreakerSpec ==
  /\ BreakerInit /\ [][BreakerNext]_breakerVars
  /\ \A w \in Procs : WF_breakerVars(Proceeds(w))
  /\ WF_breakerVars(BreakerTick)

-----------------------------------------------------------------------------
(* Properties.                                                             *)

\* Type correctness: every variable stays in the range that its declaration describes.
BreakerTypeOK ==
  /\ cnt \in 0 .. Threshold
  /\ cntTtl \in 0 .. Never
  /\ open \in BOOLEAN
  /\ openTtl \in 0 .. Never
  /\ next \in [Procs -> Points]
  /\ tripped \in [Procs -> BOOLEAN]
  /\ breaks \in 0 .. MaxFaults
  /\ cnt = 0 <=> cntTtl = 0        \* a key exists while it has life left
  /\ open <=> openTtl # 0

\* A breaker that is open for ever is one whose setter has still to send its EXPIRE:
\* with no interruption no interleaving of setters, resets and expiries loses it.
OpenHasLifetime ==
  breaks = 0 /\ openTtl = Never => \E w \in Procs : next[w] = "expireState"

\* The same for the counter, whose INCR and EXPIRE are two commands too: failures that
\* are rarer than the timeout never add up to an open breaker.
CounterHasLifetime ==
  breaks = 0 /\ cntTtl = Never => \E w \in Procs : next[w] = "expireCount"

\* Both statements together: no Redis key of the breaker outlives its purpose.
KeysHaveLifetime == OpenHasLifetime /\ CounterHasLifetime

\* An open breaker lets the domain be tried again, although failures that were in
\* flight when it opened keep setting it, unless somebody was interrupted or clients of
\* POST /v1/proxy/health go on for ever reporting to a breaker that is open: each failure
\* they report gives it a new lifetime.
BreakerRecovers ==
  \/ []<><<open /\ \E w \in Procs : HealthReport(w)>>_breakerVars
  \/ open ~> (~open \/ breaks > 0)

=============================================================================
