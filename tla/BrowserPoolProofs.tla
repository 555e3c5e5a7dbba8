------------------------- MODULE BrowserPoolProofs -------------------------
(***************************************************************************)
(* Proofs about BrowserPool, for any finite number of jobs, any numbers of *)
(* permits, and any number of broken awaits and deaths of Chromium.        *)
(***************************************************************************)
EXTENDS BrowserPool, FiniteSetTheorems, TLAPS

(***************************************************************************)
(* The inductive invariant.                                                *)
(***************************************************************************)
PoolSteps == {"locking", "driver", "launch", "context", "script", "use", "close"}
FoxSteps  == {"cdriver", "claunch", "cuse", "cclose", "cstop"}
Steps     == {"new", "done", "queue", "cqueue"} \cup PoolSteps \cup FoxSteps
Starting  == {"driver", "launch"}

Types ==
  /\ TypeOK
  /\ pc \in [Jobs -> Steps]
  /\ broke \in [Jobs -> Steps \cup {"none", "crash"}]
  /\ last \in Nat /\ crashes \in Nat /\ breaks \in Nat

\* Jobs are under way only while the worker runs.
Quiet ==
  /\ phase # "running" => \A j \in Jobs : pc[j] \in {"new", "done"}
  /\ phase = "starting" => last = 0
  /\ phase \in {"running", "closing"} => _pw \in drivers

\* Whoever starts a browser is alone with the lock, and the pool has none meanwhile.
LockHeld ==
  /\ \A j \in Jobs : pc[j] \in Starting => _lock /\ _browser \notin up
  /\ \A i, j \in Jobs : pc[i] \in Starting /\ pc[j] \in Starting => i = j
  /\ \A j \in Jobs : pc[j] = "launch" => _pw = last /\ _pw \in drivers

\* A start is paid for by the death or the broken start that made it necessary.
StartsCounted ==
  /\ last <= 1 + crashes + breaks
  /\ phase \in {"starting", "running"} /\ _browser \notin up /\ (\A j \in Jobs : pc[j] # "launch")
       => last <= crashes + breaks

\* Chromium processes of the pool, and what is left when nothing was broken.
Processes ==
  /\ up \subseteq {_browser} \cup cut
  /\ breaks = 0 => cut = {}
  /\ phase \in {"closing", "stopped"} /\ breaks = 0 => up = {}
  /\ phase = "stopped" /\ breaks = 0 => Cardinality(drivers) <= crashes

\* A job's context belongs to the browser it asked, which has died if the context is gone.
ContextOf(j) ==
  /\ pc[j] \notin {"script", "use", "close", "done"} => ctx[j] = 0
  /\ pc[j] \in {"context", "script", "use", "close"} => asked[j] # 0
  /\ pc[j] = "context" => asked[j] \in up \/ broke[j] # "none"
  /\ pc[j] \in {"script", "use", "close"} => ctx[j] \in {0, asked[j]}
  /\ pc[j] \in {"script", "use"} /\ ctx[j] = 0 => broke[j] # "none"
  /\ pc[j] = "done" /\ ctx[j] # 0 => broke[j] \in {"context", "script", "close"}

\* What runs of a job's Firefox at each of its steps.
FirefoxOf(j) ==
  /\ pc[j] \notin {"claunch", "cuse", "cclose", "cstop", "done"} => fox[j] = "none"
  /\ pc[j] = "done" /\ fox[j] # "none" => broke[j] \in {"cdriver", "cstop"}

FailureOf(j) == outcome[j] = "failed" => broke[j] # "none"

IInv ==
  /\ Types /\ PermitsConserved /\ Quiet /\ LockHeld /\ StartsCounted /\ Processes
  /\ \A j \in Jobs : ContextOf(j) /\ FirefoxOf(j) /\ FailureOf(j)

-----------------------------------------------------------------------------
(* Counting permits.                                                       *)

\* The jobs that are at a step of S.
Holders(f, S) == {i \in Jobs : f[i] \in S}

\* The count of them changes by what the one job that moves does.
LEMMA CountMoves ==
  ASSUME NEW f \in [Jobs -> Steps], NEW j \in Jobs, NEW l \in Steps, NEW S
  PROVE  LET g == [f EXCEPT ![j] = l]
         IN  /\ Cardinality(Holders(f, S)) \in Nat /\ Cardinality(Holders(g, S)) \in Nat
             /\ (f[j] \in S <=> l \in S) => Cardinality(Holders(g, S)) = Cardinality(Holders(f, S))
             /\ f[j] \notin S /\ l \in S => Cardinality(Holders(g, S)) = Cardinality(Holders(f, S)) + 1
             /\ f[j] \in S /\ l \notin S => Cardinality(Holders(f, S)) = Cardinality(Holders(g, S)) + 1
  <1> DEFINE g == [f EXCEPT ![j] = l]
  <1>1. IsFiniteSet(Holders(f, S)) /\ IsFiniteSet(Holders(g, S))
    BY PoolAssumption, FS_Subset DEF Holders
  <1>2. Cardinality(Holders(f, S)) \in Nat /\ Cardinality(Holders(g, S)) \in Nat
    BY <1>1, FS_CardinalityType
  <1>3. (f[j] \in S <=> l \in S) => Holders(g, S) = Holders(f, S)
    BY DEF Holders
  <1>4. f[j] \notin S /\ l \in S => Cardinality(Holders(g, S)) = Cardinality(Holders(f, S)) + 1
    <2>1. f[j] \notin S /\ l \in S => Holders(g, S) = Holders(f, S) \cup {j} /\ j \notin Holders(f, S)
      BY DEF Holders
    <2> QED BY <1>1, <2>1, FS_AddElement
  <1>5. f[j] \in S /\ l \notin S => Cardinality(Holders(f, S)) = Cardinality(Holders(g, S)) + 1
    <2>1. f[j] \in S /\ l \notin S => Holders(f, S) = Holders(g, S) \cup {j} /\ j \notin Holders(g, S)
      BY DEF Holders
    <2> QED BY <1>1, <2>1, FS_AddElement
  <1> QED BY <1>2, <1>3, <1>4, <1>5

\* A job that takes a permit when it comes to hold one, and gives it back when it ceases to,
\* conserves them.
LEMMA PermitsMove ==
  ASSUME Types, PermitsConserved, NEW j \in Jobs, NEW l \in Steps, pc' = [pc EXCEPT ![j] = l],
         (pc[j] \in PoolSteps <=> l \in PoolSteps) => sem' = sem,
         pc[j] \notin PoolSteps /\ l \in PoolSteps => sem > 0 /\ sem' = sem - 1,
         pc[j] \in PoolSteps /\ l \notin PoolSteps => sem' = sem + 1,
         (pc[j] \in FoxSteps <=> l \in FoxSteps) => csem' = csem,
         pc[j] \notin FoxSteps /\ l \in FoxSteps => csem > 0 /\ csem' = csem - 1,
         pc[j] \in FoxSteps /\ l \notin FoxSteps => csem' = csem + 1
  PROVE  /\ PermitsConserved'
         /\ sem' \in 0 .. MAX_CONCURRENT_BROWSERS /\ csem' \in 0 .. MAX_CONCURRENT_CAMOUFOX
  <1>1. /\ sem \in Nat /\ csem \in Nat /\ pc \in [Jobs -> Steps]
        /\ MAX_CONCURRENT_BROWSERS \in Nat /\ MAX_CONCURRENT_CAMOUFOX \in Nat
    BY PoolAssumption DEF Types, TypeOK
  <1>2. /\ Cardinality(Holders(pc, PoolSteps)) + sem = MAX_CONCURRENT_BROWSERS
        /\ Cardinality(Holders(pc, FoxSteps)) + csem = MAX_CONCURRENT_CAMOUFOX
    BY DEF PermitsConserved, Holders, PoolSteps, FoxSteps
  <1>3. Cardinality(Holders(pc', PoolSteps)) + sem' = MAX_CONCURRENT_BROWSERS /\ sem' \in 0 .. MAX_CONCURRENT_BROWSERS
    <2> DEFINE was == Cardinality(Holders(pc, PoolSteps))
               now == Cardinality(Holders(pc', PoolSteps))
    <2>1. /\ was \in Nat /\ now \in Nat
          /\ (pc[j] \in PoolSteps <=> l \in PoolSteps) => now = was
          /\ pc[j] \notin PoolSteps /\ l \in PoolSteps => now = was + 1
          /\ pc[j] \in PoolSteps /\ l \notin PoolSteps => was = now + 1
      BY <1>1, CountMoves, Zenon
    <2> HIDE DEF was, now
    <2>2. was + sem = MAX_CONCURRENT_BROWSERS
      BY <1>2 DEF was
    <2>3. now + sem' = MAX_CONCURRENT_BROWSERS /\ sem' \in 0 .. MAX_CONCURRENT_BROWSERS
      BY <1>1, <2>1, <2>2
    <2> QED BY <2>3 DEF now
  <1>4. Cardinality(Holders(pc', FoxSteps)) + csem' = MAX_CONCURRENT_CAMOUFOX /\ csem' \in 0 .. MAX_CONCURRENT_CAMOUFOX
    <2> DEFINE was == Cardinality(Holders(pc, FoxSteps))
               now == Cardinality(Holders(pc', FoxSteps))
    <2>1. /\ was \in Nat /\ now \in Nat
          /\ (pc[j] \in FoxSteps <=> l \in FoxSteps) => now = was
          /\ pc[j] \notin FoxSteps /\ l \in FoxSteps => now = was + 1
          /\ pc[j] \in FoxSteps /\ l \notin FoxSteps => was = now + 1
      BY <1>1, CountMoves, Zenon
    <2> HIDE DEF was, now
    <2>2. was + csem = MAX_CONCURRENT_CAMOUFOX
      BY <1>2 DEF was
    <2>3. now + csem' = MAX_CONCURRENT_CAMOUFOX /\ csem' \in 0 .. MAX_CONCURRENT_CAMOUFOX
      BY <1>1, <2>1, <2>2
    <2> QED BY <2>3 DEF now
  <1> QED
    BY <1>3, <1>4 DEF PermitsConserved, Holders, PoolSteps, FoxSteps

\* There are no more drivers than were started.
LEMMA DriversCounted ==
  ASSUME Types
  PROVE  IsFiniteSet(drivers) /\ Cardinality(drivers) \in Nat /\ Cardinality(drivers) <= last
  <1>1. drivers \in SUBSET (1 .. last) /\ last \in Nat
    BY DEF Types, TypeOK
  <1>2. IsFiniteSet(1 .. last) /\ Cardinality(1 .. last) = last
    BY <1>1, FS_Interval
  <1> QED
    BY <1>1, <1>2, FS_Subset, FS_CardinalityType

-----------------------------------------------------------------------------
LEMMA InitIInv == Init => IInv
  <1> SUFFICES ASSUME Init PROVE IInv
    OBVIOUS
  <1> USE PoolAssumption DEF Init
  <1>1. Types
    <2>1. /\ _pw \in 0 .. last /\ _browser \in 0 .. last
          /\ drivers \subseteq 1 .. last /\ up \subseteq drivers
          /\ asked \in [Jobs -> 0 .. last] /\ ctx \in [Jobs -> 0 .. last]
      OBVIOUS
    <2>2. sem \in 0 .. MAX_CONCURRENT_BROWSERS /\ csem \in 0 .. MAX_CONCURRENT_CAMOUFOX
      OBVIOUS
    <2>3. TypeOK
      BY <2>1, <2>2 DEF TypeOK
    <2> QED BY <2>3 DEF Types, Steps
  <1>2. PermitsConserved
    <2>1. /\ {j \in Jobs : pc[j] \in {"locking", "driver", "launch", "context", "script", "use", "close"}} = {}
          /\ {j \in Jobs : pc[j] \in {"cdriver", "claunch", "cuse", "cclose", "cstop"}} = {}
      OBVIOUS
    <2> QED BY <2>1, FS_EmptySet DEF PermitsConserved
  <1>3. Quiet /\ LockHeld /\ StartsCounted /\ Processes
    BY DEF Quiet, LockHeld, Starting, StartsCounted, Processes
  <1>4. \A j \in Jobs : ContextOf(j) /\ FirefoxOf(j) /\ FailureOf(j)
    BY DEF ContextOf, FirefoxOf, FailureOf
  <1> QED BY <1>1, <1>2, <1>3, <1>4 DEF IInv

\* Every step that a job takes, by itself or because an await is broken.
LEMMA JobIInv ==
  ASSUME IInv, NEW j \in Jobs, fetch(j) \/ fetchCamoufox(j) \/ JobStep(j) \/ JobBreaks(j)
  PROVE  IInv'
  <1> USE PoolAssumption DEF IInv, workVars, poolVars, semVars, jobVars, faultVars, At, Starting
  <1>1. CASE fetch(j)
    <2> USE <1>1 DEF fetch, Go, End
    <2>1. PermitsConserved' /\ sem' \in 0 .. MAX_CONCURRENT_BROWSERS /\ csem' \in 0 .. MAX_CONCURRENT_CAMOUFOX
      BY PermitsMove DEF Steps, PoolSteps, FoxSteps
    <2>2. Types'
      BY <2>1 DEF Types, TypeOK, Steps, PoolSteps, FoxSteps
    <2>3. Quiet' /\ LockHeld'
      BY DEF Types, TypeOK, Quiet, LockHeld
    <2>4. StartsCounted'
      BY DEF Types, TypeOK, Quiet, LockHeld, StartsCounted
    <2>5. Processes'
      BY DEF Types, TypeOK, Quiet, LockHeld, Processes
    <2>6. ASSUME NEW i \in Jobs PROVE ContextOf(i)' /\ FirefoxOf(i)' /\ FailureOf(i)'
      BY <2>6 DEF Types, TypeOK, Quiet, LockHeld, ContextOf, FirefoxOf, FailureOf, Steps, PoolSteps, FoxSteps
    <2> QED BY <2>1, <2>2, <2>3, <2>4, <2>5, <2>6
  <1>2. CASE AcquireSlot(j)
    <2> USE <1>2 DEF AcquireSlot, Go
    <2>1. PermitsConserved' /\ sem' \in 0 .. MAX_CONCURRENT_BROWSERS /\ csem' \in 0 .. MAX_CONCURRENT_CAMOUFOX
      BY PermitsMove DEF Steps, PoolSteps, FoxSteps
    <2>2. Types'
      BY <2>1 DEF Types, TypeOK, Steps, PoolSteps, FoxSteps
    <2>3. Quiet' /\ LockHeld'
      BY DEF Types, TypeOK, Quiet, LockHeld
    <2>4. StartsCounted'
      BY DEF Types, TypeOK, Quiet, LockHeld, StartsCounted
    <2>5. Processes'
      BY DEF Types, TypeOK, Quiet, LockHeld, Processes
    <2>6. ASSUME NEW i \in Jobs PROVE ContextOf(i)' /\ FirefoxOf(i)' /\ FailureOf(i)'
      BY <2>6 DEF Types, TypeOK, Quiet, LockHeld, ContextOf, FirefoxOf, FailureOf, Steps, PoolSteps, FoxSteps
    <2> QED BY <2>1, <2>2, <2>3, <2>4, <2>5, <2>6
  <1>3. CASE CheckBrowser(j)
    <2> USE <1>3 DEF CheckBrowser, Go, Ask, Connected
    <2>1. PermitsConserved' /\ sem' \in 0 .. MAX_CONCURRENT_BROWSERS /\ csem' \in 0 .. MAX_CONCURRENT_CAMOUFOX
      BY PermitsMove DEF Steps, PoolSteps, FoxSteps
    <2>2. Types'
      BY <2>1 DEF Types, TypeOK, Steps, PoolSteps, FoxSteps
    <2>3. Quiet' /\ LockHeld'
      BY DEF Types, TypeOK, Quiet, LockHeld
    <2>4. StartsCounted'
      BY DEF Types, TypeOK, Quiet, LockHeld, StartsCounted
    <2>5. Processes'
      BY DEF Types, TypeOK, Quiet, LockHeld, Processes
    <2>6. ASSUME NEW i \in Jobs PROVE ContextOf(i)' /\ FirefoxOf(i)' /\ FailureOf(i)'
      BY <2>6 DEF Types, TypeOK, Quiet, LockHeld, ContextOf, FirefoxOf, FailureOf, Steps, PoolSteps, FoxSteps
    <2> QED BY <2>1, <2>2, <2>3, <2>4, <2>5, <2>6
  <1>4. CASE StartDriver(j)
    <2> USE <1>4 DEF StartDriver, Go
    <2>1. PermitsConserved' /\ sem' \in 0 .. MAX_CONCURRENT_BROWSERS /\ csem' \in 0 .. MAX_CONCURRENT_CAMOUFOX
      BY PermitsMove DEF Steps, PoolSteps, FoxSteps
    <2>2. Types'
      BY <2>1 DEF Types, TypeOK, Steps, PoolSteps, FoxSteps
    <2>3. Quiet' /\ LockHeld'
      BY DEF Types, TypeOK, Quiet, LockHeld
    <2>4. StartsCounted'
      BY DEF Types, TypeOK, Quiet, LockHeld, StartsCounted
    <2>5. Processes'
      BY DEF Types, TypeOK, Quiet, LockHeld, Processes
    <2>6. ASSUME NEW i \in Jobs PROVE ContextOf(i)' /\ FirefoxOf(i)' /\ FailureOf(i)'
      BY <2>6 DEF Types, TypeOK, Quiet, LockHeld, ContextOf, FirefoxOf, FailureOf, Steps, PoolSteps, FoxSteps
    <2> QED BY <2>1, <2>2, <2>3, <2>4, <2>5, <2>6
  <1>5. CASE Launch(j)
    <2> USE <1>5 DEF Launch, Go, Ask
    <2>1. PermitsConserved' /\ sem' \in 0 .. MAX_CONCURRENT_BROWSERS /\ csem' \in 0 .. MAX_CONCURRENT_CAMOUFOX
      BY PermitsMove DEF Steps, PoolSteps, FoxSteps
    <2>2. Types'
      BY <2>1 DEF Types, TypeOK, Steps, PoolSteps, FoxSteps, LockHeld
    <2>3. Quiet' /\ LockHeld'
      BY DEF Types, TypeOK, Quiet, LockHeld
    <2>4. StartsCounted'
      BY DEF Types, TypeOK, Quiet, LockHeld, StartsCounted
    <2>5. Processes'
      BY DEF Types, TypeOK, Quiet, LockHeld, Processes
    <2>6. ASSUME NEW i \in Jobs PROVE ContextOf(i)' /\ FirefoxOf(i)' /\ FailureOf(i)'
      BY <2>6 DEF Types, TypeOK, Quiet, LockHeld, ContextOf, FirefoxOf, FailureOf, Steps, PoolSteps, FoxSteps
    <2> QED BY <2>1, <2>2, <2>3, <2>4, <2>5, <2>6
  <1>6. CASE NewContext(j)
    <2> USE <1>6 DEF NewContext, Go, End
    <2>1. PermitsConserved' /\ sem' \in 0 .. MAX_CONCURRENT_BROWSERS /\ csem' \in 0 .. MAX_CONCURRENT_CAMOUFOX
      BY PermitsMove DEF Steps, PoolSteps, FoxSteps
    <2>2. Types'
      BY <2>1 DEF Types, TypeOK, Steps, PoolSteps, FoxSteps
    <2>3. Quiet' /\ LockHeld'
      BY DEF Types, TypeOK, Quiet, LockHeld
    <2>4. StartsCounted'
      BY DEF Types, TypeOK, Quiet, LockHeld, StartsCounted
    <2>5. Processes'
      BY DEF Types, TypeOK, Quiet, LockHeld, Processes
    <2>6. ASSUME NEW i \in Jobs PROVE ContextOf(i)' /\ FirefoxOf(i)' /\ FailureOf(i)'
      BY <2>6 DEF Types, TypeOK, Quiet, LockHeld, ContextOf, FirefoxOf, FailureOf, Steps, PoolSteps, FoxSteps
    <2> QED BY <2>1, <2>2, <2>3, <2>4, <2>5, <2>6
  <1>7. CASE InitScript(j)
    <2> USE <1>7 DEF InitScript, Go, End
    <2>1. PermitsConserved' /\ sem' \in 0 .. MAX_CONCURRENT_BROWSERS /\ csem' \in 0 .. MAX_CONCURRENT_CAMOUFOX
      BY PermitsMove DEF Steps, PoolSteps, FoxSteps
    <2>2. Types'
      BY <2>1 DEF Types, TypeOK, Steps, PoolSteps, FoxSteps
    <2>3. Quiet' /\ LockHeld'
      BY DEF Types, TypeOK, Quiet, LockHeld
    <2>4. StartsCounted'
      BY DEF Types, TypeOK, Quiet, LockHeld, StartsCounted
    <2>5. Processes'
      BY DEF Types, TypeOK, Quiet, LockHeld, Processes
    <2>6. ASSUME NEW i \in Jobs PROVE ContextOf(i)' /\ FirefoxOf(i)' /\ FailureOf(i)'
      BY <2>6 DEF Types, TypeOK, Quiet, LockHeld, ContextOf, FirefoxOf, FailureOf, Steps, PoolSteps, FoxSteps
    <2> QED BY <2>1, <2>2, <2>3, <2>4, <2>5, <2>6
  <1>8. CASE Use(j)
    <2> USE <1>8 DEF Use, Go
    <2>1. PermitsConserved' /\ sem' \in 0 .. MAX_CONCURRENT_BROWSERS /\ csem' \in 0 .. MAX_CONCURRENT_CAMOUFOX
      BY PermitsMove DEF Steps, PoolSteps, FoxSteps
    <2>2. Types'
      BY <2>1 DEF Types, TypeOK, Steps, PoolSteps, FoxSteps
    <2>3. Quiet' /\ LockHeld'
      BY DEF Types, TypeOK, Quiet, LockHeld
    <2>4. StartsCounted'
      BY DEF Types, TypeOK, Quiet, LockHeld, StartsCounted
    <2>5. Processes'
      BY DEF Types, TypeOK, Quiet, LockHeld, Processes
    <2>6. ASSUME NEW i \in Jobs PROVE ContextOf(i)' /\ FirefoxOf(i)' /\ FailureOf(i)'
      BY <2>6 DEF Types, TypeOK, Quiet, LockHeld, ContextOf, FirefoxOf, FailureOf, Steps, PoolSteps, FoxSteps
    <2> QED BY <2>1, <2>2, <2>3, <2>4, <2>5, <2>6
  <1>9. CASE CloseContext(j)
    <2> USE <1>9 DEF CloseContext, Go
    <2>1. PermitsConserved' /\ sem' \in 0 .. MAX_CONCURRENT_BROWSERS /\ csem' \in 0 .. MAX_CONCURRENT_CAMOUFOX
      BY PermitsMove DEF Steps, PoolSteps, FoxSteps
    <2>2. Types'
      BY <2>1 DEF Types, TypeOK, Steps, PoolSteps, FoxSteps
    <2>3. Quiet' /\ LockHeld'
      BY DEF Types, TypeOK, Quiet, LockHeld
    <2>4. StartsCounted'
      BY DEF Types, TypeOK, Quiet, LockHeld, StartsCounted
    <2>5. Processes'
      BY DEF Types, TypeOK, Quiet, LockHeld, Processes
    <2>6. ASSUME NEW i \in Jobs PROVE ContextOf(i)' /\ FirefoxOf(i)' /\ FailureOf(i)'
      BY <2>6 DEF Types, TypeOK, Quiet, LockHeld, ContextOf, FirefoxOf, FailureOf, Steps, PoolSteps, FoxSteps
    <2> QED BY <2>1, <2>2, <2>3, <2>4, <2>5, <2>6
  <1>10. CASE fetchCamoufox(j)
    <2> USE <1>10 DEF fetchCamoufox, Go, End
    <2>1. PermitsConserved' /\ sem' \in 0 .. MAX_CONCURRENT_BROWSERS /\ csem' \in 0 .. MAX_CONCURRENT_CAMOUFOX
      BY PermitsMove DEF Steps, PoolSteps, FoxSteps
    <2>2. Types'
      BY <2>1 DEF Types, TypeOK, Steps, PoolSteps, FoxSteps
    <2>3. Quiet' /\ LockHeld'
      BY DEF Types, TypeOK, Quiet, LockHeld
    <2>4. StartsCounted'
      BY DEF Types, TypeOK, Quiet, LockHeld, StartsCounted
    <2>5. Processes'
      BY DEF Types, TypeOK, Quiet, LockHeld, Processes
    <2>6. ASSUME NEW i \in Jobs PROVE ContextOf(i)' /\ FirefoxOf(i)' /\ FailureOf(i)'
      BY <2>6 DEF Types, TypeOK, Quiet, LockHeld, ContextOf, FirefoxOf, FailureOf, Steps, PoolSteps, FoxSteps
    <2> QED BY <2>1, <2>2, <2>3, <2>4, <2>5, <2>6
  <1>11. CASE AcquireCamoufox(j)
    <2> USE <1>11 DEF AcquireCamoufox, Go
    <2>1. PermitsConserved' /\ sem' \in 0 .. MAX_CONCURRENT_BROWSERS /\ csem' \in 0 .. MAX_CONCURRENT_CAMOUFOX
      BY PermitsMove DEF Steps, PoolSteps, FoxSteps
    <2>2. Types'
      BY <2>1 DEF Types, TypeOK, Steps, PoolSteps, FoxSteps
    <2>3. Quiet' /\ LockHeld'
      BY DEF Types, TypeOK, Quiet, LockHeld
    <2>4. StartsCounted'
      BY DEF Types, TypeOK, Quiet, LockHeld, StartsCounted
    <2>5. Processes'
      BY DEF Types, TypeOK, Quiet, LockHeld, Processes
    <2>6. ASSUME NEW i \in Jobs PROVE ContextOf(i)' /\ FirefoxOf(i)' /\ FailureOf(i)'
      BY <2>6 DEF Types, TypeOK, Quiet, LockHeld, ContextOf, FirefoxOf, FailureOf, Steps, PoolSteps, FoxSteps
    <2> QED BY <2>1, <2>2, <2>3, <2>4, <2>5, <2>6
  <1>12. CASE OpenFirefox(j)
    <2> USE <1>12 DEF OpenFirefox, Go
    <2>1. PermitsConserved' /\ sem' \in 0 .. MAX_CONCURRENT_BROWSERS /\ csem' \in 0 .. MAX_CONCURRENT_CAMOUFOX
      BY PermitsMove DEF Steps, PoolSteps, FoxSteps
    <2>2. Types'
      BY <2>1 DEF Types, TypeOK, Steps, PoolSteps, FoxSteps
    <2>3. Quiet' /\ LockHeld'
      BY DEF Types, TypeOK, Quiet, LockHeld
    <2>4. StartsCounted'
      BY DEF Types, TypeOK, Quiet, LockHeld, StartsCounted
    <2>5. Processes'
      BY DEF Types, TypeOK, Quiet, LockHeld, Processes
    <2>6. ASSUME NEW i \in Jobs PROVE ContextOf(i)' /\ FirefoxOf(i)' /\ FailureOf(i)'
      BY <2>6 DEF Types, TypeOK, Quiet, LockHeld, ContextOf, FirefoxOf, FailureOf, Steps, PoolSteps, FoxSteps
    <2> QED BY <2>1, <2>2, <2>3, <2>4, <2>5, <2>6
  <1>13. CASE _do_fetch(j)
    <2> USE <1>13 DEF _do_fetch, Go
    <2>1. PermitsConserved' /\ sem' \in 0 .. MAX_CONCURRENT_BROWSERS /\ csem' \in 0 .. MAX_CONCURRENT_CAMOUFOX
      BY PermitsMove DEF Steps, PoolSteps, FoxSteps
    <2>2. Types'
      BY <2>1 DEF Types, TypeOK, Steps, PoolSteps, FoxSteps
    <2>3. Quiet' /\ LockHeld'
      BY DEF Types, TypeOK, Quiet, LockHeld
    <2>4. StartsCounted'
      BY DEF Types, TypeOK, Quiet, LockHeld, StartsCounted
    <2>5. Processes'
      BY DEF Types, TypeOK, Quiet, LockHeld, Processes
    <2>6. ASSUME NEW i \in Jobs PROVE ContextOf(i)' /\ FirefoxOf(i)' /\ FailureOf(i)'
      BY <2>6 DEF Types, TypeOK, Quiet, LockHeld, ContextOf, FirefoxOf, FailureOf, Steps, PoolSteps, FoxSteps
    <2> QED BY <2>1, <2>2, <2>3, <2>4, <2>5, <2>6
  <1>14. CASE CloseFirefox(j)
    <2> USE <1>14 DEF CloseFirefox, Go
    <2>1. PermitsConserved' /\ sem' \in 0 .. MAX_CONCURRENT_BROWSERS /\ csem' \in 0 .. MAX_CONCURRENT_CAMOUFOX
      BY PermitsMove DEF Steps, PoolSteps, FoxSteps
    <2>2. Types'
      BY <2>1 DEF Types, TypeOK, Steps, PoolSteps, FoxSteps
    <2>3. Quiet' /\ LockHeld'
      BY DEF Types, TypeOK, Quiet, LockHeld
    <2>4. StartsCounted'
      BY DEF Types, TypeOK, Quiet, LockHeld, StartsCounted
    <2>5. Processes'
      BY DEF Types, TypeOK, Quiet, LockHeld, Processes
    <2>6. ASSUME NEW i \in Jobs PROVE ContextOf(i)' /\ FirefoxOf(i)' /\ FailureOf(i)'
      BY <2>6 DEF Types, TypeOK, Quiet, LockHeld, ContextOf, FirefoxOf, FailureOf, Steps, PoolSteps, FoxSteps
    <2> QED BY <2>1, <2>2, <2>3, <2>4, <2>5, <2>6
  <1>15. CASE WaitBreaks(j)
    <2> USE <1>15 DEF WaitBreaks, Go, End, Broken
    <2>1. PermitsConserved' /\ sem' \in 0 .. MAX_CONCURRENT_BROWSERS /\ csem' \in 0 .. MAX_CONCURRENT_CAMOUFOX
      BY PermitsMove DEF Steps, PoolSteps, FoxSteps
    <2>2. Types'
      BY <2>1 DEF Types, TypeOK, Steps, PoolSteps, FoxSteps
    <2>3. Quiet' /\ LockHeld'
      BY DEF Types, TypeOK, Quiet, LockHeld
    <2>4. StartsCounted'
      BY DEF Types, TypeOK, Quiet, LockHeld, StartsCounted
    <2>5. Processes'
      BY DEF Types, TypeOK, Quiet, LockHeld, Processes
    <2>6. ASSUME NEW i \in Jobs PROVE ContextOf(i)' /\ FirefoxOf(i)' /\ FailureOf(i)'
      BY <2>6 DEF Types, TypeOK, Quiet, LockHeld, ContextOf, FirefoxOf, FailureOf, Steps, PoolSteps, FoxSteps
    <2> QED BY <2>1, <2>2, <2>3, <2>4, <2>5, <2>6
  <1>16. CASE StartBreaks(j)
    <2> USE <1>16 DEF StartBreaks, Go, End, Broken
    <2>1. PermitsConserved' /\ sem' \in 0 .. MAX_CONCURRENT_BROWSERS /\ csem' \in 0 .. MAX_CONCURRENT_CAMOUFOX
      BY PermitsMove DEF Steps, PoolSteps, FoxSteps
    <2>2. Types'
      <3>1. last \in Nat /\ last' \in Nat /\ last <= last'
        BY DEF Types
      <3>2. drivers' \subseteq 1 .. last' /\ up' \subseteq drivers'
        <4>1. drivers \subseteq 1 .. last /\ up \subseteq drivers
          BY DEF Types, TypeOK
        <4>2. CASE At(j, "driver")
          <5>1. last' = last + 1 /\ up' = up /\ (drivers' = drivers \/ drivers' = drivers \cup {last + 1})
            BY <4>2
          <5>2. 1 .. last \subseteq 1 .. last' /\ last + 1 \in 1 .. last'
            BY <3>1, <5>1
          <5> QED BY <4>1, <5>1, <5>2
        <4>3. CASE At(j, "launch")
          <5>1. _pw \in drivers /\ last' = last /\ drivers' = drivers
            BY <4>3 DEF LockHeld
          <5> QED BY <4>1, <5>1
        <4> QED BY <4>2, <4>3
      <3>3. /\ _pw' \in 0 .. last' /\ _browser' \in 0 .. last'
            /\ asked' \in [Jobs -> 0 .. last'] /\ ctx' \in [Jobs -> 0 .. last']
        BY <3>1 DEF Types, TypeOK
      <3> HIDE <1>16 DEF StartBreaks
      <3>4. /\ UNCHANGED <<phase, fox>> /\ _lock' = FALSE
            /\ pc' = [pc EXCEPT ![j] = "done"] /\ outcome' = [outcome EXCEPT ![j] = "failed"]
            /\ broke' = [broke EXCEPT ![j] = pc[j]]
            /\ breaks' = breaks + 1 /\ crashes' = crashes
        BY <1>16 DEF StartBreaks
      <3>5. /\ pc' \in [Jobs -> Steps] /\ broke' \in [Jobs -> Steps \cup {"none", "crash"}]
            /\ outcome' \in [Jobs -> {"none", "ok", "site", "failed", "refused"}]
        BY <3>4 DEF Types, TypeOK, Steps
      <3>6. phase' \in {"starting", "running", "closing", "stopped", "failed"}
        BY <3>4 DEF Types, TypeOK
      <3>7. fox' \in [Jobs -> {"none", "driver", "browser"}] /\ _lock' \in BOOLEAN
        BY <3>4 DEF Types, TypeOK
      <3>8. breaks' \in Nat /\ crashes' \in Nat
        BY <3>4 DEF Types
      <3> QED BY <2>1, <3>1, <3>2, <3>3, <3>5, <3>6, <3>7, <3>8 DEF Types, TypeOK
    <2>3. Quiet' /\ LockHeld'
      BY DEF Types, TypeOK, Quiet, LockHeld
    <2>4. StartsCounted'
      BY DEF Types, TypeOK, Quiet, LockHeld, StartsCounted
    <2>5. Processes'
      <3>1. breaks' # 0 /\ cut \subseteq cut'
        BY DEF Types
      <3>2. up' \subseteq {_browser'} \cup cut'
        BY DEF Processes
      <3> QED BY <3>1, <3>2 DEF Processes
    <2>6. ASSUME NEW i \in Jobs PROVE ContextOf(i)' /\ FirefoxOf(i)' /\ FailureOf(i)'
      BY <2>6 DEF Types, TypeOK, Quiet, LockHeld, ContextOf, FirefoxOf, FailureOf, Steps, PoolSteps, FoxSteps
    <2> QED BY <2>1, <2>2, <2>3, <2>4, <2>5, <2>6
  <1>17. CASE ContextBreaks(j)
    <2> USE <1>17 DEF ContextBreaks, Go, End, Broken
    <2>1. PermitsConserved' /\ sem' \in 0 .. MAX_CONCURRENT_BROWSERS /\ csem' \in 0 .. MAX_CONCURRENT_CAMOUFOX
      BY PermitsMove DEF Steps, PoolSteps, FoxSteps
    <2>2. Types'
      BY <2>1 DEF Types, TypeOK, Steps, PoolSteps, FoxSteps
    <2>3. Quiet' /\ LockHeld'
      BY DEF Types, TypeOK, Quiet, LockHeld
    <2>4. StartsCounted'
      BY DEF Types, TypeOK, Quiet, LockHeld, StartsCounted
    <2>5. Processes'
      BY DEF Types, TypeOK, Quiet, LockHeld, Processes
    <2>6. ASSUME NEW i \in Jobs PROVE ContextOf(i)' /\ FirefoxOf(i)' /\ FailureOf(i)'
      BY <2>6 DEF Types, TypeOK, Quiet, LockHeld, ContextOf, FirefoxOf, FailureOf, Steps, PoolSteps, FoxSteps
    <2> QED BY <2>1, <2>2, <2>3, <2>4, <2>5, <2>6
  <1>18. CASE UseBreaks(j)
    <2> USE <1>18 DEF UseBreaks, Go, Broken
    <2>1. PermitsConserved' /\ sem' \in 0 .. MAX_CONCURRENT_BROWSERS /\ csem' \in 0 .. MAX_CONCURRENT_CAMOUFOX
      BY PermitsMove DEF Steps, PoolSteps, FoxSteps
    <2>2. Types'
      BY <2>1 DEF Types, TypeOK, Steps, PoolSteps, FoxSteps
    <2>3. Quiet' /\ LockHeld'
      BY DEF Types, TypeOK, Quiet, LockHeld
    <2>4. StartsCounted'
      BY DEF Types, TypeOK, Quiet, LockHeld, StartsCounted
    <2>5. Processes'
      BY DEF Types, TypeOK, Quiet, LockHeld, Processes
    <2>6. ASSUME NEW i \in Jobs PROVE ContextOf(i)' /\ FirefoxOf(i)' /\ FailureOf(i)'
      BY <2>6 DEF Types, TypeOK, Quiet, LockHeld, ContextOf, FirefoxOf, FailureOf, Steps, PoolSteps, FoxSteps
    <2> QED BY <2>1, <2>2, <2>3, <2>4, <2>5, <2>6
  <1>19. CASE CloseBreaks(j)
    <2> USE <1>19 DEF CloseBreaks, Go, End, Broken
    <2>1. PermitsConserved' /\ sem' \in 0 .. MAX_CONCURRENT_BROWSERS /\ csem' \in 0 .. MAX_CONCURRENT_CAMOUFOX
      BY PermitsMove DEF Steps, PoolSteps, FoxSteps
    <2>2. Types'
      BY <2>1 DEF Types, TypeOK, Steps, PoolSteps, FoxSteps
    <2>3. Quiet' /\ LockHeld'
      BY DEF Types, TypeOK, Quiet, LockHeld
    <2>4. StartsCounted'
      BY DEF Types, TypeOK, Quiet, LockHeld, StartsCounted
    <2>5. Processes'
      BY DEF Types, TypeOK, Quiet, LockHeld, Processes
    <2>6. ASSUME NEW i \in Jobs PROVE ContextOf(i)' /\ FirefoxOf(i)' /\ FailureOf(i)'
      BY <2>6 DEF Types, TypeOK, Quiet, LockHeld, ContextOf, FirefoxOf, FailureOf, Steps, PoolSteps, FoxSteps
    <2> QED BY <2>1, <2>2, <2>3, <2>4, <2>5, <2>6
  <1>20. CASE CamoufoxBreaks(j)
    <2> USE <1>20 DEF CamoufoxBreaks, Go, Broken, AfterBreak
    <2>1. PermitsConserved' /\ sem' \in 0 .. MAX_CONCURRENT_BROWSERS /\ csem' \in 0 .. MAX_CONCURRENT_CAMOUFOX
      BY PermitsMove DEF Steps, PoolSteps, FoxSteps
    <2>2. Types'
      BY <2>1 DEF Types, TypeOK, Steps, PoolSteps, FoxSteps
    <2>3. Quiet' /\ LockHeld'
      BY DEF Types, TypeOK, Quiet, LockHeld
    <2>4. StartsCounted'
      BY DEF Types, TypeOK, Quiet, LockHeld, StartsCounted
    <2>5. Processes'
      BY DEF Types, TypeOK, Quiet, LockHeld, Processes
    <2>6. ASSUME NEW i \in Jobs PROVE ContextOf(i)' /\ FirefoxOf(i)' /\ FailureOf(i)'
      BY <2>6 DEF Types, TypeOK, Quiet, LockHeld, ContextOf, FirefoxOf, FailureOf, Steps, PoolSteps, FoxSteps
    <2> QED BY <2>1, <2>2, <2>3, <2>4, <2>5, <2>6
  <1> QED
    BY <1>1, <1>2, <1>3, <1>4, <1>5, <1>6, <1>7, <1>8, <1>9, <1>10, <1>11, <1>12, <1>13, <1>14, <1>15, <1>16, <1>17, <1>18, <1>19, <1>20
       DEF JobStep, JobBreaks

\* Startup, shutdown and the deaths of Chromium leave the steps of the jobs and the permits alone.
LEMMA NextIInv == IInv /\ [Next]_vars => IInv'
  <1> SUFFICES ASSUME IInv, [Next]_vars PROVE IInv'
    OBVIOUS
  <1> USE PoolAssumption DEF IInv, workVars, poolVars, semVars, jobVars, faultVars, Starting
  <1>1. ASSUME UNCHANGED <<pc, sem, csem>> PROVE PermitsConserved'
    BY <1>1 DEF PermitsConserved
  <1>2. CASE startup
    <2> USE <1>2 DEF startup
    <2>1. Types'
      <3>1. CASE phase' = "running"
        <4>1. last' \in Nat /\ last' = 1 /\ last = 0 /\ drivers' = {1} /\ up' = {1} /\ _pw' = 1 /\ _browser' = 1
          BY <3>1 DEF Quiet
        <4>2. asked' \in [Jobs -> 0 .. last'] /\ ctx' \in [Jobs -> 0 .. last']
          BY <4>1 DEF Types, TypeOK
        <4> QED BY <3>1, <4>1, <4>2 DEF Types, TypeOK
      <3>2. CASE phase' = "failed"
        BY <3>2 DEF Types, TypeOK
      <3> QED BY <3>1, <3>2
    <2>2. Quiet' /\ LockHeld' /\ StartsCounted'
      BY DEF Types, TypeOK, Quiet, LockHeld, StartsCounted
    <2>3. Processes'
      BY DEF Types, TypeOK, Quiet, Processes
    <2>4. ASSUME NEW i \in Jobs PROVE ContextOf(i)' /\ FirefoxOf(i)' /\ FailureOf(i)'
      BY <2>4 DEF Types, TypeOK, Quiet, ContextOf, FirefoxOf, FailureOf
    <2> QED BY <1>1, <2>1, <2>2, <2>3, <2>4
  <1>3. CASE shutdown
    <2> USE <1>3 DEF shutdown
    <2>1. Types'
      <3>1. up \subseteq drivers /\ ctx \in [Jobs -> 0 .. last] /\ breaks \in Nat /\ last \in Nat
        BY DEF Types, TypeOK
      <3>2. up' \subseteq drivers
        BY <3>1
      <3>3. ctx' \in [Jobs -> 0 .. last]
        BY <3>1
      <3>4. breaks' \in Nat /\ phase' \in {"closing", "stopped"}
        BY <3>1
      <3> QED BY <3>2, <3>3, <3>4 DEF Types, TypeOK
    <2>2. Quiet' /\ LockHeld' /\ StartsCounted'
      BY DEF Types, TypeOK, Quiet, LockHeld, StartsCounted
    <2>3. Processes'
      <3>1. CASE phase' = "closing"
        <4>1. up' = up \ {_browser} /\ breaks' = breaks /\ UNCHANGED <<_browser, cut>>
          BY <3>1
        <4> QED BY <3>1, <4>1 DEF Processes
      <3>2. CASE phase' = "stopped"
        <4>1. breaks' # 0 /\ UNCHANGED <<up, _browser, cut>>
          BY <3>2 DEF Types
        <4> QED BY <4>1 DEF Processes
      <3> QED BY <3>1, <3>2
    <2>4. ASSUME NEW i \in Jobs PROVE ContextOf(i)' /\ FirefoxOf(i)' /\ FailureOf(i)'
      BY <2>4 DEF Types, TypeOK, ContextOf, FirefoxOf, FailureOf
    <2> QED BY <1>1, <2>1, <2>2, <2>3, <2>4
  <1>4. CASE stop
    <2> USE <1>4 DEF stop
    <2>1. Types'
      <3>1. up \subseteq drivers /\ drivers \subseteq 1 .. last /\ breaks \in Nat
        BY DEF Types, TypeOK
      <3>2. drivers' \subseteq 1 .. last /\ up' \subseteq drivers'
        BY <3>1
      <3>3. breaks' \in Nat
        BY <3>1
      <3> QED BY <3>2, <3>3 DEF Types, TypeOK
    <2>2. Quiet' /\ LockHeld' /\ StartsCounted'
      BY DEF Types, TypeOK, Quiet, LockHeld, StartsCounted
    <2>3. Processes'
      <3>1. breaks' = 0 => Cardinality(drivers') <= crashes'
        <4> SUFFICES ASSUME breaks' = 0 PROVE Cardinality(drivers \ {_pw}) <= crashes
          BY DEF Types
        <4>1. _pw \in drivers /\ last <= 1 + crashes /\ crashes \in Nat /\ last \in Nat
          BY DEF Types, Quiet, StartsCounted
        <4>2. IsFiniteSet(drivers) /\ Cardinality(drivers) \in Nat /\ Cardinality(drivers) <= last
          BY DriversCounted
        <4>3. Cardinality(drivers \ {_pw}) = Cardinality(drivers) - 1
          BY <4>1, <4>2, FS_RemoveElement
        <4> QED BY <4>1, <4>2, <4>3
      <3> QED BY <3>1 DEF Types, Processes
    <2>4. ASSUME NEW i \in Jobs PROVE ContextOf(i)' /\ FirefoxOf(i)' /\ FailureOf(i)'
      BY <2>4 DEF Quiet, ContextOf, FirefoxOf, FailureOf
    <2> QED BY <1>1, <2>1, <2>2, <2>3, <2>4
  <1>5. CASE Crash
    <2> USE <1>5 DEF Crash
    <2>1. PICK b \in up :
            /\ up' = up \ {b}
            /\ ctx' = [j \in Jobs |-> IF ctx[j] = b THEN 0 ELSE ctx[j]]
            /\ broke' = [j \in Jobs |-> IF asked[j] = b /\ pc[j] # "done" /\ broke[j] = "none"
                                        THEN "crash" ELSE broke[j]]
      OBVIOUS
    <2>2. /\ crashes' = crashes + 1
          /\ UNCHANGED <<phase, _pw, _browser, drivers, last, sem, csem, _lock, pc, asked, fox, outcome, cut, breaks>>
      OBVIOUS
    <2> HIDE <1>5 DEF Crash
    <2>3. Types'
      BY <2>1, <2>2 DEF Types, TypeOK
    <2>4. Quiet' /\ LockHeld'
      BY <2>1, <2>2 DEF Types, TypeOK, Quiet, LockHeld
    <2>5. StartsCounted'
      BY <2>1, <2>2 DEF Types, TypeOK, StartsCounted
    <2>6. Processes'
      <3>1. Cardinality(drivers) \in Nat
        BY DriversCounted
      <3> QED BY <2>1, <2>2, <3>1 DEF Types, Processes
    <2>7. ASSUME NEW i \in Jobs PROVE ContextOf(i)' /\ FirefoxOf(i)' /\ FailureOf(i)'
      BY <2>1, <2>2, <2>7 DEF Types, TypeOK, ContextOf, FirefoxOf, FailureOf
    <2> QED BY <1>1, <2>2, <2>3, <2>4, <2>5, <2>6, <2>7
  <1>6. ASSUME NEW j \in Jobs, fetch(j) \/ fetchCamoufox(j) \/ JobStep(j) \/ JobBreaks(j) PROVE IInv'
    BY <1>6, JobIInv
  <1>7. CASE UNCHANGED vars
    BY <1>7 DEF vars, Types, TypeOK, PermitsConserved, Quiet, LockHeld, StartsCounted, Processes,
                ContextOf, FirefoxOf, FailureOf
  <1> QED BY <1>2, <1>3, <1>4, <1>5, <1>6, <1>7 DEF Next

-----------------------------------------------------------------------------
LEMMA Invariance == Spec => []IInv
  BY InitIInv, NextIInv, PTL DEF Spec

\* Pool, permits, contexts and outcomes stay in their types.
THEOREM TypeCorrect == Spec => []TypeOK
  <1>1. IInv => TypeOK
    BY DEF IInv, Types
  <1> QED BY <1>1, Invariance, PTL

\* Whatever is cancelled, fails or dies, every permit is free or held by a job that is past
\* its semaphore, and the pool has one Chromium besides those that a broken launch left
\* (BrowserPool.context and start, CamoufoxFetcher.fetch).
THEOREM PermitsAndBrowsersAreBounded == Spec => []ResourcesBounded
  <1>1. ASSUME IInv PROVE ResourcesBounded
    <2>1. Cardinality(drivers) \in Nat /\ Cardinality(drivers) <= last
      BY <1>1, DriversCounted DEF IInv
    <2>2. last \in Nat /\ crashes \in Nat /\ breaks \in Nat /\ last <= 1 + crashes + breaks
      BY <1>1 DEF IInv, Types, StartsCounted
    <2>3. up \subseteq {_browser} \cup cut /\ PermitsConserved
      BY <1>1 DEF IInv, Processes
    <2> QED BY <2>1, <2>2, <2>3 DEF ResourcesBounded, OneBrowser
  <1> QED BY <1>1, Invariance, PTL

\* A context, a Firefox or a driver that outlives its job or the worker was left by a broken
\* await, or by the relaunch that replaced it (BrowserPool.context and stop, _new_browser).
THEOREM LeftoversHaveACause == Spec => []LeftoversExplained
  <1>1. ASSUME IInv PROVE LeftoversExplained
    BY <1>1 DEF IInv, Processes, ContextOf, FirefoxOf, LeftoversExplained
  <1> QED BY <1>1, Invariance, PTL

\* A job fails for the browser's sake only if it was broken itself or its browser died under
\* it: the check under the lock gives every other job a live one (BrowserPool.context).
THEOREM DeathsHarmNoLaterJob == Spec => []UnharmedJobsSucceed
  <1>1. IInv => UnharmedJobsSucceed
    BY DEF IInv, FailureOf, UnharmedJobsSucceed
  <1> QED BY <1>1, Invariance, PTL

=============================================================================
