----------------------------- MODULE ProxyProofs -----------------------------
(***************************************************************************)
(* The proxies, for any number of jobs, proxies, syncs, plans and          *)
(* processes: the health reports (ProxyHealth), the sync with the provider *)
(* (ProxySync) and the circuit breaker (CircuitBreaker).  The three have   *)
(* variables of their own, and each is proved about by itself.             *)
(*                                                                         *)
(* The reports.  Two versions of a row each agree with a history of their  *)
(* own: the committed one with the log, the uncommitted one with the log   *)
(* and the reports that its holder has filed since.  A read of the failure *)
(* count that nobody made stale is still the count of the row it will be   *)
(* written to.                                                             *)
(***************************************************************************)
EXTENDS ProxyHealth, ProxySync, CircuitBreaker, FiniteSetTheorems, SequenceTheorems,
        WellFoundedInduction, TLAPS

-----------------------------------------------------------------------------
(* Numbers.                                                                *)

LEMMA MinMaxOfTwo ==
  ASSUME NEW a \in Int, NEW b \in Int
  PROVE  /\ Min({a, b}) = IF a <= b THEN a ELSE b
         /\ Max({a, b}) = IF a >= b THEN a ELSE b
  BY DEF Min, Max

\* A power of two counts the subsets of a set.
LEMMA PowersAreNatural ==
  ASSUME NEW k \in Nat
  PROVE  2 ^ k \in Nat
  <1>1. IsFiniteSet(1 .. k) /\ Cardinality(1 .. k) = k
    BY FS_Interval
  <1>2. IsFiniteSet(SUBSET (1 .. k)) /\ Cardinality(SUBSET (1 .. k)) = 2 ^ k
    BY <1>1, FS_SUBSET
  <1> QED
    BY <1>2, FS_CardinalityType

LEMMA BackoffIsNatural ==
  ASSUME NEW n \in Nat \ {0}
  PROVE  Backoff(n) \in Nat
  <1>1. Base \in Nat /\ Cap \in Nat /\ 2 ^ (n - 1) \in Nat
    BY HealthAssumption, PowersAreNatural
  <1>2. Base * 2 ^ (n - 1) \in Nat
    BY <1>1
  <1> QED
    BY <1>1, <1>2, MinMaxOfTwo DEF Backoff

-----------------------------------------------------------------------------
(* Logs.                                                                   *)

Kinds == {"ok", "fail", "reset"}

LEMMA AppendIs ==
  ASSUME NEW s \in Seq(Kinds), NEW v \in Kinds
  PROVE  /\ Append(s, v) \in Seq(Kinds) /\ Len(Append(s, v)) = Len(s) + 1 /\ Len(s) \in Nat
         /\ DOMAIN s = 1 .. Len(s) /\ DOMAIN Append(s, v) = 1 .. (Len(s) + 1)
         /\ \A i \in 1 .. (Len(s) + 1) : Append(s, v)[i] = IF i <= Len(s) THEN s[i] ELSE v
  <1> HIDE DEF Kinds
  <1>1. /\ Append(s, v) \in Seq(Kinds) /\ Len(Append(s, v)) = Len(s) + 1
        /\ \A i \in 1 .. Len(s) : Append(s, v)[i] = s[i]
        /\ Append(s, v)[Len(s) + 1] = v
    BY AppendProperties
  <1>2. Len(s) \in Nat /\ DOMAIN s = 1 .. Len(s)
    BY LenProperties
  <1>3. DOMAIN Append(s, v) = 1 .. (Len(s) + 1)
    BY <1>1, LenProperties
  <1> QED
    BY <1>1, <1>2, <1>3

LEMMA CountOfAppend ==
  ASSUME NEW s \in Seq(Kinds), NEW v \in Kinds, NEW kinds
  PROVE  /\ Count(s, kinds) \in Nat
         /\ Count(Append(s, v), kinds) = Count(s, kinds) + IF v \in kinds THEN 1 ELSE 0
  <1> DEFINE t == Append(s, v)
             n == Len(s) + 1
             A == {i \in DOMAIN s : s[i] \in kinds}
             C == {i \in DOMAIN t : t[i] \in kinds}
  <1>1. /\ DOMAIN s = 1 .. Len(s) /\ Len(s) \in Nat /\ DOMAIN t = 1 .. n
        /\ \A i \in 1 .. n : t[i] = IF i <= Len(s) THEN s[i] ELSE v
    BY AppendIs
  <1> HIDE DEF t
  <1>2. IsFiniteSet(A) /\ Cardinality(A) \in Nat
    <2>1. IsFiniteSet(1 .. Len(s))
      BY <1>1, FS_Interval
    <2>2. IsFiniteSet(A)
      BY <1>1, <2>1, FS_Subset
    <2> QED
      BY <2>2, FS_CardinalityType
  <1>3. CASE v \in kinds
    <2>1. C = A \cup {n} /\ n \notin A
      BY <1>1, <1>3
    <2>2. Cardinality(C) = Cardinality(A) + 1
      <3> HIDE DEF A, C, n
      <3> QED
        BY <1>2, <2>1, FS_AddElement
    <2> QED
      BY <1>2, <1>3, <2>2 DEF Count, t
  <1>4. CASE v \notin kinds
    <2>1. C = A
      BY <1>1, <1>4
    <2>2. Count(t, kinds) = Cardinality(A) /\ Count(s, kinds) = Cardinality(A)
      BY <2>1 DEF Count
    <2> HIDE DEF A, C
    <2>3. Cardinality(A) + 0 = Cardinality(A)
      BY <1>2
    <2> QED
      BY <1>2, <1>4, <2>2, <2>3 DEF t
  <1> QED
    BY <1>3, <1>4

\* A set of integers that is bounded above has a greatest element, and Max is that element.
LEMMA MaxIsGreatest ==
  ASSUME NEW S, S \subseteq Int, S # {}, NEW b \in Int, \A s \in S : s <= b
  PROVE  Max(S) \in S /\ \A s \in S : s <= Max(S)
  <1> DEFINE T == {n \in Nat : b - n \in S}
             R == OpToRel(<, Nat)
  <1>1. \A s \in S : s \in Int /\ b - s \in Nat /\ b - (b - s) = s
    OBVIOUS
  <1>2. T \subseteq Nat /\ T # {}
    BY <1>1
  <1>3. PICK x \in T : \A y \in T : ~(<<y, x>> \in R)
    <2>1. IsWellFoundedOn(R, Nat)
      BY NatLessThanWellFounded
    <2> HIDE DEF T, R
    <2> QED
      BY <1>2, <2>1, WFMin
  <1>4. \A y \in T : ~(y < x)
    BY <1>3 DEF OpToRel
  <1>5. \A s \in S : b - s \in T
    BY <1>1
  <1>6. x \in Nat /\ b - x \in S
    BY <1>2
  <1>7. ASSUME NEW s \in S PROVE s <= b - x
    <2>1. ~(b - s < x)
      BY <1>4, <1>5
    <2> QED
      BY <1>1, <1>6, <2>1
  <1>8. \A m \in S : (\A s \in S : s <= m) => m = b - x
    <2>1. \A m \in S : m \in Int /\ m <= b - x
      BY <1>7
    <2> QED
      BY <1>6, <2>1
  <1> QED
    BY <1>6, <1>7, <1>8 DEF Max

\* Streak counts the failures after the last report that is no failure.
LEMMA StreakIs ==
  ASSUME NEW s \in Seq(Kinds), NEW m \in 0 .. Len(s), m = 0 \/ s[m] # "fail",
         \A i \in 1 .. Len(s) : i > m => s[i] = "fail"
  PROVE  Streak(s) = Len(s) - m
  <1> DEFINE S == {0} \cup {i \in DOMAIN s : s[i] # "fail"}
  <1>1. DOMAIN s = 1 .. Len(s) /\ Len(s) \in Nat
    OBVIOUS
  <1>2. m \in S /\ S \subseteq Int /\ \A i \in S : i <= m
    BY <1>1
  <1>3. Max(S) \in S /\ \A i \in S : i <= Max(S)
    <2> HIDE DEF S
    <2>1. m \in Int /\ S # {}
      BY <1>2
    <2> QED
      BY <1>2, <2>1, MaxIsGreatest
  <1>4. Max(S) = m
    <2> HIDE DEF S
    <2> DEFINE M == Max(S)
    <2>1. M \in Int /\ M <= m /\ m <= M /\ m \in Int
      BY <1>2, <1>3
    <2> HIDE DEF M
    <2> QED
      BY <2>1 DEF M
  <1> QED
    BY <1>4 DEF Streak

LEMMA LastOther ==
  ASSUME NEW s \in Seq(Kinds)
  PROVE  \E m \in 0 .. Len(s) : /\ m = 0 \/ s[m] # "fail"
                                /\ \A i \in 1 .. Len(s) : i > m => s[i] = "fail"
                                /\ Streak(s) = Len(s) - m
  <1> DEFINE S == {0} \cup {i \in DOMAIN s : s[i] # "fail"}
             m == Max(S)
  <1>1. DOMAIN s = 1 .. Len(s) /\ Len(s) \in Nat
    OBVIOUS
  <1>2. S \subseteq Int /\ S # {} /\ (\A i \in S : i <= Len(s)) /\ Len(s) \in Int
    BY <1>1
  <1>3. m \in S /\ \A i \in S : i <= m
    <2> HIDE DEF S
    <2> QED
      BY <1>2, MaxIsGreatest
  <1> HIDE DEF m
  <1>4. m \in 0 .. Len(s) /\ (m = 0 \/ s[m] # "fail")
    BY <1>1, <1>3
  <1>5. \A i \in 1 .. Len(s) : i > m => s[i] = "fail"
    BY <1>1, <1>3, <1>4
  <1>6. Streak(s) = Len(s) - m
    BY <1>4, <1>5, StreakIs
  <1> QED
    BY <1>4, <1>5, <1>6

\* A failure makes the run longer, anything else ends it.
LEMMA StreakOfAppend ==
  ASSUME NEW s \in Seq(Kinds), NEW v \in Kinds
  PROVE  /\ Streak(s) \in Nat
         /\ Streak(Append(s, v)) = IF v = "fail" THEN Streak(s) + 1 ELSE 0
  <1> DEFINE t == Append(s, v)
  <1>1. PICK m \in 0 .. Len(s) : /\ m = 0 \/ s[m] # "fail"
                                 /\ \A i \in 1 .. Len(s) : i > m => s[i] = "fail"
                                 /\ Streak(s) = Len(s) - m
    BY LastOther
  <1>2. /\ t \in Seq(Kinds) /\ Len(t) = Len(s) + 1 /\ Len(s) \in Nat
        /\ \A i \in 1 .. (Len(s) + 1) : t[i] = IF i <= Len(s) THEN s[i] ELSE v
    BY AppendIs
  <1> HIDE DEF t
  <1>3. Streak(s) \in Nat
    BY <1>1, <1>2
  <1>4. CASE v = "fail"
    <2>1. /\ m \in 0 .. Len(t) /\ (m = 0 \/ t[m] # "fail")
          /\ \A i \in 1 .. Len(t) : i > m => t[i] = "fail"
      BY <1>1, <1>2, <1>4
    <2>2. Streak(t) = Len(t) - m
      BY <1>2, <2>1, StreakIs
    <2> QED
      BY <1>1, <1>2, <1>3, <1>4, <2>2 DEF t
  <1>5. CASE v # "fail"
    <2>1. /\ Len(t) \in 0 .. Len(t) /\ t[Len(t)] # "fail"
          /\ \A i \in 1 .. Len(t) : i > Len(t) => t[i] = "fail"
      BY <1>2, <1>5
    <2>2. Streak(t) = Len(t) - Len(t)
      BY <1>2, <2>1, StreakIs
    <2> QED
      BY <1>2, <1>3, <1>5, <2>2 DEF t
  <1> QED
    BY <1>3, <1>4, <1>5 DEF t

\* What one more report or reset does to a log.
LEMMA LogGrows ==
  ASSUME NEW s \in Seq(Kinds), NEW v \in Kinds, NEW t, t = Append(s, v)
  PROVE  /\ t \in Seq(Kinds)
         /\ Count(s, {"ok", "fail"}) \in Nat /\ Count(s, {"fail"}) \in Nat /\ Streak(s) \in Nat
         /\ Count(t, {"ok", "fail"}) = Count(s, {"ok", "fail"}) + IF v = "reset" THEN 0 ELSE 1
         /\ Count(t, {"fail"}) = Count(s, {"fail"}) + IF v = "fail" THEN 1 ELSE 0
         /\ Streak(t) = IF v = "fail" THEN Streak(s) + 1 ELSE 0
  <1>1. t \in Seq(Kinds)
    BY AppendIs
  <1>2. /\ Count(s, {"ok", "fail"}) \in Nat
        /\ Count(t, {"ok", "fail"}) = Count(s, {"ok", "fail"}) + IF v \in {"ok", "fail"} THEN 1 ELSE 0
    BY CountOfAppend
  <1>3. /\ Count(s, {"fail"}) \in Nat
        /\ Count(t, {"fail"}) = Count(s, {"fail"}) + IF v \in {"fail"} THEN 1 ELSE 0
    BY CountOfAppend
  <1>4. Streak(s) \in Nat /\ Streak(t) = IF v = "fail" THEN Streak(s) + 1 ELSE 0
    BY StreakOfAppend
  <1>5. (v \in {"ok", "fail"} <=> v # "reset") /\ (v \in {"fail"} <=> v = "fail")
    BY DEF Kinds
  <1> QED
    BY <1>1, <1>2, <1>3, <1>4, <1>5

LEMMA ReportGrows ==
  \A s \in Seq(Kinds), v \in {"ok", "fail"} :
    /\ Count(s, {"ok", "fail"}) \in Nat /\ Count(s, {"fail"}) \in Nat /\ Streak(s) \in Nat
    /\ Count(Append(s, v), {"ok", "fail"}) = Count(s, {"ok", "fail"}) + 1
    /\ Count(Append(s, v), {"fail"}) = Count(s, {"fail"}) + IF v = "fail" THEN 1 ELSE 0
    /\ Streak(Append(s, v)) = IF v = "fail" THEN Streak(s) + 1 ELSE 0
  <1> TAKE s \in Seq(Kinds), v \in {"ok", "fail"}
  <1>1. v \in Kinds /\ v # "reset"
    BY DEF Kinds
  <1>2. PICK t : t = Append(s, v)
    OBVIOUS
  <1> HIDE DEF Kinds
  <1>3. /\ Count(s, {"ok", "fail"}) \in Nat /\ Count(s, {"fail"}) \in Nat /\ Streak(s) \in Nat
        /\ Count(t, {"ok", "fail"}) = Count(s, {"ok", "fail"}) + IF v = "reset" THEN 0 ELSE 1
        /\ Count(t, {"fail"}) = Count(s, {"fail"}) + IF v = "fail" THEN 1 ELSE 0
        /\ Streak(t) = IF v = "fail" THEN Streak(s) + 1 ELSE 0
    BY <1>1, <1>2, LogGrows
  <1> QED
    BY <1>1, <1>2, <1>3

\* Reports are filed behind the log.
LEMMA FiledBehind ==
  ASSUME NEW s \in Seq(Kinds), NEW u \in Seq(Kinds), NEW v \in Kinds
  PROVE  s \o u \in Seq(Kinds) /\ s \o Append(u, v) = Append(s \o u, v) /\ s \o << >> = s
  <1> HIDE DEF Kinds
  <1>1. s \o u \in Seq(Kinds) /\ s \o << >> = s
    BY ConcatProperties, ConcatEmptySeq
  <1>2. <<v>> \in Seq(Kinds)
    OBVIOUS
  <1>3. Append(u, v) = u \o <<v>> /\ Append(s \o u, v) = (s \o u) \o <<v>>
    BY <1>1, AppendIsConcat
  <1>4. (s \o u) \o <<v>> = s \o (u \o <<v>>)
    BY <1>2, ConcatAssociative
  <1> QED
    BY <1>1, <1>3, <1>4

-----------------------------------------------------------------------------
(* The rows that a report writes.                                          *)

Credited(r) ==
  [r EXCEPT !.score = Min({@ + Recover, MaxScore}), !.fails = 0, !.until = 0, !.reqs = @ + 1,
            !.exact = TRUE]

Debited(r, s) ==
  [r EXCEPT !.score = Max({@ - Decay, 0}), !.fails = s.fails, !.until = s.until,
            !.errs = @ + 1, !.reqs = @ + 1, !.at = s.at, !.exact = @ /\ ~s.stale]

Reads == [fails : Nat, until : Nat, at : Nat, stale : BOOLEAN]

LEMMA CreditedRow ==
  ASSUME NEW r \in Rows
  PROVE  /\ Credited(r) \in Rows
         /\ Credited(r).fails = 0 /\ Credited(r).until = 0 /\ Credited(r).reqs = r.reqs + 1
         /\ Credited(r).errs = r.errs
  <1> DEFINE m == Min({r.score + Recover, MaxScore})
  <1>1. m \in 0 .. MaxScore
    BY HealthAssumption, MinMaxOfTwo DEF Rows
  <1> HIDE DEF m
  <1>2. Credited(r) = [score |-> m, fails |-> 0, until |-> 0, reqs |-> r.reqs + 1,
                       errs |-> r.errs, at |-> r.at, exact |-> TRUE]
    <2>1. Credited(r) = [r EXCEPT !.score = m, !.fails = 0, !.until = 0, !.reqs = @ + 1, !.exact = TRUE]
      BY DEF Credited, m
    <2> QED
      BY <2>1 DEF Rows
  <1>3. r.reqs + 1 \in Nat /\ r.errs \in Nat /\ r.at \in Nat
    BY DEF Rows
  <1> QED
    BY <1>1, <1>2, <1>3 DEF Rows

LEMMA DebitedRow ==
  ASSUME NEW r \in Rows, NEW s \in Reads
  PROVE  /\ Debited(r, s) \in Rows
         /\ Debited(r, s).fails = s.fails /\ Debited(r, s).until = s.until
         /\ Debited(r, s).at = s.at
         /\ Debited(r, s).reqs = r.reqs + 1 /\ Debited(r, s).errs = r.errs + 1
         /\ Debited(r, s).exact => r.exact /\ ~s.stale
  <1> DEFINE m == Max({r.score - Decay, 0})
             x == r.exact /\ ~s.stale
  <1>1. m \in 0 .. MaxScore
    <2>1. r.score \in 0 .. MaxScore /\ Decay \in Nat /\ MaxScore \in Nat
      BY HealthAssumption DEF Rows
    <2>2. m = IF r.score - Decay >= 0 THEN r.score - Decay ELSE 0
      <3>1. r.score - Decay \in Int /\ 0 \in Int
        BY <2>1
      <3> QED
        BY <3>1, MinMaxOfTwo
    <2> QED
      BY <2>1, <2>2
  <1>2. x \in BOOLEAN
    OBVIOUS
  <1> HIDE DEF m, x
  <1>3. Debited(r, s) = [score |-> m, fails |-> s.fails, until |-> s.until, reqs |-> r.reqs + 1,
                         errs |-> r.errs + 1, at |-> s.at, exact |-> x]
    <2>1. Debited(r, s) = [r EXCEPT !.score = m, !.fails = s.fails, !.until = s.until,
                                    !.errs = @ + 1, !.reqs = @ + 1, !.at = s.at, !.exact = x]
      BY DEF Debited, m, x
    <2> QED
      BY <2>1 DEF Rows
  <1>4. /\ r.reqs + 1 \in Nat /\ r.errs + 1 \in Nat
        /\ s.fails \in Nat /\ s.until \in Nat /\ s.at \in Nat
    BY DEF Rows, Reads
  <1>5. Debited(r, s) \in Rows
    BY <1>1, <1>2, <1>3, <1>4 DEF Rows
  <1>6. Debited(r, s).exact = x
    BY <1>3
  <1>7. Debited(r, s).exact => r.exact /\ ~s.stale
    BY <1>6 DEF x
  <1> QED
    BY <1>3, <1>5, <1>7

-----------------------------------------------------------------------------
(* The inductive invariant.                                                *)

HealthType ==
  TypeOK /\ attempt \in [Jobs -> Nat] /\ faults \in Nat /\ resets \in Nat

\* What the locals of a job are at each step.
JobAt(j) ==
  /\ pc[j] \in {"fetching", "counting"} \cup Waiting => using[j] \in Proxies
  /\ pc[j] = "picking" => attempt[j] < MaxAttempts[j]
  /\ pc[j] = "counting" => lock[using[j]] = j
  /\ pc[j] \notin {"debiting", "counting"} => seen[j] = NotSeen

\* A count that was read and is not stale is still the row's.
ReadBefore(j) ==
  pc[j] = "debiting" =>
    /\ seen[j].fails >= 1
    /\ seen[j].until = seen[j].at + Backoff(seen[j].fails)
    /\ ~seen[j].stale => seen[j].fails = Visible(j, using[j]).fails + 1

\* The row r says what the reports in l add up to.
Right(r, l) ==
  /\ r.reqs = Count(l, {"ok", "fail"})
  /\ r.errs = Count(l, {"fail"})
  /\ r.exact => /\ r.fails = Streak(l)
                /\ r.until = IF r.fails = 0 THEN 0 ELSE r.at + Backoff(r.fails)

Uncounted(p) == IF pc[lock[p]] = "counting" /\ using[lock[p]] = p THEN 1 ELSE 0

\* The uncommitted version of a row agrees with the log and what was filed under the lock.
Uncommitted(p) ==
  IF lock[p] = NoProxy THEN filed[p] = << >>
  ELSE /\ Right(dirty[p], log[p] \o filed[p])
       /\ dirty[p].reqs <= daily[p] + faults + Uncounted(p)

\* What a reset that is not stale will not send is fresh already.
ResetRead ==
  reset.proxy # NoProxy /\ ~reset.stale =>
    /\ "fails" \notin reset.sends => row[reset.proxy].fails = 0
    /\ "until" \notin reset.sends => row[reset.proxy].until = 0

RowRight(p) == Right(row[p], log[p]) /\ row[p].reqs <= daily[p] + faults

HealthInv ==
  /\ HealthType
  /\ \A j \in Jobs : JobAt(j) /\ ReadBefore(j)
  /\ \A p \in Proxies : Uncommitted(p) /\ RowRight(p)
  /\ ResetRead

LEMMA HealthImplies ==
  HealthInv => TypeOK /\ TotalsMatchTheReports /\ SerialReportsAreExact
  <1>1. HealthInv => TypeOK
    BY DEF HealthInv, HealthType
  <1>2. HealthInv => TotalsMatchTheReports
    BY DEF HealthInv, RowRight, Right, TotalsMatchTheReports
  <1>3. HealthInv => SerialReportsAreExact
    BY DEF HealthInv, RowRight, Right, SerialReportsAreExact, Backoff
  <1> QED
    BY <1>1, <1>2, <1>3

-----------------------------------------------------------------------------
(* What a step leaves alone stays true.                                    *)

LEMMA JobStays ==
  ASSUME NEW k \in Jobs, JobAt(k), ReadBefore(k),
         pc'[k] = pc[k], using'[k] = using[k], seen'[k] = seen[k], attempt'[k] = attempt[k],
         pc[k] = "counting" => lock'[using[k]] = k,
         pc[k] = "debiting" => Visible(k, using[k])' = Visible(k, using[k])
  PROVE  JobAt(k)' /\ ReadBefore(k)'
  BY DEF JobAt, ReadBefore, Visible

LEMMA UncommittedStays ==
  ASSUME HealthType, NEW p \in Proxies, Uncommitted(p),
         lock'[p] = NoProxy => filed'[p] = << >>,
         lock'[p] # NoProxy =>
           /\ lock'[p] = lock[p] /\ dirty'[p] = dirty[p]
           /\ log'[p] = log[p] /\ filed'[p] = filed[p]
           /\ daily[p] + faults + Uncounted(p) <= daily'[p] + faults' + Uncounted(p)',
         daily'[p] \in Nat, faults' \in Nat
  PROVE  Uncommitted(p)'
  <1> SUFFICES ASSUME lock'[p] # NoProxy PROVE Uncommitted(p)'
    BY DEF Uncommitted
  <1>1. Right(dirty[p], log[p] \o filed[p])'
    BY DEF Uncommitted, Right
  <1>2. Uncounted(p) \in {0, 1} /\ Uncounted(p)' \in {0, 1}
    BY DEF Uncounted
  <1>3. dirty[p].reqs \in Nat /\ daily[p] \in Nat /\ faults \in Nat
    BY DEF HealthType, TypeOK, Rows
  <1>4. dirty[p].reqs <= daily[p] + faults + Uncounted(p) /\ dirty'[p] = dirty[p]
    BY DEF Uncommitted
  <1>5. dirty'[p].reqs <= daily'[p] + faults' + Uncounted(p)'
    <2>1. daily[p] + faults + Uncounted(p) <= daily'[p] + faults' + Uncounted(p)'
      OBVIOUS
    <2> QED
      BY <1>2, <1>3, <1>4, <2>1
  <1> QED
    BY <1>1, <1>5 DEF Uncommitted

LEMMA RowStays ==
  ASSUME HealthType, NEW p \in Proxies, RowRight(p), row'[p] = row[p], log'[p] = log[p],
         daily[p] + faults <= daily'[p] + faults', daily'[p] \in Nat, faults' \in Nat
  PROVE  RowRight(p)'
  <1>1. row[p].reqs \in Nat /\ daily[p] \in Nat /\ faults \in Nat
    BY DEF HealthType, TypeOK, Rows
  <1>2. row'[p].reqs <= daily'[p] + faults'
    BY <1>1 DEF RowRight
  <1> QED
    BY <1>2 DEF RowRight, Right

LEMMA InitHealth ==
  Init => HealthInv
  <1> SUFFICES ASSUME Init PROVE HealthInv
    OBVIOUS
  <1>1. Fresh \in Rows
    BY HealthAssumption DEF Fresh, Rows
  <1>2. HealthType
    <2>1. \A j \in Jobs : attempt[j] \in 0 .. MaxAttempts[j]
      BY HealthAssumption DEF Init
    <2> QED
      BY <1>1, <2>1, HealthAssumption DEF Init, HealthType, TypeOK, Steps, NotSeen, NoReset
  <1>3. ASSUME NEW j \in Jobs PROVE JobAt(j) /\ ReadBefore(j)
    BY HealthAssumption DEF Init, JobAt, ReadBefore, Waiting
  <1>4. ASSUME NEW p \in Proxies PROVE Uncommitted(p)
    BY DEF Init, Uncommitted
  <1>5. ASSUME NEW p \in Proxies PROVE RowRight(p)
    <2>1. row[p] = Fresh /\ log[p] = << >> /\ daily[p] = 0 /\ faults = 0
      BY DEF Init
    <2>2. Count(<< >>, {"ok", "fail"}) = 0 /\ Count(<< >>, {"fail"}) = 0
      BY FS_EmptySet DEF Count
    <2>3. Streak(<< >>) = 0
      <3>1. << >> \in Seq(Kinds) /\ Len(<< >>) = 0
        OBVIOUS
      <3>2. 0 \in 0 .. Len(<< >>) /\ \A i \in 1 .. Len(<< >>) : i > 0 => << >>[i] = "fail"
        OBVIOUS
      <3> HIDE DEF Kinds
      <3>3. Streak(<< >>) = Len(<< >>) - 0
        BY <3>1, <3>2, StreakIs
      <3> QED
        BY <3>1, <3>3
    <2> QED
      BY <2>1, <2>2, <2>3 DEF RowRight, Right, Fresh
  <1>6. ResetRead
    BY DEF Init, ResetRead, NoReset
  <1> QED
    BY <1>2, <1>3, <1>4, <1>5, <1>6 DEF HealthInv

-----------------------------------------------------------------------------
(* Steps of one job that write no row.                                     *)

OthersStay(j) ==
  \A k \in Jobs \ {j} : /\ pc'[k] = pc[k] /\ using'[k] = using[k] /\ seen'[k] = seen[k]
                        /\ attempt'[k] = attempt[k]

InCount(j, p) == IF pc[j] = "counting" /\ using[j] = p THEN 1 ELSE 0

\* The sessions stay as they are.
LEMMA ReadOnlyStep ==
  ASSUME HealthInv, NEW j \in Jobs, UNCHANGED <<sessionVars, reset>>, OthersStay(j),
         HealthType', JobAt(j)', ReadBefore(j)',
         \A p \in Proxies :
           /\ daily[p] + faults <= daily'[p] + faults'
           /\ daily[p] + faults + InCount(j, p) <= daily'[p] + faults' + InCount(j, p)'
  PROVE  HealthInv'
  <1>1. \A p \in Proxies : daily'[p] \in Nat /\ faults' \in Nat /\ lock[p] \in Jobs \cup {NoProxy}
    BY DEF HealthType, TypeOK, HealthInv
  <1>2. ASSUME NEW k \in Jobs PROVE JobAt(k)' /\ ReadBefore(k)'
    <2>1. CASE k = j
      BY <2>1
    <2>2. CASE k # j
      BY <2>2, JobStays DEF HealthInv, OthersStay, sessionVars, JobAt, Visible
    <2> QED
      BY <2>1, <2>2
  <1>3. ASSUME NEW p \in Proxies PROVE Uncommitted(p)'
    <2> SUFFICES ASSUME lock[p] # NoProxy PROVE Uncommitted(p)'
      BY DEF HealthInv, Uncommitted, sessionVars
    <2>1. lock[p] \in Jobs
      BY <1>1
    <2>2. daily[p] + faults + Uncounted(p) <= daily'[p] + faults' + Uncounted(p)'
      <3>1. CASE lock[p] = j
        BY <3>1 DEF Uncounted, InCount, sessionVars
      <3>2. CASE lock[p] # j
        <4>1. Uncounted(p)' = Uncounted(p) /\ Uncounted(p) \in {0, 1}
          BY <2>1, <3>2 DEF Uncounted, OthersStay, sessionVars
        <4>2. daily[p] \in Nat /\ faults \in Nat
          BY DEF HealthInv, HealthType, TypeOK
        <4> QED
          BY <1>1, <4>1, <4>2
      <3> QED
        BY <3>1, <3>2
    <2> QED
      BY <1>1, <2>2, UncommittedStays DEF HealthInv, sessionVars
  <1>4. ASSUME NEW p \in Proxies PROVE RowRight(p)'
    BY <1>1, RowStays DEF HealthInv, sessionVars
  <1>5. ResetRead'
    BY DEF HealthInv, ResetRead, sessionVars
  <1> QED
    BY <1>2, <1>3, <1>4, <1>5 DEF HealthInv

\* The locks of the job are released and its uncommitted versions gone.
LEMMA ReleaseStep ==
  ASSUME HealthInv, NEW j \in Jobs, UNCHANGED <<row, log, reset, daily>>, Release(j), OthersStay(j),
         HealthType', JobAt(j)', ReadBefore(j)', faults <= faults'
  PROVE  HealthInv'
  <1>0. \A p \in Proxies : lock'[p] = IF lock[p] = j THEN NoProxy ELSE lock[p]
    BY DEF Release
  <1>1. \A p \in Proxies : /\ daily[p] \in Nat /\ daily'[p] \in Nat /\ faults \in Nat /\ faults' \in Nat
                           /\ lock[p] \in Jobs \cup {NoProxy}
                           /\ daily[p] + faults <= daily'[p] + faults'
    <2>1. \A p \in Proxies : /\ daily[p] \in Nat /\ daily'[p] \in Nat /\ daily'[p] = daily[p]
                             /\ lock[p] \in Jobs \cup {NoProxy}
      BY DEF HealthType, TypeOK, HealthInv
    <2>2. faults \in Nat /\ faults' \in Nat
      BY DEF HealthType, HealthInv
    <2> QED
      BY <2>1, <2>2
  <1>2. ASSUME NEW k \in Jobs PROVE JobAt(k)' /\ ReadBefore(k)'
    <2>1. CASE k = j
      BY <2>1
    <2>2. CASE k # j
      <3>1. pc[k] \in {"counting", "debiting"} => using[k] \in Proxies
        BY DEF HealthInv, JobAt, Waiting
      <3>2. pc[k] = "counting" => lock'[using[k]] = k
        BY <1>0, <2>2, <3>1 DEF HealthInv, JobAt
      <3>3. pc[k] = "debiting" => Visible(k, using[k])' = Visible(k, using[k])
        <4>1. \A p \in Proxies : Visible(k, p)' = Visible(k, p)
          BY <1>0, <2>2, HealthAssumption DEF Visible, Release
        <4> QED
          BY <2>2, <3>1, <4>1 DEF OthersStay, Visible
      <3> QED
        BY <2>2, <3>2, <3>3, JobStays DEF HealthInv, OthersStay
    <2> QED
      BY <2>1, <2>2
  <1>3. ASSUME NEW p \in Proxies PROVE Uncommitted(p)'
    <2>0. lock'[p] = NoProxy => filed'[p] = << >>
      BY DEF Release, HealthInv, Uncommitted
    <2> SUFFICES ASSUME lock'[p] # NoProxy PROVE Uncommitted(p)'
      BY <2>0 DEF Uncommitted
    <2>1. /\ lock'[p] = lock[p] /\ lock[p] \in Jobs \ {j} /\ dirty'[p] = dirty[p]
          /\ filed'[p] = filed[p]
      BY <1>0, <1>1 DEF Release
    <2>2. Uncounted(p)' = Uncounted(p) /\ Uncounted(p) \in {0, 1}
      BY <2>1 DEF Uncounted, OthersStay
    <2>3. daily[p] + faults + Uncounted(p) <= daily'[p] + faults' + Uncounted(p)'
      BY <1>1, <2>2
    <2> QED
      BY <1>1, <2>1, <2>3, UncommittedStays DEF HealthInv, OthersStay
  <1>4. ASSUME NEW p \in Proxies PROVE RowRight(p)'
    BY <1>1, RowStays DEF HealthInv
  <1>5. ResetRead'
    BY DEF HealthInv, ResetRead
  <1> QED
    BY <1>2, <1>3, <1>4, <1>5 DEF HealthInv

\* The daily counts stay as they are.
LEMMA SameDaily ==
  ASSUME HealthType, NEW j \in Jobs, daily' = daily, faults' = faults, pc[j] # "counting"
  PROVE  \A p \in Proxies :
           /\ daily[p] + faults <= daily'[p] + faults'
           /\ daily[p] + faults + InCount(j, p) <= daily'[p] + faults' + InCount(j, p)'
  <1>1. \A p \in Proxies : InCount(j, p) = 0 /\ InCount(j, p)' \in {0, 1}
    BY DEF InCount
  <1>2. \A p \in Proxies : daily[p] \in Nat /\ faults \in Nat
    BY DEF HealthType, TypeOK
  <1> QED
    BY <1>1, <1>2

LEMMA GetProxyKeeps ==
  ASSUME HealthInv, NEW j \in Jobs, NEW p \in Proxies, GetProxy(j, p)
  PROVE  HealthInv'
  <1> USE DEF GetProxy, Goto, sessionVars
  <1>1. HealthType'
    <2>1. \A k \in Jobs : attempt'[k] \in 0 .. MaxAttempts[k] /\ attempt'[k] \in Nat
      <3>1. /\ attempt[j] < MaxAttempts[j] /\ attempt[j] \in Nat /\ MaxAttempts[j] \in Nat
            /\ attempt' = [attempt EXCEPT ![j] = @ + 1]
        BY HealthAssumption DEF HealthInv, HealthType, JobAt
      <3>2. \A k \in Jobs : attempt[k] \in 0 .. MaxAttempts[k] /\ attempt[k] \in Nat
        BY DEF HealthInv, HealthType, TypeOK
      <3>3. attempt'[j] = attempt[j] + 1 /\ \A k \in Jobs \ {j} : attempt'[k] = attempt[k]
        BY <3>1 DEF HealthInv, HealthType
      <3> HIDE DEF GetProxy
      <3> QED
        BY <3>1, <3>2, <3>3
    <2>2. attempt' \in [Jobs -> Nat]
      BY DEF HealthInv, HealthType
    <2> QED
      BY <2>1, <2>2 DEF HealthInv, HealthType, TypeOK, Steps
  <1>2. OthersStay(j)
    BY DEF OthersStay, HealthInv, HealthType, TypeOK
  <1>3. JobAt(j)' /\ ReadBefore(j)'
    BY DEF JobAt, ReadBefore, HealthInv, HealthType, TypeOK, Waiting
  <1>4. UNCHANGED <<sessionVars, reset, daily, faults>> /\ pc[j] = "picking"
    OBVIOUS
  <1> HIDE DEF GetProxy, Goto, sessionVars
  <1> QED
    BY <1>1, <1>2, <1>3, <1>4, SameDaily, ReadOnlyStep DEF HealthInv

LEMMA NoProxyLeftKeeps ==
  ASSUME HealthInv, NEW j \in Jobs, NoProxyLeft(j)
  PROVE  HealthInv'
  <1> USE DEF NoProxyLeft, Goto, sessionVars
  <1>1. HealthType'
    BY DEF HealthInv, HealthType, TypeOK, Steps
  <1>2. OthersStay(j)
    BY DEF OthersStay, HealthInv, HealthType, TypeOK
  <1>3. JobAt(j)' /\ ReadBefore(j)'
    BY DEF JobAt, ReadBefore, HealthInv, HealthType, TypeOK, Waiting
  <1>4. UNCHANGED <<sessionVars, reset, daily, faults>> /\ pc[j] = "picking"
    OBVIOUS
  <1> HIDE DEF NoProxyLeft, Goto, sessionVars
  <1> QED
    BY <1>1, <1>2, <1>3, <1>4, SameDaily, ReadOnlyStep DEF HealthInv

LEMMA SucceedsKeeps ==
  ASSUME HealthInv, NEW j \in Jobs, Succeeds(j)
  PROVE  HealthInv'
  <1> USE DEF Succeeds, Goto, sessionVars
  <1>1. HealthType'
    BY DEF HealthInv, HealthType, TypeOK, Steps, Waiting
  <1>2. OthersStay(j)
    BY DEF OthersStay, HealthInv, HealthType, TypeOK
  <1>3. JobAt(j)' /\ ReadBefore(j)'
    BY DEF JobAt, ReadBefore, HealthInv, HealthType, TypeOK, Waiting
  <1>4. UNCHANGED <<sessionVars, reset, daily, faults>> /\ pc[j] = "fetching"
    OBVIOUS
  <1> HIDE DEF Succeeds, Goto, sessionVars
  <1> QED
    BY <1>1, <1>2, <1>3, <1>4, SameDaily, ReadOnlyStep DEF HealthInv

LEMMA ReadFailuresKeeps ==
  ASSUME HealthInv, NEW j \in Jobs, ReadFailures(j)
  PROVE  HealthInv'
  <1> DEFINE n == Visible(j, using[j]).fails + 1
             r == [fails |-> n, until |-> now + Backoff(n), at |-> now, stale |-> FALSE]
  <1>0. /\ pc[j] = "fetching" /\ pc' = [pc EXCEPT ![j] = "debiting"]
        /\ seen' = [seen EXCEPT ![j] = r]
        /\ UNCHANGED <<sessionVars, attempt, using, tried, broken, pin, daily, reset, now, faults,
                       resets>>
    BY DEF ReadFailures, Goto
  <1>1. using[j] \in Proxies
    BY <1>0 DEF HealthInv, JobAt
  <1>2. n \in Nat \ {0} /\ now \in Nat
    <2>1. Visible(j, using[j]) \in Rows
      BY <1>1 DEF Visible, HealthInv, HealthType, TypeOK
    <2>2. Visible(j, using[j]).fails \in Nat
      BY <2>1 DEF Rows
    <2>3. now \in 0 .. MaxTime
      BY DEF HealthInv, HealthType, TypeOK
    <2> QED
      BY <2>2, <2>3, HealthAssumption
  <1>3. Backoff(n) \in Nat
    <2> HIDE DEF n
    <2> QED
      BY <1>2, BackoffIsNatural
  <1>4. r \in Reads /\ r.fails = n /\ r.until = r.at + Backoff(r.fails)
    <2> HIDE DEF n
    <2> QED
      BY <1>2, <1>3 DEF Reads
  <1>5. seen'[j].fails = Visible(j, using[j])'.fails + 1
    <2>1. seen'[j] = r
      BY <1>0 DEF HealthInv, HealthType, TypeOK
    <2> QED
      BY <1>0, <1>4, <2>1 DEF Visible, sessionVars
  <1> HIDE DEF r, n
  <1>6. HealthType'
    BY <1>0, <1>4 DEF HealthInv, HealthType, TypeOK, Steps, Waiting, Reads, sessionVars
  <1>7. OthersStay(j) /\ seen'[j] = r /\ pc'[j] = "debiting"
    BY <1>0 DEF OthersStay, HealthInv, HealthType, TypeOK
  <1>8. JobAt(j)' /\ ReadBefore(j)'
    BY <1>0, <1>1, <1>2, <1>4, <1>5, <1>7 DEF JobAt, ReadBefore, Visible
  <1> QED
    BY <1>0, <1>6, <1>7, <1>8, SameDaily, ReadOnlyStep DEF HealthInv

\* Where a report leaves its job.
LEMMA AfterReportIs ==
  ASSUME HealthInv, NEW j \in Jobs, NEW ends \in BOOLEAN, AfterReport(j, ends),
         using[j] \in Proxies
  PROVE  /\ pc' \in [Jobs -> Steps] /\ using' \in [Jobs -> Proxies \cup {NoProxy}]
         /\ tried' \in [Jobs -> SUBSET Proxies] /\ seen' \in [Jobs -> Reads]
         /\ \A k \in Jobs \ {j} : pc'[k] = pc[k] /\ using'[k] = using[k] /\ seen'[k] = seen[k]
         /\ pc'[j] \in {"picking", "ending"} /\ using'[j] = NoProxy /\ seen'[j] = NotSeen
         /\ pc'[j] = "picking" => attempt[j] < MaxAttempts[j]
  <1>1. /\ pc \in [Jobs -> Steps] /\ using \in [Jobs -> Proxies \cup {NoProxy}]
        /\ tried \in [Jobs -> SUBSET Proxies] /\ seen \in [Jobs -> Reads]
    BY DEF HealthInv, HealthType, TypeOK, Reads
  <1>2. /\ using' = [using EXCEPT ![j] = NoProxy] /\ seen' = [seen EXCEPT ![j] = NotSeen]
        /\ pc' = [pc EXCEPT ![j] = IF ~ends /\ attempt[j] < MaxAttempts[j] THEN "picking" ELSE "ending"]
    BY DEF AfterReport, Goto
  <1>3. NotSeen \in Reads
    BY DEF NotSeen, Reads
  <1>4. tried' \in [Jobs -> SUBSET Proxies]
    <2>1. CASE ~ends /\ attempt[j] < MaxAttempts[j]
      <3>1. PICK ps \in {{}, tried[j] \cup {using[j]}} : tried' = [tried EXCEPT ![j] = ps]
        BY <2>1 DEF AfterReport
      <3> QED
        BY <1>1, <3>1
    <2>2. CASE ~(~ends /\ attempt[j] < MaxAttempts[j])
      BY <1>1, <2>2 DEF AfterReport
    <2> QED
      BY <2>1, <2>2
  <1>5. using' \in [Jobs -> Proxies \cup {NoProxy}] /\ using'[j] = NoProxy
    BY <1>1, <1>2
  <1>6. seen' \in [Jobs -> Reads] /\ seen'[j] = NotSeen
    BY <1>1, <1>2, <1>3
  <1>7. /\ pc' \in [Jobs -> Steps] /\ pc'[j] \in {"picking", "ending"}
        /\ pc'[j] = "picking" => attempt[j] < MaxAttempts[j]
    BY <1>1, <1>2 DEF Steps
  <1>8. \A k \in Jobs \ {j} : pc'[k] = pc[k] /\ using'[k] = using[k] /\ seen'[k] = seen[k]
    BY <1>1, <1>2
  <1> QED
    BY <1>4, <1>5, <1>6, <1>7, <1>8

LEMMA RecordDailyAggregateKeeps ==
  ASSUME HealthInv, NEW j \in Jobs, RecordDailyAggregate(j)
  PROVE  HealthInv'
  <1>1. /\ pc[j] = "counting" /\ \E ends \in BOOLEAN : AfterReport(j, ends)
        /\ \/ daily' = [daily EXCEPT ![using[j]] = @ + 1] /\ faults' = faults
           \/ daily' = daily /\ faults + resets < MaxEvents /\ faults' = faults + 1
        /\ UNCHANGED <<sessionVars, attempt, broken, pin, reset, now, resets>>
    BY DEF RecordDailyAggregate
  <1>2. using[j] \in Proxies
    BY <1>1 DEF HealthInv, JobAt
  <1>3. /\ pc' \in [Jobs -> Steps] /\ using' \in [Jobs -> Proxies \cup {NoProxy}]
        /\ tried' \in [Jobs -> SUBSET Proxies] /\ seen' \in [Jobs -> Reads]
        /\ \A k \in Jobs \ {j} : pc'[k] = pc[k] /\ using'[k] = using[k] /\ seen'[k] = seen[k]
        /\ pc'[j] \in {"picking", "ending"} /\ using'[j] = NoProxy /\ seen'[j] = NotSeen
        /\ pc'[j] = "picking" => attempt[j] < MaxAttempts[j]
    BY <1>1, <1>2, AfterReportIs
  <1>4. faults \in Nat /\ resets \in Nat /\ MaxEvents \in Nat /\ daily \in [Proxies -> Nat]
    BY HealthAssumption DEF HealthInv, HealthType, TypeOK
  <1>5. faults' \in Nat /\ faults' + resets' \in 0 .. MaxEvents /\ daily' \in [Proxies -> Nat]
    <2>1. faults + resets \in 0 .. MaxEvents
      BY DEF HealthInv, HealthType, TypeOK
    <2> QED
      BY <1>1, <1>2, <1>4, <2>1
  <1>6. HealthType'
    BY <1>1, <1>3, <1>5 DEF HealthInv, HealthType, TypeOK, Reads, sessionVars
  <1>7. OthersStay(j)
    BY <1>1, <1>3 DEF OthersStay
  <1>8. JobAt(j)' /\ ReadBefore(j)'
    BY <1>1, <1>3 DEF JobAt, ReadBefore, Waiting
  <1>9. ASSUME NEW p \in Proxies
        PROVE  /\ daily[p] + faults <= daily'[p] + faults'
               /\ daily[p] + faults + InCount(j, p) <= daily'[p] + faults' + InCount(j, p)'
    <2>1. InCount(j, p) = (IF using[j] = p THEN 1 ELSE 0) /\ InCount(j, p)' = 0
      BY <1>1, <1>3 DEF InCount
    <2> QED
      BY <1>1, <1>4, <2>1
  <1> QED
    BY <1>1, <1>6, <1>7, <1>8, <1>9, ReadOnlyStep

LEMMA ReportFailsKeeps ==
  ASSUME HealthInv, NEW j \in Jobs, ReportFails(j)
  PROVE  HealthInv'
  <1>1. /\ pc[j] = "fetching" /\ \E ends \in BOOLEAN : AfterReport(j, ends)
        /\ UNCHANGED <<sessionVars, attempt, broken, pin, daily, reset, now, faults, resets>>
    BY DEF ReportFails
  <1>2. using[j] \in Proxies
    BY <1>1 DEF HealthInv, JobAt
  <1>3. /\ pc' \in [Jobs -> Steps] /\ using' \in [Jobs -> Proxies \cup {NoProxy}]
        /\ tried' \in [Jobs -> SUBSET Proxies] /\ seen' \in [Jobs -> Reads]
        /\ \A k \in Jobs \ {j} : pc'[k] = pc[k] /\ using'[k] = using[k] /\ seen'[k] = seen[k]
        /\ pc'[j] \in {"picking", "ending"} /\ using'[j] = NoProxy /\ seen'[j] = NotSeen
        /\ pc'[j] = "picking" => attempt[j] < MaxAttempts[j]
    BY <1>1, <1>2, AfterReportIs
  <1>4. HealthType'
    BY <1>1, <1>3 DEF HealthInv, HealthType, TypeOK, Reads, sessionVars
  <1>5. OthersStay(j)
    BY <1>1, <1>3 DEF OthersStay
  <1>6. JobAt(j)' /\ ReadBefore(j)'
    BY <1>1, <1>3 DEF JobAt, ReadBefore, Waiting
  <1> QED
    BY <1>1, <1>4, <1>5, <1>6, SameDaily, ReadOnlyStep DEF HealthInv

-----------------------------------------------------------------------------
(* The ends of a transaction that is lost.                                 *)

LEMMA FreshIsRow == Fresh \in Rows
  BY HealthAssumption DEF Fresh, Rows

LEMMA ReleaseTyped ==
  ASSUME HealthInv, NEW j \in Jobs, Release(j)
  PROVE  /\ lock' \in [Proxies -> Jobs \cup {NoProxy}] /\ dirty' \in [Proxies -> Rows]
         /\ filed' \in [Proxies -> Seq(Kinds)]
  <1>1. /\ lock \in [Proxies -> Jobs \cup {NoProxy}] /\ dirty \in [Proxies -> Rows]
        /\ filed \in [Proxies -> Seq(Kinds)]
    BY DEF HealthInv, HealthType, TypeOK, Kinds
  <1>2. << >> \in Seq(Kinds)
    OBVIOUS
  <1> HIDE DEF Kinds
  <1> QED
    BY <1>1, <1>2, FreshIsRow DEF Release

LEMMA NoAttempts ==
  ASSUME HealthInv, NEW j \in Jobs, attempt' = [attempt EXCEPT ![j] = 0]
  PROVE  /\ attempt' \in [Jobs -> Nat] /\ \A k \in Jobs : attempt'[k] \in 0 .. MaxAttempts[k]
         /\ attempt'[j] < MaxAttempts[j]
  <1>1. attempt \in [Jobs -> Nat] /\ \A k \in Jobs : attempt[k] \in 0 .. MaxAttempts[k]
    BY DEF HealthInv, HealthType, TypeOK
  <1>2. MaxAttempts[j] \in Nat /\ MaxAttempts[j] # 0
    BY HealthAssumption
  <1>3. attempt'[j] = 0 /\ \A k \in Jobs \ {j} : attempt'[k] = attempt[k]
    BY <1>1
  <1> QED
    BY <1>1, <1>2, <1>3

\* One more killed or cancelled job.
LEMMA OneMoreFault ==
  ASSUME HealthInv, faults + resets < MaxEvents, faults' = faults + 1, resets' = resets
  PROVE  /\ faults' \in Nat /\ resets' \in Nat /\ faults' + resets' \in 0 .. MaxEvents
         /\ faults <= faults'
  <1>1. faults \in Nat /\ resets \in Nat /\ MaxEvents \in Nat
    BY HealthAssumption DEF HealthInv, HealthType
  <1> QED
    BY <1>1

LEMMA RollbackKeeps ==
  ASSUME HealthInv, NEW j \in Jobs, Rollback(j)
  PROVE  HealthInv'
  <1>1. /\ pc[j] = "ending" /\ Release(j) /\ pc' = [pc EXCEPT ![j] = "done"]
        /\ attempt' = [attempt EXCEPT ![j] = 0] /\ broken' = [broken EXCEPT ![j] = FALSE]
        /\ pin' = [pin EXCEPT ![j] = NoProxy]
        /\ UNCHANGED <<row, log, using, tried, seen, daily, reset, now, faults, resets>>
    BY DEF Rollback, JobEnds, Goto
  <1>2. /\ lock' \in [Proxies -> Jobs \cup {NoProxy}] /\ dirty' \in [Proxies -> Rows]
        /\ filed' \in [Proxies -> Seq(Kinds)]
    BY <1>1, ReleaseTyped
  <1>3. attempt' \in [Jobs -> Nat] /\ \A k \in Jobs : attempt'[k] \in 0 .. MaxAttempts[k]
    BY <1>1, NoAttempts
  <1>4. HealthType'
    BY <1>1, <1>2, <1>3 DEF HealthInv, HealthType, TypeOK, Steps, Kinds
  <1>5. OthersStay(j) /\ pc'[j] = "done"
    BY <1>1 DEF OthersStay, HealthInv, HealthType, TypeOK
  <1>6. JobAt(j)' /\ ReadBefore(j)'
    BY <1>1, <1>5 DEF HealthInv, JobAt, ReadBefore, Waiting
  <1>7. faults <= faults'
    BY <1>1 DEF HealthInv, HealthType
  <1> QED
    BY <1>1, <1>4, <1>5, <1>6, <1>7, ReleaseStep

LEMMA KilledKeeps ==
  ASSUME HealthInv, NEW j \in Jobs, Killed(j)
  PROVE  HealthInv'
  <1>1. /\ faults + resets < MaxEvents /\ faults' = faults + 1
        /\ Release(j) /\ pc' = [pc EXCEPT ![j] = "picking"]
        /\ attempt' = [attempt EXCEPT ![j] = 0]
        /\ using' = [using EXCEPT ![j] = NoProxy]
        /\ tried' = [tried EXCEPT ![j] = {}]
        /\ seen' = [seen EXCEPT ![j] = NotSeen]
        /\ broken' = [broken EXCEPT ![j] = FALSE]
        /\ UNCHANGED <<row, log, pin, daily, reset, now, resets>>
    BY DEF Killed, Goto
  <1>2. /\ lock' \in [Proxies -> Jobs \cup {NoProxy}] /\ dirty' \in [Proxies -> Rows]
        /\ filed' \in [Proxies -> Seq(Kinds)]
    BY <1>1, ReleaseTyped
  <1>3. /\ attempt' \in [Jobs -> Nat] /\ \A k \in Jobs : attempt'[k] \in 0 .. MaxAttempts[k]
        /\ attempt'[j] < MaxAttempts[j]
    BY <1>1, NoAttempts
  <1>4. faults' \in Nat /\ resets' \in Nat /\ faults' + resets' \in 0 .. MaxEvents /\ faults <= faults'
    BY <1>1, OneMoreFault
  <1>5. HealthType'
    BY <1>1, <1>2, <1>3, <1>4 DEF HealthInv, HealthType, TypeOK, Steps, NotSeen, Kinds
  <1>6. OthersStay(j) /\ pc'[j] = "picking" /\ seen'[j] = NotSeen
    BY <1>1 DEF OthersStay, HealthInv, HealthType, TypeOK
  <1>7. JobAt(j)' /\ ReadBefore(j)'
    BY <1>3, <1>6 DEF JobAt, ReadBefore, Waiting
  <1> QED
    BY <1>1, <1>4, <1>5, <1>6, <1>7, ReleaseStep

LEMMA CancelledKeeps ==
  ASSUME HealthInv, NEW j \in Jobs, Cancelled(j)
  PROVE  HealthInv'
  <1>1. /\ pc[j] \in {"picking", "fetching", "counting"} \cup Waiting
        /\ faults + resets < MaxEvents /\ faults' = faults + 1
        /\ IF pc[j] \in Waiting THEN Release(j) ELSE UNCHANGED <<lock, dirty, filed>>
        /\ pc' = [pc EXCEPT ![j] = "ending"]
        /\ using' = [using EXCEPT ![j] = NoProxy]
        /\ tried' = [tried EXCEPT ![j] = {}]
        /\ seen' = [seen EXCEPT ![j] = NotSeen]
        /\ UNCHANGED <<row, log, attempt, broken, pin, daily, reset, now, resets>>
    BY DEF Cancelled, Goto
  <1>2. /\ lock' \in [Proxies -> Jobs \cup {NoProxy}] /\ dirty' \in [Proxies -> Rows]
        /\ filed' \in [Proxies -> Seq(Kinds)]
    <2>1. CASE pc[j] \in Waiting
      BY <1>1, <2>1, ReleaseTyped
    <2>2. CASE pc[j] \notin Waiting
      BY <1>1, <2>2 DEF HealthInv, HealthType, TypeOK, Kinds
    <2> QED
      BY <2>1, <2>2
  <1>3. faults' \in Nat /\ resets' \in Nat /\ faults' + resets' \in 0 .. MaxEvents /\ faults <= faults'
    BY <1>1, OneMoreFault
  <1>4. HealthType'
    BY <1>1, <1>2, <1>3 DEF HealthInv, HealthType, TypeOK, Steps, NotSeen, Kinds
  <1>5. OthersStay(j) /\ pc'[j] = "ending" /\ seen'[j] = NotSeen
    BY <1>1 DEF OthersStay, HealthInv, HealthType, TypeOK
  <1>6. JobAt(j)' /\ ReadBefore(j)'
    BY <1>5 DEF JobAt, ReadBefore, Waiting
  <1>7. CASE pc[j] \in Waiting
    BY <1>1, <1>3, <1>4, <1>5, <1>6, <1>7, ReleaseStep
  <1>8. CASE pc[j] \notin Waiting
    <2>1. UNCHANGED <<sessionVars, reset>>
      BY <1>1, <1>8 DEF sessionVars
    <2>2. ASSUME NEW p \in Proxies
          PROVE  /\ daily[p] + faults <= daily'[p] + faults'
                 /\ daily[p] + faults + InCount(j, p) <= daily'[p] + faults' + InCount(j, p)'
      <3>1. daily[p] \in Nat /\ faults \in Nat
        BY DEF HealthInv, HealthType, TypeOK
      <3>2. InCount(j, p) \in {0, 1} /\ InCount(j, p)' = 0
        BY <1>5 DEF InCount
      <3> QED
        BY <1>1, <3>1, <3>2
    <2> QED
      BY <1>4, <1>5, <1>6, <2>1, <2>2, ReadOnlyStep
  <1> QED
    BY <1>7, <1>8

\* A job in a circle of waiting jobs waits itself.
LEMMA DeadlockedWaits ==
  ASSUME NEW j \in Jobs, InDeadlock(j)
  PROVE  pc[j] \in Waiting
  <1>1. PICK js \in SUBSET Jobs : j \in js /\ {Holder(k) : k \in js} = js
    BY DEF InDeadlock
  <1>2. Holder(j) \in Jobs
    BY <1>1
  <1> QED
    BY <1>2, HealthAssumption DEF Holder

LEMMA DeadlockDetectedKeeps ==
  ASSUME HealthInv, NEW j \in Jobs, DeadlockDetected(j)
  PROVE  HealthInv'
  <1>1. /\ InDeadlock(j) /\ Release(j) /\ \E ends \in BOOLEAN : AfterReport(j, ends)
        /\ broken' = [broken EXCEPT ![j] = TRUE]
        /\ UNCHANGED <<row, log, attempt, pin, daily, reset, now, faults, resets>>
    BY DEF DeadlockDetected
  <1>2. using[j] \in Proxies
    BY <1>1, DeadlockedWaits DEF HealthInv, JobAt
  <1>3. /\ pc' \in [Jobs -> Steps] /\ using' \in [Jobs -> Proxies \cup {NoProxy}]
        /\ tried' \in [Jobs -> SUBSET Proxies] /\ seen' \in [Jobs -> Reads]
        /\ \A k \in Jobs \ {j} : pc'[k] = pc[k] /\ using'[k] = using[k] /\ seen'[k] = seen[k]
        /\ pc'[j] \in {"picking", "ending"} /\ using'[j] = NoProxy /\ seen'[j] = NotSeen
        /\ pc'[j] = "picking" => attempt[j] < MaxAttempts[j]
    BY <1>1, <1>2, AfterReportIs
  <1>4. /\ lock' \in [Proxies -> Jobs \cup {NoProxy}] /\ dirty' \in [Proxies -> Rows]
        /\ filed' \in [Proxies -> Seq(Kinds)]
    BY <1>1, ReleaseTyped
  <1>5. HealthType'
    BY <1>1, <1>3, <1>4 DEF HealthInv, HealthType, TypeOK, Reads, Kinds
  <1>6. OthersStay(j)
    BY <1>1, <1>3 DEF OthersStay
  <1>7. JobAt(j)' /\ ReadBefore(j)'
    BY <1>1, <1>3 DEF JobAt, ReadBefore, Waiting
  <1>8. faults <= faults'
    BY <1>1 DEF HealthInv, HealthType
  <1> QED
    BY <1>1, <1>5, <1>6, <1>7, <1>8, ReleaseStep

-----------------------------------------------------------------------------
(* The UPDATE of a report.                                                 *)

\* v is what the report of j makes of the row.
LEMMA UpdateStep ==
  ASSUME HealthInv, NEW j \in Jobs, pc[j] \in Waiting, NEW v \in Rows, NEW kind \in {"ok", "fail"},
         Update(j, kind, v),
         v.reqs = Visible(j, using[j]).reqs + 1,
         v.errs = Visible(j, using[j]).errs + (IF kind = "fail" THEN 1 ELSE 0),
         kind = "ok" => v.fails = 0 /\ v.until = 0,
         kind = "fail" /\ v.exact => /\ Visible(j, using[j]).exact
                                    /\ v.fails = Visible(j, using[j]).fails + 1
                                    /\ v.until = v.at + Backoff(v.fails)
  PROVE  HealthInv'
  <1>2. PICK p \in Proxies : p = using[j]
    BY DEF HealthInv, JobAt
  <1> DEFINE r == Visible(j, using[j])
  <1>1. /\ lock[p] \in {NoProxy, j} /\ lock' = [lock EXCEPT ![p] = j]
        /\ dirty' = [dirty EXCEPT ![p] = v] /\ pc' = [pc EXCEPT ![j] = "counting"]
        /\ filed' = [filed EXCEPT ![p] = Append(filed[p], kind)]
        /\ UNCHANGED <<row, log, attempt, using, tried, seen, broken, pin, daily, reset, now,
                       faults, resets>>
    BY <1>2 DEF Update, Goto
  <1>3. /\ lock \in [Proxies -> Jobs \cup {NoProxy}] /\ dirty \in [Proxies -> Rows]
        /\ row \in [Proxies -> Rows] /\ pc \in [Jobs -> Steps] /\ daily \in [Proxies -> Nat]
        /\ faults \in Nat /\ log[p] \in Seq(Kinds) /\ filed \in [Proxies -> Seq(Kinds)]
    BY <1>2 DEF HealthInv, HealthType, TypeOK, Kinds
  <1>0. Append(filed[p], kind) \in Seq(Kinds)
    <2>1. kind \in Kinds /\ filed[p] \in Seq(Kinds)
      BY <1>3 DEF Kinds
    <2> QED
      BY <2>1, AppendIs
  <1> HIDE DEF r
  <1>4. HealthType'
    <2>1. filed' \in [Proxies -> Seq(Kinds)]
      BY <1>0, <1>1, <1>3
    <2> QED
      BY <1>1, <1>2, <2>1 DEF HealthInv, HealthType, TypeOK, Steps, Kinds
  <1>5. /\ lock'[p] = j /\ dirty'[p] = v /\ pc'[j] = "counting" /\ using'[j] = p
        /\ filed'[p] = Append(filed[p], kind)
        /\ \A q \in Proxies \ {p} : lock'[q] = lock[q] /\ dirty'[q] = dirty[q] /\ filed'[q] = filed[q]
        /\ \A k \in Jobs \ {j} : pc'[k] = pc[k]
    BY <1>1, <1>2, <1>3
  <1>6. ASSUME NEW k \in Jobs PROVE JobAt(k)' /\ ReadBefore(k)'
    <2>1. CASE k = j
      BY <1>1, <1>2, <1>5, <2>1 DEF JobAt, ReadBefore, Waiting
    <2>2. CASE k # j
      <3>1. pc[k] \in {"counting", "debiting"} => using[k] \in Proxies
        BY DEF HealthInv, JobAt, Waiting
      <3>2. \A q \in Proxies : lock[q] = k => lock'[q] = k
        BY <1>1, <1>5, <2>2, HealthAssumption
      <3>3. pc[k] = "counting" => lock'[using[k]] = k
        BY <3>1, <3>2 DEF HealthInv, JobAt
      <3>4. \A q \in Proxies : Visible(k, q)' = Visible(k, q)
        BY <1>1, <1>5, <2>2, HealthAssumption DEF Visible
      <3>5. pc[k] = "debiting" => Visible(k, using[k])' = Visible(k, using[k])
        BY <1>1, <3>1, <3>4 DEF Visible
      <3> QED
        BY <1>1, <1>5, <2>2, <3>3, <3>5, JobStays DEF HealthInv
    <2> QED
      BY <2>1, <2>2
  <1>7. Uncommitted(p)'
    <2>1. PICK l \in Seq(Kinds) : l = log[p] \o filed[p]
      <3>1. filed[p] \in Seq(Kinds) /\ "ok" \in Kinds
        BY <1>3 DEF Kinds
      <3> QED
        BY <1>3, <3>1, FiledBehind
    <2>2. Right(r, l) /\ r.reqs <= daily[p] + faults
      <3>1. CASE lock[p] = j
        <4>1. r = dirty[p] /\ Uncommitted(p) /\ lock[p] # NoProxy
          BY <1>2, <3>1, HealthAssumption DEF HealthInv, Visible, r
        <4>2. Uncounted(p) = 0
          BY <3>1 DEF Uncounted, Waiting
        <4>3. daily[p] \in Nat /\ dirty[p].reqs \in Nat
          BY <1>3 DEF Rows
        <4>4. Right(dirty[p], l) /\ dirty[p].reqs <= daily[p] + faults + 0
          BY <2>1, <4>1, <4>2 DEF Uncommitted
        <4> QED
          BY <1>3, <4>1, <4>3, <4>4
      <3>2. CASE lock[p] = NoProxy
        <4>1. r = row[p] /\ RowRight(p) /\ filed[p] = << >>
          BY <1>2, <3>2, HealthAssumption DEF HealthInv, Uncommitted, Visible, r
        <4>2. l = log[p]
          <5>1. << >> \in Seq(Kinds) /\ "ok" \in Kinds
            BY DEF Kinds
          <5> QED
            BY <1>3, <2>1, <4>1, <5>1, FiledBehind
        <4> QED
          BY <4>1, <4>2 DEF RowRight
      <3> QED
        BY <1>1, <3>1, <3>2
    <2>3. PICK t : t = Append(l, kind) /\ log'[p] \o filed'[p] = t
      <3>1. kind \in Kinds /\ filed[p] \in Seq(Kinds) /\ log[p] \in Seq(Kinds)
        BY <1>3 DEF Kinds
      <3>2. log'[p] = log[p] /\ filed'[p] = Append(filed[p], kind)
        BY <1>1, <1>5
      <3>3. \A s, u \in Seq(Kinds), k \in Kinds : s \o Append(u, k) = Append(s \o u, k)
        BY FiledBehind
      <3>4. log[p] \o Append(filed[p], kind) = Append(log[p] \o filed[p], kind)
        BY <3>1, <3>3, Zenon
      <3> QED
        BY <2>1, <3>2, <3>4
    <2>4. /\ Count(l, {"ok", "fail"}) \in Nat /\ Count(l, {"fail"}) \in Nat /\ Streak(l) \in Nat
          /\ Count(t, {"ok", "fail"}) = Count(l, {"ok", "fail"}) + 1
          /\ Count(t, {"fail"}) = Count(l, {"fail"}) + IF kind = "fail" THEN 1 ELSE 0
          /\ Streak(t) = IF kind = "fail" THEN Streak(l) + 1 ELSE 0
      <3>1. l \in Seq(Kinds) /\ t = Append(l, kind)
        BY <2>1, <2>3
      <3> QED
        BY <3>1, ReportGrows, Zenon
    <2>5. Right(v, t)
      <3>1. v.reqs = Count(t, {"ok", "fail"}) /\ v.errs = Count(t, {"fail"})
        BY <2>2, <2>4 DEF Right, r
      <3>2. CASE kind = "ok"
        BY <2>4, <3>1, <3>2 DEF Right
      <3>3. CASE kind = "fail"
        <4>1. v.exact => /\ v.fails = Streak(l) + 1 /\ v.until = v.at + Backoff(v.fails)
          BY <2>2, <3>3 DEF Right, r
        <4>2. Streak(t) = Streak(l) + 1 /\ Streak(t) # 0
          BY <2>4, <3>3
        <4> QED
          BY <3>1, <4>1, <4>2 DEF Right
      <3> QED
        BY <3>2, <3>3
    <2>6. dirty'[p].reqs <= daily'[p] + faults' + Uncounted(p)'
      <3>1. Uncounted(p)' = 1
        BY <1>5 DEF Uncounted
      <3>2. dirty'[p].reqs = r.reqs + 1 /\ daily' = daily /\ faults' = faults
        BY <1>1, <1>5 DEF r
      <3>3. r.reqs \in Nat /\ daily[p] \in Nat
        BY <1>2, <1>3 DEF Rows, Visible, r
      <3> QED
        BY <1>3, <2>2, <3>1, <3>2, <3>3
    <2>7. Right(dirty[p], log[p] \o filed[p])'
      BY <1>5, <2>3, <2>5 DEF Right
    <2>8. lock'[p] # NoProxy
      BY <1>5, HealthAssumption
    <2> QED
      BY <2>6, <2>7, <2>8 DEF Uncommitted
  <1>8. ASSUME NEW q \in Proxies \ {p} PROVE Uncommitted(q)'
    <2> SUFFICES ASSUME lock[q] # NoProxy PROVE Uncommitted(q)'
      BY <1>5 DEF HealthInv, Uncommitted
    <2>1. lock[q] \in Jobs /\ pc[j] # "counting" /\ pc[j] # "ending"
      BY <1>3 DEF Waiting
    <2>2. Uncounted(q)' = Uncounted(q) /\ Uncounted(q) \in {0, 1}
      BY <1>1, <1>5, <2>1 DEF Uncounted
    <2>3. daily[q] + faults + Uncounted(q) <= daily'[q] + faults' + Uncounted(q)'
      BY <1>1, <1>3, <2>2
    <2> QED
      BY <1>1, <1>3, <1>5, <2>1, <2>3, UncommittedStays DEF HealthInv
  <1>9. ASSUME NEW q \in Proxies PROVE RowRight(q)'
    BY <1>1 DEF HealthInv, RowRight, Right
  <1>10. ResetRead'
    BY <1>1 DEF HealthInv, ResetRead
  <1> QED
    BY <1>4, <1>6, <1>7, <1>8, <1>9, <1>10 DEF HealthInv

LEMMA RecordSuccessKeeps ==
  ASSUME HealthInv, NEW j \in Jobs, RecordSuccess(j)
  PROVE  HealthInv'
  <1>1. /\ pc[j] = "crediting" /\ Update(j, "ok", Credited(Visible(j, using[j])))
    BY DEF RecordSuccess, Credited
  <1>2. using[j] \in Proxies /\ pc[j] \in Waiting
    BY <1>1 DEF HealthInv, JobAt, Waiting
  <1>3. Visible(j, using[j]) \in Rows
    BY <1>2 DEF HealthInv, HealthType, TypeOK, Visible
  <1>4. PICK v \in Rows : v = Credited(Visible(j, using[j]))
    BY <1>3, CreditedRow
  <1>5. /\ v.fails = 0 /\ v.until = 0 /\ v.reqs = Visible(j, using[j]).reqs + 1
        /\ v.errs = Visible(j, using[j]).errs
    BY <1>3, <1>4, CreditedRow
  <1>6. v.errs = Visible(j, using[j]).errs + 0
    BY <1>3, <1>5 DEF Rows
  <1>7. Update(j, "ok", v)
    BY <1>1, <1>4
  <1> QED
    BY <1>2, <1>5, <1>6, <1>7, UpdateStep

LEMMA RecordFailureKeeps ==
  ASSUME HealthInv, NEW j \in Jobs, RecordFailure(j)
  PROVE  HealthInv'
  <1>1. /\ pc[j] = "debiting" /\ Update(j, "fail", Debited(Visible(j, using[j]), seen[j]))
    BY DEF RecordFailure, Debited
  <1>2. using[j] \in Proxies /\ seen[j] \in Reads /\ pc[j] \in Waiting /\ ReadBefore(j)
    BY <1>1 DEF HealthInv, HealthType, TypeOK, JobAt, Waiting, Reads
  <1>3. Visible(j, using[j]) \in Rows
    BY <1>2 DEF HealthInv, HealthType, TypeOK, Visible
  <1>4. PICK v \in Rows : v = Debited(Visible(j, using[j]), seen[j])
    BY <1>2, <1>3, DebitedRow
  <1>5. /\ v.fails = seen[j].fails /\ v.until = seen[j].until /\ v.at = seen[j].at
        /\ v.reqs = Visible(j, using[j]).reqs + 1
        /\ v.errs = Visible(j, using[j]).errs + 1
        /\ v.exact => Visible(j, using[j]).exact /\ ~seen[j].stale
    BY <1>2, <1>3, <1>4, DebitedRow
  <1>6. v.exact => /\ Visible(j, using[j]).exact
                   /\ v.fails = Visible(j, using[j]).fails + 1
                   /\ v.until = v.at + Backoff(v.fails)
    BY <1>1, <1>2, <1>5 DEF ReadBefore
  <1>7. Update(j, "fail", v)
    BY <1>1, <1>4
  <1> QED
    BY <1>2, <1>5, <1>6, <1>7, UpdateStep

-----------------------------------------------------------------------------
(* Time, the reset and the import.                                         *)

LEMMA TickKeeps ==
  ASSUME HealthInv, Tick
  PROVE  HealthInv'
  <1>1. /\ now < MaxTime /\ now' = now + 1
        /\ UNCHANGED <<row, dirty, lock, log, filed, pc, attempt, using, tried, seen, broken, pin, daily,
                       reset, faults, resets>>
    BY DEF Tick, sessionVars, jobVars
  <1>2. now' \in 0 .. MaxTime
    BY <1>1, HealthAssumption DEF HealthInv, HealthType, TypeOK
  <1>3. HealthType'
    BY <1>1, <1>2 DEF HealthInv, HealthType, TypeOK
  <1>4. \A k \in Jobs : JobAt(k)' /\ ReadBefore(k)'
    BY <1>1 DEF HealthInv, JobAt, ReadBefore, Visible
  <1>5. \A p \in Proxies : Uncommitted(p)' /\ RowRight(p)'
    BY <1>1 DEF HealthInv, Uncommitted, RowRight, Right, Uncounted
  <1>6. ResetRead'
    BY <1>1 DEF HealthInv, ResetRead
  <1> QED
    BY <1>3, <1>4, <1>5, <1>6 DEF HealthInv

LEMMA ResetReadsKeeps ==
  ASSUME HealthInv, NEW p \in Proxies, ResetReads(p)
  PROVE  HealthInv'
  <1> DEFINE S == {f \in {"score", "fails", "until"} : row[p][f] # Fresh[f]}
  <1>1. /\ faults + resets < MaxEvents /\ resets' = resets + 1
        /\ reset' = [proxy |-> p, stale |-> FALSE, sends |-> S]
        /\ UNCHANGED <<row, dirty, lock, log, filed, pc, attempt, using, tried, seen, broken, pin, daily,
                       now, faults>>
    BY DEF ResetReads, sessionVars, jobVars
  <1>2. resets' \in Nat /\ faults' + resets' \in 0 .. MaxEvents
    BY <1>1, HealthAssumption DEF HealthInv, HealthType, TypeOK
  <1>3. S \in SUBSET {"score", "fails", "until"}
    OBVIOUS
  <1>4. /\ "fails" \notin S => row[p].fails = 0
        /\ "until" \notin S => row[p].until = 0
    BY DEF Fresh
  <1> HIDE DEF S
  <1>5. HealthType'
    BY <1>1, <1>2, <1>3 DEF HealthInv, HealthType, TypeOK
  <1>6. \A k \in Jobs : JobAt(k)' /\ ReadBefore(k)'
    BY <1>1 DEF HealthInv, JobAt, ReadBefore, Visible
  <1>7. \A q \in Proxies : Uncommitted(q)' /\ RowRight(q)'
    BY <1>1 DEF HealthInv, Uncommitted, RowRight, Right, Uncounted
  <1>8. ResetRead'
    BY <1>1, <1>4 DEF ResetRead
  <1> QED
    BY <1>5, <1>6, <1>7, <1>8 DEF HealthInv

\* The row that a reset writes, of the row r, the attributes S and whether it is stale.
Rewritten(r, S, b) ==
  [f \in DOMAIN Fresh |-> IF f \in S THEN Fresh[f] ELSE IF f = "exact" THEN ~b ELSE r[f]]

LEMMA ResetRow ==
  ASSUME NEW r \in Rows, NEW S, NEW b \in BOOLEAN, S \subseteq {"score", "fails", "until"}
  PROVE  /\ Rewritten(r, S, b) \in Rows /\ Rewritten(r, S, b).reqs = r.reqs
         /\ Rewritten(r, S, b).errs = r.errs /\ Rewritten(r, S, b).exact = ~b
         /\ Rewritten(r, S, b).fails = (IF "fails" \in S THEN 0 ELSE r.fails)
         /\ Rewritten(r, S, b).until = (IF "until" \in S THEN 0 ELSE r.until)
  <1> DEFINE v == Rewritten(r, S, b)
  <1>0. v = [f \in DOMAIN Fresh |-> IF f \in S THEN Fresh[f]
                                    ELSE IF f = "exact" THEN ~b ELSE r[f]]
    BY DEF Rewritten
  <1> HIDE DEF v
  <1>1. DOMAIN Fresh = {"score", "fails", "until", "reqs", "errs", "at", "exact"}
    BY DEF Fresh
  <1>2. /\ v.score = (IF "score" \in S THEN MaxScore ELSE r.score)
        /\ v.fails = (IF "fails" \in S THEN 0 ELSE r.fails)
        /\ v.until = (IF "until" \in S THEN 0 ELSE r.until)
        /\ v.reqs = r.reqs /\ v.errs = r.errs /\ v.at = r.at
    BY <1>0, <1>1 DEF Fresh
  <1>3. v.exact = ~b
    BY <1>0, <1>1
  <1>4. v = [score |-> v.score, fails |-> v.fails, until |-> v.until, reqs |-> v.reqs,
             errs |-> v.errs, at |-> v.at, exact |-> v.exact]
    BY <1>0, <1>1
  <1>5. v.score \in 0 .. MaxScore /\ v.fails \in Nat /\ v.until \in Nat
    BY <1>2, HealthAssumption DEF Rows
  <1>6. v.reqs \in Nat /\ v.errs \in Nat /\ v.at \in Nat /\ v.exact \in BOOLEAN
    BY <1>2, <1>3 DEF Rows
  <1>7. v \in Rows
    BY <1>4, <1>5, <1>6 DEF Rows
  <1> QED
    BY <1>2, <1>3, <1>7 DEF v

\* What an import makes of a row.
Imported(r) ==
  [f \in DOMAIN Fresh |-> IF f \in {"score", "fails", "until", "exact"} THEN Fresh[f] ELSE r[f]]

LEMMA ImportedRow ==
  ASSUME NEW r \in Rows
  PROVE  /\ Imported(r) \in Rows /\ Imported(r).reqs = r.reqs /\ Imported(r).errs = r.errs
         /\ Imported(r).fails = 0 /\ Imported(r).until = 0
  <1> DEFINE v == Imported(r)
  <1>0. v = [f \in DOMAIN Fresh |->
               IF f \in {"score", "fails", "until", "exact"} THEN Fresh[f] ELSE r[f]]
    BY DEF Imported
  <1> HIDE DEF v
  <1>1. DOMAIN Fresh = {"score", "fails", "until", "reqs", "errs", "at", "exact"}
    BY DEF Fresh
  <1>2. /\ v.score = MaxScore /\ v.fails = 0 /\ v.until = 0
        /\ v.reqs = r.reqs /\ v.errs = r.errs /\ v.at = r.at
    BY <1>0, <1>1 DEF Fresh
  <1>3. v.exact = Fresh.exact /\ Fresh.exact = TRUE
    BY <1>0, <1>1 DEF Fresh
  <1>4. v = [score |-> v.score, fails |-> v.fails, until |-> v.until, reqs |-> v.reqs,
             errs |-> v.errs, at |-> v.at, exact |-> v.exact]
    BY <1>0, <1>1
  <1>5. v.score \in 0 .. MaxScore /\ v.fails \in Nat /\ v.until \in Nat
    BY <1>2, HealthAssumption
  <1>6. v.reqs \in Nat /\ v.errs \in Nat /\ v.at \in Nat
    BY <1>2 DEF Rows
  <1>7. v.exact \in BOOLEAN
    BY <1>3
  <1>8. v \in Rows
    BY <1>4, <1>5, <1>6, <1>7 DEF Rows
  <1> QED
    BY <1>2, <1>8 DEF v

LEMMA MarkStaleIs ==
  ASSUME HealthInv, NEW ps, NEW others, MarkStale(ps, others)
  PROVE  /\ seen' \in [Jobs -> Reads]
         /\ \A k \in Jobs :
              /\ seen'[k].fails = seen[k].fails /\ seen'[k].until = seen[k].until
              /\ seen'[k].at = seen[k].at
              /\ IF k \in others /\ pc[k] = "debiting" /\ using[k] \in ps
                 THEN seen'[k].stale ELSE seen'[k] = seen[k]
  <1>1. seen \in [Jobs -> Reads]
    BY DEF HealthInv, HealthType, TypeOK, Reads
  <1>2. ASSUME NEW k \in Jobs
        PROVE  /\ seen'[k] \in Reads
               /\ seen'[k].fails = seen[k].fails /\ seen'[k].until = seen[k].until
               /\ seen'[k].at = seen[k].at
               /\ IF k \in others /\ pc[k] = "debiting" /\ using[k] \in ps
                  THEN seen'[k].stale ELSE seen'[k] = seen[k]
    <2>1. seen[k] \in Reads
      BY <1>1
    <2>2. seen'[k] = IF k \in others /\ pc[k] = "debiting" /\ using[k] \in ps
                     THEN [seen[k] EXCEPT !.stale = TRUE] ELSE seen[k]
      BY DEF MarkStale
    <2>3. CASE k \in others /\ pc[k] = "debiting" /\ using[k] \in ps
      BY <2>1, <2>2, <2>3 DEF Reads
    <2>4. CASE ~(k \in others /\ pc[k] = "debiting" /\ using[k] \in ps)
      BY <2>1, <2>2, <2>4
    <2> QED
      BY <2>3, <2>4
  <1>3. seen' = [k \in Jobs |-> seen'[k]]
    BY DEF MarkStale
  <1>4. seen' \in [Jobs -> Reads]
    BY <1>2, <1>3
  <1> QED
    BY <1>2, <1>4

\* A job whose read is stale now, or whose row did not change.
LEMMA MarkedStays ==
  ASSUME HealthInv, NEW k \in Jobs,
         pc'[k] = pc[k], using'[k] = using[k], attempt'[k] = attempt[k],
         seen'[k].fails = seen[k].fails, seen'[k].until = seen[k].until, seen'[k].at = seen[k].at,
         pc[k] = "counting" => lock'[using[k]] = k,
         pc[k] # "debiting" => seen'[k] = seen[k],
         pc[k] = "debiting" =>
           \/ seen'[k].stale
           \/ seen'[k] = seen[k] /\ Visible(k, using[k])' = Visible(k, using[k])
  PROVE  JobAt(k)' /\ ReadBefore(k)'
  BY DEF HealthInv, JobAt, ReadBefore, Visible

\* A reset or an import replaces a row that nobody has locked.
LEMMA RewriteStep ==
  ASSUME HealthInv, NEW p \in Proxies, NEW v \in Rows, lock[p] = NoProxy,
         row' = [row EXCEPT ![p] = v], log' = [log EXCEPT ![p] = Append(@, "reset")],
         v.reqs = row[p].reqs, v.errs = row[p].errs, v.exact => v.fails = 0 /\ v.until = 0,
         MarkStale({p}, Jobs),
         UNCHANGED <<dirty, lock, filed, pc, attempt, using, tried, broken, pin, daily, now, faults>>,
         reset' \in [proxy : Proxies \cup {NoProxy}, sends : SUBSET {"score", "fails", "until"},
                    stale : BOOLEAN],
         resets' \in Nat, faults' + resets' \in 0 .. MaxEvents, ResetRead'
  PROVE  HealthInv'
  <1>3. /\ row \in [Proxies -> Rows] /\ log \in [Proxies -> Seq(Kinds)] /\ log[p] \in Seq(Kinds)
        /\ "reset" \in Kinds
    BY DEF HealthInv, HealthType, TypeOK, Kinds
  <1>5. /\ row'[p] = v /\ row' \in [Proxies -> Rows] /\ \A q \in Proxies \ {p} : row'[q] = row[q]
    BY <1>3
  <1>6. PICK t \in Seq(Kinds) :
          /\ t = Append(log[p], "reset")
          /\ Count(t, {"ok", "fail"}) = Count(log[p], {"ok", "fail"})
          /\ Count(t, {"fail"}) = Count(log[p], {"fail"})
          /\ Streak(t) = 0
    <2> DEFINE t == Append(log[p], "reset")
    <2> HIDE DEF Kinds
    <2>1. /\ t \in Seq(Kinds)
          /\ Count(log[p], {"ok", "fail"}) \in Nat /\ Count(log[p], {"fail"}) \in Nat
          /\ Count(t, {"ok", "fail"}) =
               Count(log[p], {"ok", "fail"}) + IF "reset" = "reset" THEN 0 ELSE 1
          /\ Count(t, {"fail"}) = Count(log[p], {"fail"}) + IF "reset" = "fail" THEN 1 ELSE 0
          /\ Streak(t) = IF "reset" = "fail" THEN Streak(log[p]) + 1 ELSE 0
      BY <1>3, LogGrows
    <2> HIDE DEF t
    <2>2. /\ Count(t, {"ok", "fail"}) = Count(log[p], {"ok", "fail"})
          /\ Count(t, {"fail"}) = Count(log[p], {"fail"}) /\ Streak(t) = 0
      BY <2>1
    <2> QED
      BY <2>1, <2>2 DEF t
  <1>7. /\ log'[p] = t /\ \A q \in Proxies \ {p} : log'[q] = log[q]
        /\ log' \in [Proxies -> Seq(Kinds)]
    BY <1>3, <1>6
  <1>8. /\ seen' \in [Jobs -> Reads]
        /\ \A k \in Jobs :
             /\ seen'[k].fails = seen[k].fails /\ seen'[k].until = seen[k].until
             /\ seen'[k].at = seen[k].at
             /\ IF k \in Jobs /\ pc[k] = "debiting" /\ using[k] \in {p}
                THEN seen'[k].stale ELSE seen'[k] = seen[k]
    BY MarkStaleIs
  <1>9. HealthType'
    BY <1>5, <1>7, <1>8 DEF HealthInv, HealthType, TypeOK, Reads, Kinds
  <1>10. ASSUME NEW k \in Jobs PROVE JobAt(k)' /\ ReadBefore(k)'
    <2>1. pc[k] = "counting" => lock'[using[k]] = k
      BY DEF HealthInv, JobAt
    <2>2. pc[k] = "debiting" =>
            \/ seen'[k].stale
            \/ seen'[k] = seen[k] /\ Visible(k, using[k])' = Visible(k, using[k])
      <3>1. pc[k] = "debiting" => using[k] \in Proxies
        BY DEF HealthInv, JobAt, Waiting
      <3> QED
        BY <1>5, <1>8, <3>1 DEF Visible
    <2> QED
      BY <1>8, <2>1, <2>2, MarkedStays
  <1>11. ASSUME NEW q \in Proxies PROVE Uncommitted(q)'
    <2> SUFFICES ASSUME lock[q] # NoProxy PROVE Uncommitted(q)'
      BY DEF HealthInv, Uncommitted
    <2>1. q # p /\ lock[q] \in Jobs
      BY DEF HealthInv, HealthType, TypeOK
    <2>2. Uncounted(q)' = Uncounted(q) /\ Uncounted(q) \in {0, 1}
      BY DEF Uncounted
    <2>3. daily' = daily /\ faults' = faults /\ daily[q] \in Nat /\ faults \in Nat
      BY DEF HealthInv, HealthType, TypeOK
    <2>4. daily[q] + faults + Uncounted(q) <= daily'[q] + faults' + Uncounted(q)'
      BY <2>2, <2>3
    <2> QED
      BY <1>7, <2>1, <2>3, <2>4, UncommittedStays DEF HealthInv
  <1>12. ASSUME NEW q \in Proxies PROVE RowRight(q)'
    <2>1. CASE q = p
      <3>1. RowRight(p)
        BY DEF HealthInv
      <3> QED
        BY <1>5, <1>6, <1>7, <2>1, <3>1 DEF RowRight, Right
    <2>2. CASE q # p
      <3>1. RowRight(q) /\ row'[q] = row[q] /\ log'[q] = log[q] /\ daily' = daily /\ faults' = faults
        BY <1>5, <1>7, <2>2 DEF HealthInv
      <3> QED
        BY <3>1 DEF RowRight, Right
    <2> QED
      BY <2>1, <2>2
  <1> QED
    BY <1>9, <1>10, <1>11, <1>12 DEF HealthInv

LEMMA ResetWritesKeeps ==
  ASSUME HealthInv, ResetWrites
  PROVE  HealthInv'
  <1>1. PICK p \in Proxies : p = reset.proxy
    BY DEF ResetWrites, HealthInv, HealthType, TypeOK
  <1>2. /\ lock[p] = NoProxy /\ row' = [row EXCEPT ![p] = Rewritten(row[p], reset.sends, reset.stale)]
        /\ log' = [log EXCEPT ![p] = Append(@, "reset")]
        /\ MarkStale({p}, Jobs) /\ reset' = NoReset /\ p # NoProxy
        /\ UNCHANGED <<dirty, lock, filed, pc, attempt, using, tried, broken, pin, daily, now, faults,
                       resets>>
    BY <1>1 DEF ResetWrites, Rewritten
  <1>3. /\ reset.sends \subseteq {"score", "fails", "until"} /\ reset.stale \in BOOLEAN
        /\ row[p] \in Rows /\ resets \in Nat /\ faults + resets \in 0 .. MaxEvents
    BY DEF HealthInv, HealthType, TypeOK
  <1>4. PICK v \in Rows :
          /\ v = Rewritten(row[p], reset.sends, reset.stale)
          /\ v.reqs = row[p].reqs /\ v.errs = row[p].errs /\ v.exact = ~reset.stale
          /\ v.fails = (IF "fails" \in reset.sends THEN 0 ELSE row[p].fails)
          /\ v.until = (IF "until" \in reset.sends THEN 0 ELSE row[p].until)
    BY <1>3, ResetRow
  <1>5. v.exact => v.fails = 0 /\ v.until = 0
    BY <1>1, <1>2, <1>4 DEF HealthInv, ResetRead
  <1>6. /\ ResetRead'
        /\ reset' \in [proxy : Proxies \cup {NoProxy}, sends : SUBSET {"score", "fails", "until"},
                       stale : BOOLEAN]
    BY <1>2 DEF ResetRead, NoReset
  <1>7. resets' \in Nat /\ faults' + resets' \in 0 .. MaxEvents /\ row' = [row EXCEPT ![p] = v]
    BY <1>2, <1>3, <1>4
  <1> QED
    BY <1>2, <1>4, <1>5, <1>6, <1>7, RewriteStep

LEMMA ImportUpsertsKeeps ==
  ASSUME HealthInv, NEW p \in Proxies, ImportUpserts(p)
  PROVE  HealthInv'
  <1> DEFINE b == reset.stale \/ reset.proxy = p
  <1>1. /\ lock[p] = NoProxy /\ faults + resets < MaxEvents /\ resets' = resets + 1
        /\ log' = [log EXCEPT ![p] = Append(@, "reset")]
        /\ MarkStale({p}, Jobs) /\ reset' = [reset EXCEPT !.stale = b]
        /\ UNCHANGED <<dirty, lock, filed, pc, attempt, using, tried, broken, pin, daily, now, faults>>
    BY DEF ImportUpserts
  <1>2. row' = [row EXCEPT ![p] = Imported(row[p])]
    BY DEF ImportUpserts, Imported
  <1>3. /\ row \in [Proxies -> Rows] /\ row[p] \in Rows
        /\ resets \in Nat /\ faults \in Nat /\ MaxEvents \in Nat
    BY HealthAssumption DEF HealthInv, HealthType, TypeOK
  <1>4. PICK v \in Rows : /\ v = Imported(row[p])
                          /\ v.reqs = row[p].reqs /\ v.errs = row[p].errs
                          /\ v.fails = 0 /\ v.until = 0
    BY <1>3, ImportedRow
  <1>5. b \in BOOLEAN /\ (~b => ~reset.stale /\ reset.proxy # p)
    OBVIOUS
  <1> HIDE DEF b
  <1>6. /\ reset' \in [proxy : Proxies \cup {NoProxy}, sends : SUBSET {"score", "fails", "until"},
                       stale : BOOLEAN]
        /\ reset'.proxy = reset.proxy /\ reset'.sends = reset.sends /\ reset'.stale = b
    BY <1>1, <1>5 DEF HealthInv, HealthType, TypeOK
  <1>7. ResetRead'
    <2> SUFFICES ASSUME reset'.proxy # NoProxy, ~reset'.stale PROVE ResetRead'
      BY DEF ResetRead
    <2>1. reset.proxy # p /\ ~reset.stale /\ reset.proxy \in Proxies
      BY <1>5, <1>6
    <2>2. row'[reset.proxy] = row[reset.proxy]
      BY <1>2, <1>3, <2>1
    <2> QED
      BY <1>6, <2>1, <2>2 DEF HealthInv, ResetRead
  <1>8. resets' \in Nat /\ faults' + resets' \in 0 .. MaxEvents /\ row' = [row EXCEPT ![p] = v]
    BY <1>1, <1>2, <1>3, <1>4
  <1> QED
    BY <1>1, <1>4, <1>6, <1>7, <1>8, RewriteStep

-----------------------------------------------------------------------------
(* The commit.                                                             *)

\* What a commit makes of a row that the job has locked.
LEMMA CommittedRow ==
  ASSUME HealthInv, NEW j \in Jobs, pc[j] = "ending", NEW p \in Proxies, lock[p] = j,
         row'[p] = dirty[p], daily' = daily, faults' = faults, log'[p] = log[p] \o filed[p]
  PROVE  RowRight(p)' /\ log'[p] \in Seq(Kinds)
  <1>1. Uncommitted(p) /\ lock[p] # NoProxy
    BY HealthAssumption DEF HealthInv
  <1>2. /\ dirty[p] \in Rows /\ log[p] \in Seq(Kinds) /\ filed[p] \in Seq(Kinds)
        /\ daily[p] \in Nat /\ faults \in Nat /\ "ok" \in Kinds
    BY DEF HealthInv, HealthType, TypeOK, Kinds
  <1>3. log'[p] \in Seq(Kinds)
    BY <1>2, FiledBehind
  <1>4. Uncounted(p) = 0 /\ dirty[p].reqs \in Nat
    BY <1>2 DEF Uncounted, Rows
  <1>5. Right(dirty[p], log[p] \o filed[p]) /\ dirty[p].reqs <= daily[p] + faults + 0
    BY <1>1, <1>4 DEF Uncommitted
  <1>6. Right(row[p], log[p])'
    BY <1>5 DEF Right
  <1> QED
    BY <1>2, <1>3, <1>4, <1>5, <1>6 DEF RowRight

LEMMA CommitKeeps ==
  ASSUME HealthInv, NEW j \in Jobs, Commit(j)
  PROVE  HealthInv'
  <1>1. /\ pc[j] = "ending"
        /\ row' = [p \in Proxies |-> IF lock[p] = j THEN dirty[p] ELSE row[p]]
        /\ Release(j) /\ MarkStale(Held(j), Jobs \ {j})
        /\ reset' = [reset EXCEPT !.stale = @ \/ reset.proxy \in Held(j)]
        /\ pc' = [pc EXCEPT ![j] = "done"]
        /\ attempt' = [attempt EXCEPT ![j] = 0] /\ broken' = [broken EXCEPT ![j] = FALSE]
        /\ pin' = [pin EXCEPT ![j] = NoProxy]
        /\ UNCHANGED <<using, tried, daily, now, faults, resets>>
    BY DEF Commit, JobEnds, Goto, Held
  <1>2. log' = [p \in Proxies |-> IF lock[p] = j THEN log[p] \o filed[p] ELSE log[p]]
    BY DEF Commit, Held
  <1>3. /\ lock' \in [Proxies -> Jobs \cup {NoProxy}] /\ dirty' \in [Proxies -> Rows]
        /\ filed' \in [Proxies -> Seq(Kinds)]
        /\ attempt' \in [Jobs -> Nat] /\ \A k \in Jobs : attempt'[k] \in 0 .. MaxAttempts[k]
    BY <1>1, ReleaseTyped, NoAttempts
  <1>4. /\ seen' \in [Jobs -> Reads]
        /\ \A k \in Jobs :
             /\ seen'[k].fails = seen[k].fails /\ seen'[k].until = seen[k].until
             /\ seen'[k].at = seen[k].at
             /\ IF k \in Jobs \ {j} /\ pc[k] = "debiting" /\ using[k] \in Held(j)
                THEN seen'[k].stale ELSE seen'[k] = seen[k]
    BY <1>1, MarkStaleIs
  <1>5. ASSUME NEW p \in Proxies PROVE RowRight(p)' /\ log'[p] \in Seq(Kinds)
    <2>1. CASE lock[p] = j
      BY <1>1, <1>2, <2>1, CommittedRow
    <2>2. CASE lock[p] # j
      <3>1. row'[p] = row[p] /\ log'[p] = log[p] /\ daily' = daily /\ faults' = faults /\ RowRight(p)
        BY <1>1, <1>2, <2>2 DEF HealthInv
      <3>2. RowRight(p)'
        BY <3>1 DEF RowRight, Right
      <3> QED
        BY <3>1, <3>2 DEF HealthInv, HealthType, TypeOK, Kinds
    <2> QED
      BY <2>1, <2>2
  <1>6. log' \in [Proxies -> Seq(Kinds)]
    BY <1>2, <1>5
  <1>7. row' \in [Proxies -> Rows]
    BY <1>1 DEF HealthInv, HealthType, TypeOK
  <1>8. /\ reset' \in [proxy : Proxies \cup {NoProxy}, sends : SUBSET {"score", "fails", "until"},
                       stale : BOOLEAN]
        /\ reset'.proxy = reset.proxy /\ reset'.sends = reset.sends
        /\ ~reset'.stale => ~reset.stale /\ reset.proxy \notin Held(j)
    <2> DEFINE b == reset.stale \/ reset.proxy \in Held(j)
    <2>1. b \in BOOLEAN /\ reset' = [reset EXCEPT !.stale = b]
      BY <1>1
    <2>2. ~b => ~reset.stale /\ reset.proxy \notin Held(j)
      OBVIOUS
    <2> HIDE DEF b
    <2>3. /\ reset' \in [proxy : Proxies \cup {NoProxy}, sends : SUBSET {"score", "fails", "until"},
                         stale : BOOLEAN]
          /\ reset'.proxy = reset.proxy /\ reset'.sends = reset.sends /\ reset'.stale = b
      BY <2>1 DEF HealthInv, HealthType, TypeOK
    <2> QED
      BY <2>2, <2>3
  <1>9. HealthType'
    BY <1>1, <1>3, <1>4, <1>6, <1>7, <1>8 DEF HealthInv, HealthType, TypeOK, Reads, Steps, Kinds
  <1>10. /\ pc'[j] = "done" /\ seen'[j] = NotSeen
         /\ \A k \in Jobs \ {j} : pc'[k] = pc[k] /\ attempt'[k] = attempt[k]
    <2>1. pc \in [Jobs -> Steps] /\ attempt \in [Jobs -> Nat] /\ JobAt(j)
      BY DEF HealthInv, HealthType, TypeOK
    <2>2. seen'[j] = seen[j]
      BY <1>4
    <2>3. seen[j] = NotSeen
      BY <1>1, <2>1 DEF JobAt
    <2>4. pc'[j] = "done" /\ \A k \in Jobs \ {j} : pc'[k] = pc[k] /\ attempt'[k] = attempt[k]
      BY <1>1, <2>1
    <2> QED
      BY <2>2, <2>3, <2>4
  <1>11. \A q \in Proxies : lock[q] # j => lock'[q] = lock[q] /\ dirty'[q] = dirty[q] /\ row'[q] = row[q]
    BY <1>1 DEF Release
  <1>12. \A q \in Proxies : lock'[q] # NoProxy => lock[q] \in Jobs \ {j}
    BY <1>1 DEF Release, HealthInv, HealthType, TypeOK
  <1>13. ASSUME NEW k \in Jobs PROVE JobAt(k)' /\ ReadBefore(k)'
    <2>1. CASE k = j
      BY <1>10, <2>1 DEF JobAt, ReadBefore, Waiting
    <2>2. CASE k # j
      <3>1. pc[k] \in {"counting", "debiting"} => using[k] \in Proxies
        BY DEF HealthInv, JobAt, Waiting
      <3>2. pc[k] = "counting" => lock'[using[k]] = k
        BY <1>11, <2>2, <3>1 DEF HealthInv, JobAt
      <3>3. pc[k] = "debiting" =>
              \/ seen'[k].stale
              \/ seen'[k] = seen[k] /\ Visible(k, using[k])' = Visible(k, using[k])
        <4>1. CASE pc[k] = "debiting" /\ using[k] \in Held(j)
          BY <1>4, <2>2, <4>1
        <4>2. CASE pc[k] = "debiting" /\ using[k] \notin Held(j)
          BY <1>1, <1>4, <1>11, <3>1, <4>2 DEF Held, Visible
        <4> QED
          BY <4>1, <4>2
      <3> QED
        BY <1>1, <1>4, <1>10, <2>2, <3>2, <3>3, MarkedStays
    <2> QED
      BY <2>1, <2>2
  <1>14. ASSUME NEW q \in Proxies PROVE Uncommitted(q)'
    <2>0. lock'[q] = NoProxy => filed'[q] = << >>
      BY <1>1 DEF Release, HealthInv, Uncommitted
    <2> SUFFICES ASSUME lock'[q] # NoProxy PROVE Uncommitted(q)'
      BY <2>0 DEF Uncommitted
    <2>1. /\ lock[q] \in Jobs \ {j} /\ lock'[q] = lock[q] /\ dirty'[q] = dirty[q]
          /\ filed'[q] = filed[q] /\ log'[q] = log[q]
      BY <1>1, <1>2, <1>11, <1>12 DEF Release
    <2>2. Uncounted(q)' = Uncounted(q) /\ Uncounted(q) \in {0, 1}
      BY <1>1, <1>10, <2>1 DEF Uncounted
    <2>3. /\ daily[q] + faults + Uncounted(q) <= daily'[q] + faults' + Uncounted(q)'
          /\ daily'[q] \in Nat /\ faults' \in Nat
      BY <1>1, <2>2 DEF HealthInv, HealthType, TypeOK
    <2> QED
      BY <1>4, <1>10, <2>1, <2>3, UncommittedStays DEF HealthInv
  <1>15. ResetRead'
    <2> SUFFICES ASSUME reset'.proxy # NoProxy, ~reset'.stale PROVE ResetRead'
      BY DEF ResetRead
    <2>1. reset.proxy \in Proxies /\ lock[reset.proxy] # j
      BY <1>8 DEF Held
    <2>2. row'[reset.proxy] = row[reset.proxy]
      BY <1>11, <2>1
    <2> QED
      BY <1>8, <2>2 DEF HealthInv, ResetRead
  <1> QED
    BY <1>5, <1>9, <1>13, <1>14, <1>15 DEF HealthInv

-----------------------------------------------------------------------------

LEMMA NextHealth ==
  HealthInv /\ [Next]_vars => HealthInv'
  <1> SUFFICES ASSUME HealthInv, [Next]_vars PROVE HealthInv'
    OBVIOUS
  <1>1. ASSUME NEW j \in Jobs, JobStep(j) PROVE HealthInv'
    BY <1>1, GetProxyKeeps, NoProxyLeftKeeps, SucceedsKeeps, ReadFailuresKeeps,
       RecordSuccessKeeps, RecordFailureKeeps, RecordDailyAggregateKeeps, ReportFailsKeeps,
       CommitKeeps, RollbackKeeps, DeadlockDetectedKeeps DEF JobStep
  <1>2. ASSUME NEW j \in Jobs, Cancelled(j) \/ Killed(j) PROVE HealthInv'
    BY <1>2, CancelledKeeps, KilledKeeps
  <1>3. ASSUME UNCHANGED vars PROVE HealthInv'
    <2>1. HealthType'
      BY <1>3 DEF vars, HealthInv, HealthType, TypeOK
    <2>2. \A k \in Jobs : JobAt(k)' /\ ReadBefore(k)'
      BY <1>3 DEF vars, HealthInv, JobAt, ReadBefore, Visible
    <2>3. \A p \in Proxies : Uncommitted(p)' /\ RowRight(p)'
      BY <1>3 DEF vars, HealthInv, Uncommitted, RowRight, Right, Uncounted
    <2>4. ResetRead'
      BY <1>3 DEF vars, HealthInv, ResetRead
    <2> QED
      BY <2>1, <2>2, <2>3, <2>4 DEF HealthInv
  <1> QED
    BY <1>1, <1>2, <1>3, ResetReadsKeeps, ResetWritesKeeps, ImportUpsertsKeeps, TickKeeps DEF Next

\* The inductive invariant holds in every state of the model of the health reports.
THEOREM HealthInvariance == Spec => []HealthInv
  BY InitHealth, NextHealth, PTL DEF Spec

\* Type correctness of the health reports: the rows, their uncommitted versions and the
\* locals of the jobs that record_success, record_failure and reset_proxy work on.
THEOREM HealthTypeCorrect == Spec => []TypeOK
  BY HealthInvariance, HealthImplies, PTL

\* TotalsMatchTheReports for any number of jobs and proxies: total_requests and total_errors
\* count the committed reports, and the daily aggregates no fewer.
THEOREM TotalsMatch == Spec => []TotalsMatchTheReports
  BY HealthInvariance, HealthImplies, PTL

\* SerialReportsAreExact for any number of jobs and proxies: without a read before somebody
\* else's commit, record_failure counts the run of failures and backs off by it.
THEOREM SerialReportsExact == Spec => []SerialReportsAreExact
  BY HealthInvariance, HealthImplies, PTL

-----------------------------------------------------------------------------
(***************************************************************************)
(* The sync with the provider.                                             *)
(***************************************************************************)
\* An import comes once, so its pool is not there before.
PoolsOnce == request.st # "over" => ~Contains(pools, ImportPool)

\* Rows are never deleted, so what a sync has read as existing exists; a proxy has no events
\* before it has a row.
RowsStay ==
  \A u \in Urls :
    /\ table[u].state = "absent" => event[u] = "none"
    /\ \A s \in Syncs : read[s][u] # "absent" => table[u].state # "absent"

\* A sync that nobody overtook still knows the table.
ReadsFresh(s) ==
  at[s] = "reconciling" /\ ~stale[s] => \A u \in Urls : read[s][u] = table[u].state

\* What a plan has had all the time is fetched, unless the plan is still to be fetched or failed;
\* of the plan that is being fetched the pages so far are.
SteadyFetched(s) ==
  /\ steady[s] \subseteq Entries
  /\ at[s] = "reconciling" => left[s] = {}
  /\ at[s] # "idle" /\ ~skipped[s] =>
       \A e \in steady[s] : e[1] \in left[s] \/ fetched[s][e[2]] # "none"
  /\ paging[s].plan = NoPlan => paging[s].page = 1
  /\ \A e \in steady[s] : e[1] = paging[s].plan =>
       \A i \in 1 .. Len(on[e[1]]) :
         on[e[1]][i] = e[2] /\ i <= (paging[s].page - 1) * PageSize => e[2] \in paging[s].got

\* Between two pages of a plan that plan is still to be fetched.
BetweenPages(s) == paging[s] = NotPaging \/ (at[s] = "fetching" /\ paging[s].plan \in left[s])

SyncInv ==
  /\ SyncTypeOK /\ PoolsOnce /\ RowsStay /\ EventTellsState
  /\ \A s \in Syncs : ReadsFresh(s) /\ BetweenPages(s) /\ SteadyFetched(s)

LEMMA InsertAtIs ==
  ASSUME NEW S, NEW q \in Seq(S), NEW x \in S, NEW i \in 1 .. Len(q) + 1
  PROVE  /\ InsertAt(q, i, x) \in Seq(S) /\ Len(InsertAt(q, i, x)) = Len(q) + 1
         /\ \A k \in 1 .. Len(q) + 1 :
              InsertAt(q, i, x)[k] = IF k < i THEN q[k] ELSE IF k = i THEN x ELSE q[k - 1]
  <1> DEFINE a == SubSeq(q, 1, i - 1)
             c == SubSeq(q, i, Len(q))
  <1>1. Len(q) \in Nat /\ i \in Int /\ \A k \in 1 .. Len(q) : q[k] \in S
    OBVIOUS
  <1>2. a \in Seq(S) /\ Len(a) = i - 1 /\ \A k \in 1 .. i - 1 : a[k] = q[k]
    <2>1. 1 \in Int /\ i - 1 \in Int /\ \A k \in 1 .. i - 1 : q[k] \in S
      BY <1>1
    <2>2. /\ a \in Seq(S) /\ Len(a) = (IF 1 <= i - 1 THEN i - 1 - 1 + 1 ELSE 0)
          /\ \A k \in 1 .. i - 1 - 1 + 1 : a[k] = q[1 + k - 1]
      BY <2>1, SubSeqProperties
    <2> HIDE DEF a
    <2> QED
      BY <1>1, <2>2
  <1>3. c \in Seq(S) /\ Len(c) = Len(q) - i + 1 /\ \A k \in 1 .. Len(q) - i + 1 : c[k] = q[i + k - 1]
    <2>1. Len(q) \in Int /\ \A k \in i .. Len(q) : q[k] \in S
      BY <1>1
    <2>2. /\ c \in Seq(S) /\ Len(c) = (IF i <= Len(q) THEN Len(q) - i + 1 ELSE 0)
          /\ \A k \in 1 .. Len(q) - i + 1 : c[k] = q[i + k - 1]
      BY <1>1, <2>1, SubSeqProperties
    <2> HIDE DEF c
    <2>3. Len(c) = Len(q) - i + 1
      BY <1>1, <2>2
    <2> QED
      BY <2>2, <2>3
  <1>4. <<x>> \in Seq(S) /\ Len(<<x>>) = 1 /\ <<x>>[1] = x
    OBVIOUS
  <1> DEFINE b == <<x>>
             ab == a \o b
  <1> HIDE DEF a, b, c
  <1>5. /\ ab \in Seq(S) /\ Len(ab) = i /\ \A k \in 1 .. i : ab[k] = IF k < i THEN q[k] ELSE x
    <2>1. /\ ab \in Seq(S) /\ Len(ab) = Len(a) + Len(b)
          /\ \A k \in 1 .. Len(a) + Len(b) : ab[k] = IF k <= Len(a) THEN a[k] ELSE b[k - Len(a)]
      BY <1>2, <1>4, ConcatProperties DEF b
    <2>2. Len(b) = 1 /\ b[1] = x
      BY <1>4 DEF b
    <2> HIDE DEF ab
    <2>3. Len(ab) = i
      BY <1>1, <1>2, <2>1, <2>2
    <2>4. ASSUME NEW k \in 1 .. i PROVE ab[k] = IF k < i THEN q[k] ELSE x
      <3>1. k \in 1 .. Len(a) + Len(b) /\ (k <= Len(a) <=> k < i)
        BY <1>1, <1>2, <2>2
      <3>2. CASE k < i
        <4>1. ab[k] = a[k] /\ k \in 1 .. i - 1
          BY <1>1, <2>1, <3>1, <3>2
        <4> QED
          BY <1>2, <3>2, <4>1
      <3>3. CASE ~(k < i)
        <4>1. k - Len(a) = 1
          BY <1>1, <1>2, <3>3
        <4>2. ab[k] = b[k - Len(a)]
          BY <2>1, <3>1, <3>3
        <4> QED
          BY <2>2, <3>3, <4>1, <4>2
      <3> QED
        BY <3>2, <3>3
    <2> QED
      BY <2>1, <2>3, <2>4
  <1>6. InsertAt(q, i, x) = ab \o c
    BY DEF InsertAt, a, b, c
  <1> HIDE DEF ab
  <1> DEFINE all == ab \o c
  <1>7. /\ all \in Seq(S) /\ Len(all) = Len(ab) + Len(c)
        /\ \A k \in 1 .. Len(ab) + Len(c) : all[k] = IF k <= Len(ab) THEN ab[k] ELSE c[k - Len(ab)]
    BY <1>3, <1>5, ConcatProperties
  <1> HIDE DEF all
  <1>8. Len(all) = Len(q) + 1
    BY <1>1, <1>3, <1>5, <1>7
  <1>9. ASSUME NEW k \in 1 .. Len(q) + 1
        PROVE  all[k] = IF k < i THEN q[k] ELSE IF k = i THEN x ELSE q[k - 1]
    <2>1. CASE k <= i
      BY <1>1, <1>3, <1>5, <1>7, <2>1
    <2>2. CASE k > i
      <3>1. all[k] = c[k - i] /\ k - i \in 1 .. Len(q) - i + 1
        BY <1>1, <1>3, <1>5, <1>7, <2>2
      <3>2. i + (k - i) - 1 = k - 1
        BY <1>1
      <3>3. c[k - i] = q[i + (k - i) - 1]
        BY <1>3, <3>1
      <3> QED
        BY <1>1, <2>2, <3>1, <3>2, <3>3
    <2> QED
      BY <1>1, <2>1, <2>2
  <1> QED
    BY <1>6, <1>7, <1>8, <1>9 DEF all

\* A pool that is not there yet leaves the list of pools without duplicates.
LEMMA NewPool ==
  ASSUME SyncTypeOK, NEW p \in Pools, ~Contains(pools, p), NEW older, NEW q \in WithPool(p, older)
  PROVE  q \in Seq(Pools) /\ IsInjective(q) /\ \A x : Contains(q, x) => x = p \/ Contains(pools, x)
  <1>1. PICK i \in 1 .. Len(pools) + 1 : q = InsertAt(pools, i, p)
    BY DEF WithPool
  <1>2. pools \in Seq(Pools) /\ Len(pools) \in Nat /\ DOMAIN pools = 1 .. Len(pools)
    BY DEF SyncTypeOK
  <1>3. /\ q \in Seq(Pools) /\ Len(q) = Len(pools) + 1
        /\ \A k \in 1 .. Len(pools) + 1 :
             q[k] = IF k < i THEN pools[k] ELSE IF k = i THEN p ELSE pools[k - 1]
    <2>1. PICK S, ps : S = Pools /\ ps = pools
      OBVIOUS
    <2>2. ps \in Seq(S) /\ p \in S /\ i \in 1 .. Len(ps) + 1 /\ q = InsertAt(ps, i, p)
      BY <1>1, <1>2, <2>1
    <2>3. /\ q \in Seq(S) /\ Len(q) = Len(ps) + 1
          /\ \A k \in 1 .. Len(ps) + 1 :
               q[k] = IF k < i THEN ps[k] ELSE IF k = i THEN p ELSE ps[k - 1]
      BY <2>2, InsertAtIs, SMTT(60)
    <2> QED
      BY <2>1, <2>3
  <1>4. \A k \in 1 .. Len(pools) : pools[k] # p
    BY DEF Contains
  <1>5. \A k, m \in 1 .. Len(pools) : pools[k] = pools[m] => k = m
    BY <1>2 DEF SyncTypeOK, IsInjective
  <1>6. DOMAIN q = 1 .. Len(pools) + 1
    BY <1>3
  <1>7. ASSUME NEW k \in 1 .. Len(pools) + 1, NEW m \in 1 .. Len(pools) + 1, q[k] = q[m] PROVE k = m
    <2>1. CASE k = i
      BY <1>2, <1>3, <1>4, <1>7, <2>1
    <2>2. CASE m = i
      BY <1>2, <1>3, <1>4, <1>7, <2>2
    <2>3. CASE k # i /\ m # i
      BY <1>2, <1>3, <1>5, <1>7, <2>3
    <2> QED
      BY <2>1, <2>2, <2>3
  <1>8. IsInjective(q)
    BY <1>6, <1>7 DEF IsInjective
  <1>9. ASSUME NEW x, Contains(q, x) PROVE x = p \/ Contains(pools, x)
    <2>1. PICK k \in 1 .. Len(pools) + 1 : q[k] = x
      BY <1>3, <1>9 DEF Contains
    <2> QED
      BY <1>2, <1>3, <2>1 DEF Contains
  <1> QED
    BY <1>3, <1>8, <1>9

LEMMA ListsAreSequences ==
  ASSUME NEW l \in Lists
  PROVE  l \in Seq(Urls)
  <1>1. PICK n \in 0 .. Cardinality(Urls) : l \in Injection(1 .. n, Urls)
    BY DEF Lists
  <1>2. l \in [1 .. n -> Urls] /\ n \in Nat
    BY <1>1 DEF Injection
  <1> QED
    BY <1>2

LEMMA InitSyncInv ==
  SyncInit => SyncInv
  <1> SUFFICES ASSUME SyncInit PROVE SyncInv
    OBVIOUS
  <1>1. SyncTypeOK
    <2>1. mishaps \in 0 .. MaxMishaps
      BY SyncAssumption DEF SyncInit
    <2>2. on \in [Plans -> Seq(Urls)] /\ steady \in [Syncs -> SUBSET (Plans \X Urls)]
      BY SyncAssumption, ListsAreSequences DEF SyncInit
    <2>3. pools \in Seq(Pools) /\ IsInjective(pools)
      BY DEF SyncInit, IsInjective
    <2>4. paging \in [Syncs -> [plan : Plans \cup {NoPlan}, page : Nat \ {0}, got : SUBSET Urls]]
      BY DEF SyncInit, NotPaging
    <2>5. request \in [st : {"none", "open", "over"}, older : SUBSET Pools]
      BY DEF SyncInit
    <2> QED
      BY <2>1, <2>2, <2>3, <2>4, <2>5 DEF SyncInit, SyncTypeOK, Types, States, Absent, Nothing
  <1>2. PoolsOnce /\ RowsStay /\ EventTellsState
    BY DEF SyncInit, PoolsOnce, Contains, RowsStay, EventTellsState, Absent
  <1>3. \A s \in Syncs : ReadsFresh(s) /\ BetweenPages(s) /\ SteadyFetched(s)
    BY DEF SyncInit, ReadsFresh, BetweenPages, SteadyFetched, NotPaging
  <1> QED
    BY <1>1, <1>2, <1>3 DEF SyncInv

\* A plan's proxies are added to those fetched before, with a real type.
LEMMA MergedKeeps ==
  ASSUME NEW pl \in Plans, NEW us \in SUBSET Urls, NEW old \in [Urls -> Types]
  PROVE  /\ Merged(old, us, pl) \in [Urls -> Types]
         /\ \A u \in Urls : /\ old[u] # "none" => Merged(old, us, pl)[u] # "none"
                            /\ u \in us => Merged(old, us, pl)[u] # "none"
  BY DEF Merged, Types, _SUBTYPE_TO_PROXY_TYPE

\* The steps that leave the table alone, and those of an admin that write it.
Quiet ==
  \/ UNCHANGED proxySyncVars
  \/ \E s \in Syncs : \/ ListPlans(s) \/ PoolConflict(s) \/ SyncFails(s) \/ ReadTable(s)
                      \/ \E pl \in Plans : FetchPage(s, pl) \/ PlanFails(s, pl)
  \/ \E pl \in Direct, us \in Lists : ProviderChanges(pl, us)
  \/ RequestComes

Imports == \E us \in SUBSET Urls, type \in AdminTypes : Import(us, type)
NewPools == \E p \in {SyncPool, AdminPool} : create_proxy_pool(p)
NewRows == \E u \in Urls, type \in AdminTypes, p \in Pools : add_proxy_to_pool(u, type, p)

LEMMA SyncSteps ==
  ASSUME [SyncNext]_proxySyncVars
  PROVE  Quiet \/ Imports \/ NewPools \/ NewRows \/ \E s \in Syncs : Reconcile(s)
  BY DEF SyncNext, SyncStep, Quiet, Imports, NewPools, NewRows

LEMMA QuietKeepsTheTable ==
  ASSUME Quiet
  PROVE  /\ UNCHANGED <<table, pools, event>>
         /\ request' = request \/ (request.st = "none" /\ request'.st = "open")
  <1>1. UNCHANGED <<table, pools, event>>
    BY DEF Quiet, proxySyncVars, tableVars, ListPlans, PoolConflict, SyncFails, ReadTable,
       FetchPage, PlanFails, ProviderChanges, RequestComes
  <1>2. request' = request \/ RequestComes
    BY DEF Quiet, proxySyncVars, ListPlans, PoolConflict, SyncFails, ReadTable, FetchPage, PlanFails,
       ProviderChanges
  <1>3. RequestComes => request.st = "none" /\ request'.st = "open"
    BY DEF RequestComes
  <1>4. CASE request' = request
    BY <1>1, <1>4
  <1>5. CASE RequestComes
    BY <1>1, <1>3, <1>5
  <1> QED
    BY <1>2, <1>4, <1>5

\* The list of pools, whoever creates one.
LEMMA PoolsStep ==
  ASSUME SyncInv, [SyncNext]_proxySyncVars
  PROVE  PoolsOnce' /\ pools' \in Seq(Pools) /\ IsInjective(pools')
  <1>a. PoolsOnce /\ SyncTypeOK /\ pools \in Seq(Pools) /\ IsInjective(pools)
    BY DEF SyncInv, SyncTypeOK
  <1>b. {SyncPool, AdminPool, ImportPool} \subseteq Pools /\ ImportPool \notin {SyncPool, AdminPool}
    BY SyncAssumption DEF Pools
  <1>1. CASE Quiet
    BY <1>1, <1>a, QuietKeepsTheTable DEF PoolsOnce
  <1>2. CASE Imports
    <2>1. /\ request.st = "open" /\ pools' \in WithPool(ImportPool, request.older)
          /\ request' = [st |-> "over", older |-> {}]
      BY <1>2 DEF Imports, Import, RequestEnds
    <2>2. ~Contains(pools, ImportPool)
      BY <1>a, <2>1 DEF PoolsOnce
    <2>3. pools' \in Seq(Pools) /\ IsInjective(pools')
      BY <1>a, <1>b, <2>1, <2>2, NewPool
    <2> QED
      BY <2>1, <2>3 DEF PoolsOnce
  <1>3. CASE NewPools
    <2>1. PICK p \in {SyncPool, AdminPool} :
            /\ ~Contains(pools, p) /\ pools' \in WithPool(p, request.older)
            /\ request' = [st |-> "over", older |-> {}]
      BY <1>3 DEF NewPools, create_proxy_pool, RequestEnds
    <2>2. pools' \in Seq(Pools) /\ IsInjective(pools')
      BY <1>a, <1>b, <2>1, NewPool
    <2> QED
      BY <2>1, <2>2 DEF PoolsOnce
  <1>4. CASE NewRows
    BY <1>4, <1>a DEF NewRows, add_proxy_to_pool, RequestEnds, PoolsOnce
  <1>5. ASSUME NEW s \in Syncs, Reconcile(s) PROVE PoolsOnce' /\ pools' \in Seq(Pools) /\ IsInjective(pools')
    <2>1. request' = request
      BY <1>5 DEF Reconcile
    <2>2. CASE pools' = pools
      BY <1>a, <2>1, <2>2 DEF PoolsOnce
    <2>3. CASE pools' # pools
      <3>1. ~Contains(pools, SyncPool) /\ pools' \in WithPool(SyncPool, {})
        BY <1>5, <2>3 DEF Reconcile
      <3>2. /\ pools' \in Seq(Pools) /\ IsInjective(pools')
            /\ \A x : Contains(pools', x) => x = SyncPool \/ Contains(pools, x)
        BY <1>a, <1>b, <3>1, NewPool
      <3> QED
        BY <1>a, <1>b, <2>1, <3>2 DEF PoolsOnce
    <2> QED
      BY <2>2, <2>3
  <1> QED
    BY <1>1, <1>2, <1>3, <1>4, <1>5, SyncSteps

\* The locals of a sync that is over have their types.
LEMMA SyncTypeStep ==
  ASSUME SyncInv, [SyncNext]_proxySyncVars
  PROVE  SyncTypeOK'
  <1>a. SyncTypeOK /\ PoolsOnce
    BY DEF SyncInv
  <1>b. pools' \in Seq(Pools) /\ IsInjective(pools')
    BY PoolsStep
  <1>c. pools # <<>> => Head(pools) \in Pools
    BY <1>a DEF SyncTypeOK
  <1>d. \A p : Contains(pools, p) => p \in Pools
    BY <1>a DEF SyncTypeOK, Contains
  <1>e. Mishap => mishaps' \in 0 .. MaxMishaps
    BY <1>a, SyncAssumption DEF Mishap, SyncTypeOK
  <1>f. RequestEnds => request' \in [st : {"none", "open", "over"}, older : SUBSET Pools]
    BY DEF RequestEnds
  <1>g. AllOvertaken \in [Syncs -> BOOLEAN]
    BY <1>a DEF AllOvertaken, SyncTypeOK
  <1>h. NotPaging \in [plan : Plans \cup {NoPlan}, page : Nat \ {0}, got : SUBSET Urls]
    BY DEF NotPaging
  <1> USE SyncAssumption DEF SyncTypeOK, Types, States
  <1>1. CASE UNCHANGED proxySyncVars
    BY <1>1, <1>a, <1>b DEF proxySyncVars
  <1>2. ASSUME NEW s \in Syncs, ListPlans(s) PROVE SyncTypeOK'
    BY <1>2, <1>a, <1>b DEF ListPlans, Entries, Direct, tableVars
  <1>3. ASSUME NEW s \in Syncs, NEW pl \in Plans, FetchPage(s, pl) PROVE SyncTypeOK'
    <2>0. /\ paging[s].page \in Nat \ {0} /\ paging[s].got \subseteq Urls
          /\ Page(pl, paging[s].page) \subseteq Urls
      BY <1>a DEF Page
    <2> DEFINE got == paging[s].got \cup Page(pl, paging[s].page)
    <2>1. got \in SUBSET Urls /\ Merged(fetched[s], got, pl) \in [Urls -> Types]
      <3>1. got \in SUBSET Urls /\ fetched[s] \in [Urls -> Types]
        BY <1>a, <2>0
      <3> HIDE DEF got, SyncTypeOK, Types
      <3> QED
        BY <3>1, MergedKeeps
    <2>2. [plan |-> pl, page |-> paging[s].page + 1, got |-> got]
            \in [plan : Plans \cup {NoPlan}, page : Nat \ {0}, got : SUBSET Urls]
      BY <2>0, <2>1
    <2>3. /\ UNCHANGED <<on, tableVars, at, read, pool, stale, steady, skipped, request, mishaps>>
          /\ \/ /\ paging' = [paging EXCEPT ![s] = [plan |-> pl, page |-> paging[s].page + 1, got |-> got]]
                /\ left' = left /\ fetched' = fetched
             \/ /\ paging' = [paging EXCEPT ![s] = NotPaging]
                /\ left' = [left EXCEPT ![s] = @ \ {pl}]
                /\ fetched' = [fetched EXCEPT ![s] = Merged(fetched[s], got, pl)]
      BY <1>3 DEF FetchPage, PlanDone
    <2>a. /\ paging \in [Syncs -> [plan : Plans \cup {NoPlan}, page : Nat \ {0}, got : SUBSET Urls]]
          /\ left \in [Syncs -> SUBSET Plans] /\ fetched \in [Syncs -> [Urls -> Types]]
      BY <1>a
    <2>b. PICK P, m : /\ P = [plan : Plans \cup {NoPlan}, page : Nat \ {0}, got : SUBSET Urls]
                      /\ m = [plan |-> pl, page |-> paging[s].page + 1, got |-> got]
      OBVIOUS
    <2>c. PICK F : F = [Urls -> Types]
      OBVIOUS
    <2> HIDE DEF got, SyncTypeOK, Types
    <2>4. paging' \in [Syncs -> [plan : Plans \cup {NoPlan}, page : Nat \ {0}, got : SUBSET Urls]]
      <3>1. m \in P /\ NotPaging \in P /\ paging \in [Syncs -> P]
        BY <1>h, <2>2, <2>a, <2>b
      <3>2. paging' = [paging EXCEPT ![s] = m] \/ paging' = [paging EXCEPT ![s] = NotPaging]
        BY <2>3, <2>b
      <3>3. paging' \in [Syncs -> P]
        BY <3>1, <3>2
      <3> QED
        BY <2>b, <3>3
    <2>5. left' \in [Syncs -> SUBSET Plans]
      BY <2>3, <2>a
    <2>6. fetched' \in [Syncs -> [Urls -> Types]]
      <3>1. Merged(fetched[s], got, pl) \in F /\ fetched \in [Syncs -> F]
        BY <2>1, <2>a, <2>c
      <3>2. fetched' \in [Syncs -> F]
        BY <2>3, <3>1
      <3> QED
        BY <2>c, <3>2
    <2> QED
      BY <1>a, <1>b, <2>3, <2>4, <2>5, <2>6 DEF tableVars, SyncTypeOK
  <1>4. ASSUME NEW s \in Syncs, NEW pl \in Plans, PlanFails(s, pl) PROVE SyncTypeOK'
    <2>1. mishaps' \in 0 .. MaxMishaps
      BY <1>4, <1>a, <1>e DEF PlanFails
    <2>2. /\ left' = [left EXCEPT ![s] = @ \ {pl}] /\ paging' = [paging EXCEPT ![s] = NotPaging]
          /\ skipped' = [skipped EXCEPT ![s] = TRUE]
          /\ UNCHANGED <<on, tableVars, at, fetched, read, pool, stale, steady, request>>
      BY <1>4 DEF PlanFails, PlanDone
    <2> QED
      BY <1>a, <1>b, <1>h, <2>1, <2>2 DEF tableVars
  <1>5. ASSUME NEW s \in Syncs, ReadTable(s) PROVE SyncTypeOK'
    BY <1>5, <1>a, <1>b, <1>c DEF ReadTable, tableVars
  <1>6. ASSUME NEW s \in Syncs, Ends(s)
        PROVE  /\ at' \in [Syncs -> {"idle", "fetching", "reconciling"}]
               /\ left' \in [Syncs -> SUBSET Plans] /\ fetched' \in [Syncs -> [Urls -> Types]]
               /\ paging' \in [Syncs -> [plan : Plans \cup {NoPlan}, page : Nat \ {0}, got : SUBSET Urls]]
               /\ read' \in [Syncs -> [Urls -> States]]
               /\ pool' \in [Syncs -> Pools \cup {NoPool}]
               /\ steady' \in [Syncs -> SUBSET (Plans \X Urls)] /\ skipped' \in [Syncs -> BOOLEAN]
    BY <1>6, <1>a, <1>h DEF Ends, Nothing
  <1>7. ASSUME NEW s \in Syncs, PoolConflict(s) \/ SyncFails(s) PROVE SyncTypeOK'
    <2>1. Ends(s) /\ stale' = [stale EXCEPT ![s] = FALSE] /\ UNCHANGED <<on, table, event, request>>
      BY <1>7 DEF PoolConflict, SyncFails, tableVars
    <2>2. mishaps' \in 0 .. MaxMishaps
      BY <1>7, <1>a, <1>e DEF PoolConflict, SyncFails
    <2> QED
      BY <1>6, <1>a, <1>b, <2>1, <2>2
  <1>8. ASSUME NEW s \in Syncs, Reconcile(s) PROVE SyncTypeOK'
    <2>a. pool[s] \in Pools \cup {NoPool} /\ SyncPool \in Pools
      BY <1>a DEF Pools
    <2>b. (pool[s] # NoPool /\ Written(s, pool[s])) \/ Written(s, SyncPool)
      BY <1>8 DEF Reconcile
    <2>1. PICK p \in Pools : Written(s, p)
      <3>1. CASE pool[s] # NoPool /\ Written(s, pool[s])
        BY <2>a, <3>1
      <3>2. CASE Written(s, SyncPool)
        BY <2>a, <3>2
      <3> QED
        BY <2>b, <3>1, <3>2
    <2>2. Ends(s) /\ stale' = Overtaken(s) /\ UNCHANGED <<on, request, mishaps>>
      BY <1>8 DEF Reconcile
    <2>3. event' \in [Urls -> {"none", "activated", "deactivated"}]
      BY <2>1, <1>a DEF Written
    <2>4. ASSUME NEW u \in Urls
          PROVE  table'[u] \in [state : States, type : Types, pool : Pools \cup {NoPool}]
      <3>1. table[u] \in [state : States, type : Types, pool : Pools \cup {NoPool}]
            /\ fetched[s][u] \in Types
        BY <1>a
      <3>2. CASE u \in Fetched(s)
        <4>1. table'[u] = [state |-> IF u \in activated_urls(s) THEN "active" ELSE UpsertedState(u),
                           type |-> fetched[s][u], pool |-> p]
          BY <2>1, <3>2 DEF Written
        <4>2. UpsertedState(u) \in States
          BY <3>1 DEF UpsertedState
        <4> QED
          BY <3>1, <4>1, <4>2
      <3>3. CASE u \notin Fetched(s)
        <4>1. table'[u] = [table[u] EXCEPT !.state = "inactive"] \/ table'[u] = table[u]
          BY <2>1, <3>3 DEF Written
        <4> QED
          BY <3>1, <4>1
      <3> QED
        BY <3>2, <3>3
    <2>5. table' \in [Urls -> [state : States, type : Types, pool : Pools \cup {NoPool}]]
      BY <2>1, <2>4 DEF Written
    <2>6. stale' \in [Syncs -> BOOLEAN]
      BY <2>2, <1>a DEF Overtaken
    <2> QED
      BY <1>6, <1>a, <1>b, <2>2, <2>3, <2>5, <2>6
  <1>9. ASSUME NEW pl \in Direct, NEW us \in Lists, ProviderChanges(pl, us) PROVE SyncTypeOK'
    <2>1. us \in Seq(Urls)
      BY ListsAreSequences
    <2>2. on' \in [Plans -> Seq(Urls)] /\ mishaps' \in 0 .. MaxMishaps
      BY <1>9, <1>a, <1>e, <2>1 DEF ProviderChanges, Direct
    <2>3. steady' \in [Syncs -> SUBSET (Plans \X Urls)]
      BY <1>9, <1>a DEF ProviderChanges
    <2> QED
      BY <1>9, <1>a, <1>b, <2>2, <2>3 DEF ProviderChanges, tableVars
  <1>10. CASE RequestComes
    <2>1. ToSet(pools) \subseteq Pools
      BY <1>a DEF ToSet
    <2> QED
      BY <1>10, <1>a, <1>b, <1>e, <2>1 DEF RequestComes, tableVars, syncVars
  <1>11. ASSUME NEW us \in SUBSET Urls, NEW type \in AdminTypes, Import(us, type) PROVE SyncTypeOK'
    <2>1. ImportPool \in Pools
      BY DEF Pools
    <2>2. ASSUME NEW u \in Urls
          PROVE  table'[u] \in [state : States, type : Types, pool : Pools \cup {NoPool}]
      <3>1. table[u] \in [state : States, type : Types, pool : Pools \cup {NoPool}] /\ type \in Types
        BY <1>a
      <3>2. table'[u] = IF u \notin us THEN table[u]
                        ELSE IF table[u].state = "absent"
                             THEN [state |-> "active", type |-> type, pool |-> ImportPool]
                        ELSE [table[u] EXCEPT !.type = type]
        BY <1>11 DEF Import
      <3>3. CASE u \notin us
        BY <3>1, <3>2, <3>3
      <3>4. CASE u \in us /\ table[u].state = "absent"
        BY <2>1, <3>1, <3>2, <3>4
      <3>5. CASE u \in us /\ table[u].state # "absent"
        BY <3>1, <3>2, <3>5
      <3> QED
        BY <3>3, <3>4, <3>5
    <2>3. table' \in [Urls -> [state : States, type : Types, pool : Pools \cup {NoPool}]]
      BY <1>11, <2>2 DEF Import
    <2> QED
      BY <1>11, <1>a, <1>b, <1>f, <1>g, <2>3 DEF Import
  <1>12. CASE NewPools
    BY <1>12, <1>a, <1>b, <1>f DEF NewPools, create_proxy_pool, syncVars
  <1>13. ASSUME NEW u \in Urls, NEW type \in AdminTypes, NEW p \in Pools, add_proxy_to_pool(u, type, p)
         PROVE  SyncTypeOK'
    BY <1>13, <1>a, <1>b, <1>f, <1>g DEF add_proxy_to_pool
  <1> QED
    BY <1>1, <1>2, <1>3, <1>4, <1>5, <1>7, <1>8, <1>9, <1>10, <1>11, <1>12, <1>13
       DEF SyncNext, SyncStep, NewPools

\* The rows and their last events agree whoever wrote them, because a deactivated row was read
\* active before and is never deleted.
LEMMA RowsStep ==
  ASSUME SyncInv, [SyncNext]_proxySyncVars
  PROVE  RowsStay' /\ EventTellsState'
  <1>a. SyncTypeOK /\ RowsStay /\ EventTellsState
    BY DEF SyncInv
  <1> USE DEF RowsStay, EventTellsState
  <1>1. CASE Quiet
    <2>1. \A s \in Syncs, u \in Urls : read'[s][u] \in {read[s][u], "absent", table[u].state}
      <3>a. read \in [Syncs -> [Urls -> States]]
        BY <1>a DEF SyncTypeOK
      <3>1. \/ read' = read
            \/ \E t \in Syncs : read' = [read EXCEPT ![t] = [u \in Urls |-> "absent"]]
            \/ \E t \in Syncs : read' = [read EXCEPT ![t] = [u \in Urls |-> table[u].state]]
        BY <1>1 DEF Quiet, proxySyncVars, ListPlans, PoolConflict, SyncFails, ReadTable,
             FetchPage, PlanFails, ProviderChanges, RequestComes, syncVars, Ends
      <3> HIDE DEF RowsStay, EventTellsState
      <3> QED
        BY <3>a, <3>1
    <2> QED
      BY <1>1, <1>a, <2>1, QuietKeepsTheTable
  <1>2. CASE Imports
    BY <1>2, <1>a DEF Imports, Import, SyncTypeOK, States
  <1>4. CASE NewPools
    BY <1>4, <1>a DEF NewPools, create_proxy_pool, syncVars
  <1>5. CASE NewRows
    BY <1>5, <1>a DEF NewRows, add_proxy_to_pool, SyncTypeOK, States
  <1>3. ASSUME NEW s \in Syncs, Reconcile(s) PROVE RowsStay' /\ EventTellsState'
    <2>1. PICK p : Written(s, p)
      BY <1>3 DEF Reconcile
    <2>2. \A r \in Syncs, u \in Urls : read'[r][u] \in {read[r][u], "absent"}
      BY <1>3, <1>a DEF Reconcile, Ends, SyncTypeOK
    <2>3. ASSUME NEW u \in Urls
          PROVE  /\ table[u].state # "absent" => table'[u].state # "absent"
                 /\ table'[u].state = "absent" => event'[u] = "none"
                 /\ table'[u].state # "absent" =>
                      (table'[u].state = "inactive") = (event'[u] = "deactivated")
      <3>1. CASE u \in activated_urls(s)
        BY <2>1, <3>1 DEF Written, activated_urls
      <3>2. CASE u \in deactivated_urls(s)
        <4>1. table[u].state # "absent" /\ u \notin Fetched(s) /\ u \notin activated_urls(s)
          BY <1>a, <3>2 DEF deactivated_urls, activated_urls
        <4> QED
          BY <2>1, <3>2, <4>1, <1>a DEF Written, SyncTypeOK
      <3>3. CASE u \notin activated_urls(s) /\ u \notin deactivated_urls(s)
        <4>1. event'[u] = event[u]
          BY <2>1, <3>3 DEF Written
        <4>2. CASE u \in Fetched(s)
          <5>1. table'[u].state = UpsertedState(u)
            BY <2>1, <3>3, <4>2 DEF Written
          <5> QED
            BY <4>1, <5>1, <1>a DEF UpsertedState
        <4>3. CASE u \notin Fetched(s)
          BY <2>1, <3>3, <4>1, <4>3, <1>a DEF Written
        <4> QED
          BY <4>2, <4>3
      <3> QED
        BY <3>1, <3>2, <3>3
    <2> QED
      BY <1>a, <2>2, <2>3
  <1> QED
    BY <1>1, <1>2, <1>3, <1>4, <1>5, SyncSteps

\* A sync knows the table until somebody else writes it, which marks it as overtaken.
LEMMA ReadsStep ==
  ASSUME SyncInv, [SyncNext]_proxySyncVars, NEW r \in Syncs
  PROVE  ReadsFresh(r)'
  <1>a. SyncTypeOK /\ ReadsFresh(r)
    BY DEF SyncInv
  <1> USE DEF ReadsFresh
  <1>1. CASE UNCHANGED proxySyncVars
    BY <1>1, <1>a DEF proxySyncVars
  <1>2. ASSUME NEW s \in Syncs, ListPlans(s) \/ PoolConflict(s) \/ SyncFails(s) \/ ReadTable(s)
        PROVE  ReadsFresh(r)'
    BY <1>2, <1>a DEF SyncTypeOK, tableVars, ListPlans, PoolConflict, SyncFails, ReadTable,
       Ends
  <1>3. ASSUME NEW s \in Syncs, NEW pl \in Plans, FetchPage(s, pl) \/ PlanFails(s, pl)
        PROVE  ReadsFresh(r)'
    BY <1>3, <1>a DEF tableVars, FetchPage, PlanFails
  <1>4. ASSUME NEW pl \in Direct, NEW us \in Lists, ProviderChanges(pl, us) PROVE ReadsFresh(r)'
    BY <1>4, <1>a DEF tableVars, ProviderChanges
  <1>5. CASE Imports \/ NewRows
    <2>1. (at[r] = "reconciling" => stale'[r]) /\ at' = at
      BY <1>5 DEF Imports, Import, NewRows, add_proxy_to_pool, AllOvertaken
    <2> QED
      BY <2>1
  <1>7. CASE RequestComes \/ NewPools
    BY <1>7, <1>a DEF RequestComes, NewPools, create_proxy_pool, tableVars, syncVars
  <1>6. ASSUME NEW s \in Syncs, Reconcile(s) PROVE ReadsFresh(r)'
    BY <1>6, <1>a DEF SyncTypeOK, Reconcile, Ends, Overtaken
  <1> QED
    BY <1>1, <1>2, <1>3, <1>4, <1>5, <1>6, <1>7 DEF SyncNext, SyncStep, Imports, NewPools, NewRows

\* The pages up to n hold every entry of the plan up to there.
LEMMA PagesCover ==
  ASSUME SyncInv, NEW s \in Syncs, NEW pl \in Plans, Fetching(s, pl),
         NEW e \in steady[s], e[1] = pl, NEW i \in 1 .. Len(on[pl]), on[pl][i] = e[2],
         i <= paging[s].page * PageSize
  PROVE  e[2] \in paging[s].got \cup Page(pl, paging[s].page)
  <1>1. SyncTypeOK /\ SteadyFetched(s)
    BY DEF SyncInv
  <1>2. e \in Entries /\ Listing(pl) = on[pl] /\ e[2] \in Urls
    BY <1>1 DEF SteadyFetched, Entries, Direct, Listing
  <1>3. /\ on[pl] \in Seq(Urls) /\ paging[s].page \in Nat \ {0} /\ PageSize \in Nat
        /\ DOMAIN on[pl] = 1 .. Len(on[pl])
    BY <1>1, SyncAssumption DEF SyncTypeOK
  <1>4. (paging[s].page - 1) * PageSize \in Int
    BY <1>3
  <1>5. CASE i <= (paging[s].page - 1) * PageSize
    <2>1. paging[s].plan = pl
      <3> SUFFICES ASSUME paging[s].plan = NoPlan PROVE FALSE
        BY DEF Fetching
      <3>1. paging[s].page = 1
        BY <1>1 DEF SteadyFetched
      <3>2. (paging[s].page - 1) * PageSize = 0
        BY <1>3, <3>1
      <3> QED
        BY <1>5, <3>2
    <2> QED
      BY <1>1, <1>5, <2>1 DEF SteadyFetched
  <1>6. CASE (paging[s].page - 1) * PageSize < i
    BY <1>2, <1>3, <1>6 DEF Page
  <1> QED
    BY <1>4, <1>5, <1>6

\* Fetching a plan fetches what the plan has had all the time.
LEMMA SteadyStep ==
  ASSUME SyncInv, [SyncNext]_proxySyncVars, NEW r \in Syncs
  PROVE  SteadyFetched(r)'
  <1>a. SyncTypeOK /\ SteadyFetched(r)
    BY DEF SyncInv
  <1>b. at[r] = "idle" => paging[r] = NotPaging
    BY DEF SyncInv, BetweenPages
  <1> USE DEF SteadyFetched
  <1>1. CASE UNCHANGED proxySyncVars
    BY <1>1, <1>a DEF proxySyncVars, Entries, Direct
  <1>2. ASSUME NEW s \in Syncs, ListPlans(s) PROVE SteadyFetched(r)'
    <2>1. Entries' = Entries
      BY <1>2 DEF ListPlans, Entries, Direct
    <2>2. \A e \in Entries : e[1] \in Plans /\ on[e[1]] # <<>>
      BY DEF Entries, Direct, Contains
    <2>3. CASE r = s
      <3>1. /\ at'[r] = "fetching" /\ left'[r] = {pl \in Plans : on[pl] # <<>>} /\ steady'[r] = Entries
            /\ paging' = paging /\ on' = on /\ skipped' = skipped /\ fetched' = fetched
        BY <1>2, <1>a, <2>3 DEF ListPlans, SyncTypeOK
      <3>2. paging[r] = NotPaging
        BY <1>2, <1>b, <2>3 DEF ListPlans
      <3>3. \A e \in steady'[r] : e[1] # paging'[r].plan
        BY <2>2, <3>1, <3>2, SyncAssumption DEF NotPaging
      <3> QED
        BY <2>1, <2>2, <3>1, <3>2, <3>3 DEF NotPaging
    <2>4. CASE r # s
      BY <1>2, <1>a, <2>1, <2>4 DEF ListPlans, SyncTypeOK
    <2> QED
      BY <2>3, <2>4
  <1>3. ASSUME NEW s \in Syncs, NEW pl \in Plans, FetchPage(s, pl) PROVE SteadyFetched(r)'
    <2>1. Entries' = Entries /\ on' = on
      BY <1>3 DEF FetchPage, Entries, Direct
    <2>2. CASE r # s
      <3>1. /\ at' = at /\ steady' = steady /\ skipped' = skipped
            /\ left'[r] = left[r] /\ paging'[r] = paging[r] /\ fetched'[r] = fetched[r]
        BY <1>3, <1>a, <2>2 DEF FetchPage, PlanDone, SyncTypeOK
      <3> QED
        BY <1>a, <2>1, <3>1
    <2>3. CASE r = s
      <3> DEFINE n   == paging[s].page
                 got == paging[s].got \cup Page(pl, n)
      <3>0. /\ Fetching(s, pl) /\ at' = at /\ steady' = steady /\ skipped' = skipped
            /\ at[r] = "fetching" /\ n \in Nat \ {0} /\ PageSize \in Nat
            /\ on[pl] \in Seq(Urls) /\ Len(on[pl]) \in Nat
        BY <1>3, <1>a, <2>3, SyncAssumption DEF FetchPage, Fetching, SyncTypeOK
      <3>1. ASSUME NEW e \in steady[r], e[1] = pl, NEW i \in 1 .. Len(on[pl]), on[pl][i] = e[2],
                   i <= n * PageSize
            PROVE  e[2] \in got
        BY <2>3, <3>0, <3>1, PagesCover
      <3>2. CASE HasNext(pl, n)
        <4>1. /\ paging'[r] = [plan |-> pl, page |-> n + 1, got |-> got]
              /\ left' = left /\ fetched' = fetched
          BY <1>3, <1>a, <2>3, <3>2 DEF FetchPage, SyncTypeOK
        <4>2. (n + 1 - 1) * PageSize = n * PageSize /\ pl # NoPlan
          BY <3>0, SyncAssumption
        <4>3. \A e \in steady'[r] : e[1] = paging'[r].plan =>
                \A i \in 1 .. Len(on'[e[1]]) :
                  on'[e[1]][i] = e[2] /\ i <= (paging'[r].page - 1) * PageSize => e[2] \in paging'[r].got
          <5> HIDE DEF got, n, SteadyFetched
          <5> QED
            BY <2>1, <3>0, <3>1, <4>1, <4>2
        <4> QED
          BY <1>a, <2>1, <3>0, <4>1, <4>2, <4>3
      <3>3. CASE ~HasNext(pl, n)
        <4>1. /\ paging'[r] = NotPaging /\ left'[r] = left[r] \ {pl}
              /\ fetched'[r] = Merged(fetched[r], got, pl)
          BY <1>3, <1>a, <2>3, <3>3 DEF FetchPage, PlanDone, SyncTypeOK
        <4>2. fetched[r] \in [Urls -> Types] /\ got \in SUBSET Urls
          BY <1>a, <2>3 DEF SyncTypeOK, Page
        <4>3. \A u \in Urls : /\ fetched[r][u] # "none" => fetched'[r][u] # "none"
                              /\ u \in got => fetched'[r][u] # "none"
          <5> HIDE DEF got, SteadyFetched
          <5> QED
            BY <4>1, <4>2, MergedKeeps
        <4>4. ASSUME NEW e \in steady[r], e[1] = pl PROVE e[2] \in got
          <5>1. e \in Entries
            BY <1>a
          <5>2. PICK i \in 1 .. Len(on[pl]) : on[pl][i] = e[2]
            BY <4>4, <5>1 DEF Entries, Contains
          <5>3. Listing(pl) = on[pl]
            BY <4>4, <5>1 DEF Entries, Direct, Listing
          <5>4. n * PageSize \in Int /\ ~(n * PageSize < Len(on[pl]))
            BY <3>0, <3>3, <5>3 DEF HasNext
          <5>5. i <= n * PageSize
            BY <3>0, <5>4
          <5> QED
            BY <3>1, <4>4, <5>2, <5>5
        <4>5. ASSUME NEW e \in steady[r], e[1] \in left[r] \/ fetched[r][e[2]] # "none"
              PROVE  e[1] \in left'[r] \/ fetched'[r][e[2]] # "none"
          <5>1. e[2] \in Urls
            BY <1>a DEF Entries
          <5>2. CASE e[1] = pl
            BY <4>3, <4>4, <5>1, <5>2
          <5>3. CASE e[1] # pl
            BY <4>1, <4>3, <4>5, <5>1, <5>3
          <5> QED
            BY <5>2, <5>3
        <4>6. \A e \in steady[r] : e[1] # NoPlan
          BY <1>a, SyncAssumption DEF Entries, Direct
        <4> HIDE DEF got, n
        <4> QED
          BY <1>a, <2>1, <3>0, <4>1, <4>5, <4>6 DEF NotPaging
      <3> QED
        BY <3>2, <3>3
    <2> QED
      BY <2>2, <2>3
  <1>c. \A e \in steady[r] : e[1] # NoPlan
    BY <1>a, SyncAssumption DEF Entries, Direct
  <1>4. ASSUME NEW s \in Syncs, NEW pl \in Plans, PlanFails(s, pl) PROVE SteadyFetched(r)'
    <2>1. /\ Entries' = Entries /\ on' = on /\ at' = at /\ steady' = steady /\ fetched' = fetched
          /\ at[s] = "fetching"
      BY <1>4 DEF PlanFails, Fetching, Entries, Direct
    <2>2. CASE r = s
      <3>1. skipped'[r] /\ paging'[r] = NotPaging
        BY <1>4, <1>a, <2>2 DEF PlanFails, PlanDone, SyncTypeOK
      <3> QED
        BY <1>a, <1>c, <2>1, <2>2, <3>1 DEF NotPaging
    <2>3. CASE r # s
      <3>1. left'[r] = left[r] /\ paging'[r] = paging[r] /\ skipped'[r] = skipped[r]
        BY <1>4, <1>a, <2>3 DEF PlanFails, PlanDone, SyncTypeOK
      <3> QED
        BY <1>a, <2>1, <3>1
    <2> QED
      BY <2>2, <2>3
  <1>5. ASSUME NEW s \in Syncs, ReadTable(s) PROVE SteadyFetched(r)'
    BY <1>5, <1>a DEF ReadTable, Entries, Direct, SyncTypeOK
  <1>6. ASSUME NEW s \in Syncs, PoolConflict(s) \/ SyncFails(s) \/ Reconcile(s)
        PROVE  SteadyFetched(r)'
    <2>1. Ends(s) /\ on' = on
      BY <1>6 DEF PoolConflict, SyncFails, Reconcile
    <2>2. CASE r = s
      <3>1. steady'[r] = {} /\ at'[r] = "idle" /\ paging'[r] = NotPaging
        BY <2>1, <2>2, <1>a DEF Ends, SyncTypeOK
      <3> QED
        BY <3>1 DEF NotPaging
    <2>3. CASE r # s
      <3>1. /\ steady'[r] = steady[r] /\ at'[r] = at[r] /\ paging'[r] = paging[r] /\ left'[r] = left[r]
            /\ fetched'[r] = fetched[r] /\ skipped'[r] = skipped[r]
        BY <2>1, <2>3, <1>a DEF Ends, SyncTypeOK
      <3> QED
        BY <1>a, <2>1, <3>1 DEF Entries, Direct
    <2> QED
      BY <2>2, <2>3
  <1>7. ASSUME NEW pl \in Direct, NEW us \in Lists, ProviderChanges(pl, us) PROVE SteadyFetched(r)'
    <2>1. /\ steady'[r] = {e \in steady[r] \cap Entries' : e[1] = pl => paging[r].plan # pl}
          /\ UNCHANGED <<at, left, paging, fetched, skipped>>
      BY <1>7 DEF ProviderChanges
    <2>2. \A q \in Plans : q # pl => on'[q] = on[q]
      BY <1>7, <1>a DEF ProviderChanges, SyncTypeOK
    <2>3. ASSUME NEW e \in steady'[r], e[1] = paging'[r].plan
          PROVE  on'[e[1]] = on[e[1]]
      <3>1. e[1] # pl /\ e[1] \in Plans
        BY <1>a, <2>1, <2>3 DEF Entries, Direct
      <3> QED
        BY <2>2, <3>1
    <2> QED
      BY <1>a, <2>1, <2>3
  <1>8. CASE Imports \/ NewPools \/ NewRows \/ RequestComes
    <2>1. UNCHANGED <<on, at, left, paging, fetched, steady, skipped>>
      BY <1>8 DEF Imports, Import, NewPools, create_proxy_pool, NewRows, add_proxy_to_pool, RequestComes,
         syncVars
    <2> QED
      BY <1>a, <2>1 DEF Entries, Direct
  <1> QED
    BY <1>1, <1>2, <1>3, <1>4, <1>5, <1>6, <1>7, <1>8
       DEF SyncNext, SyncStep, Imports, NewPools, NewRows

LEMMA PagesStep ==
  ASSUME SyncInv, [SyncNext]_proxySyncVars, NEW r \in Syncs
  PROVE  BetweenPages(r)'
  <1>a. BetweenPages(r) /\ SyncTypeOK
    BY DEF SyncInv
  <1> USE DEF BetweenPages
  <1>1. ASSUME NEW s \in Syncs, NEW pl \in Plans, FetchPage(s, pl) \/ PlanFails(s, pl)
        PROVE  BetweenPages(r)'
    <2>1. Fetching(s, pl) /\ at' = at
      BY <1>1 DEF FetchPage, PlanFails
    <2>2. CASE r = s
      <3>1. \/ paging'[r] = NotPaging
            \/ paging'[r].plan = pl /\ left' = left
        BY <1>1, <1>a, <2>2 DEF FetchPage, PlanFails, PlanDone, SyncTypeOK
      <3> QED
        BY <2>1, <2>2, <3>1 DEF Fetching
    <2>3. CASE r # s
      <3>1. paging'[r] = paging[r] /\ left'[r] = left[r]
        BY <1>1, <1>a, <2>3 DEF FetchPage, PlanFails, PlanDone, SyncTypeOK
      <3> QED
        BY <1>a, <2>1, <3>1
    <2> QED
      BY <2>2, <2>3
  <1>2. ASSUME NEW s \in Syncs, ListPlans(s) \/ ReadTable(s) PROVE BetweenPages(r)'
    BY <1>2, <1>a DEF ListPlans, ReadTable, SyncTypeOK
  <1>3. ASSUME NEW s \in Syncs, PoolConflict(s) \/ SyncFails(s) \/ Reconcile(s) PROVE BetweenPages(r)'
    <2>1. Ends(s)
      BY <1>3 DEF PoolConflict, SyncFails, Reconcile
    <2> QED
      BY <2>1, <1>a DEF Ends, SyncTypeOK
  <1>4. CASE \/ UNCHANGED proxySyncVars \/ RequestComes \/ Imports \/ NewPools \/ NewRows
             \/ \E pl \in Direct, us \in Lists : ProviderChanges(pl, us)
    <2>1. UNCHANGED <<at, left, paging>>
      BY <1>4 DEF proxySyncVars, RequestComes, Imports, Import, NewPools, create_proxy_pool, NewRows,
         add_proxy_to_pool, ProviderChanges, syncVars
    <2> QED
      BY <1>a, <2>1
  <1> QED
    BY <1>1, <1>2, <1>3, <1>4 DEF SyncNext, SyncStep, Imports, NewPools, NewRows

\* The invariant holds in every reachable state.
THEOREM SyncInvariance ==
  SyncSpec => []SyncInv
  <1>1. SyncInit => SyncInv
    BY InitSyncInv
  <1>2. SyncInv /\ [SyncNext]_proxySyncVars => SyncInv'
    BY PoolsStep, SyncTypeStep, RowsStep, ReadsStep, SteadyStep, PagesStep DEF SyncInv
  <1> QED
    BY <1>1, <1>2, PTL DEF SyncSpec

\* Table, pools, events and the locals of every sync keep their types; no pool is created twice.
THEOREM SyncTypeCorrect ==
  SyncSpec => []SyncTypeOK
  <1>1. SyncInv => SyncTypeOK
    BY DEF SyncInv
  <1> QED
    BY <1>1, SyncInvariance, PTL

\* ProxySyncService: the last event of a proxy tells whether it is switched off, however many
\* syncs overlap and fail and whatever the provider and an import change meanwhile.
THEOREM EventsTellTheState ==
  SyncSpec => []EventTellsState
  <1>1. SyncInv => EventTellsState
    BY DEF SyncInv
  <1> QED
    BY <1>1, SyncInvariance, PTL

\* ProxySyncService: a sync that nobody overtook leaves exactly what it fetched active, typed and in
\* one pool; no sync switches off a proxy that a plan had all the time, unless a plan failed or that
\* plan changed between two of its pages.
THEOREM EverySyncIsFaithful ==
  SyncSpec => SyncsAreFaithful
  <1>1. ASSUME SyncInv, NEW s \in Syncs, Reconcile(s), ~stale[s] PROVE WritesExactly(s)
    <2>1. PICK p : Written(s, p)
      BY <1>1 DEF Reconcile
    <2>2. \A u \in Urls : read[s][u] = table[u].state
      BY <1>1 DEF SyncInv, ReadsFresh, Reconcile
    <2>3. \A u \in Urls : table[u].state \in States
      BY <1>1 DEF SyncInv, SyncTypeOK
    <2>4. \A u \in Fetched(s) : /\ u \in Urls /\ table'[u].state = "active"
                                     /\ table'[u].type = fetched[s][u] /\ table'[u].pool = p
      BY <2>1, <2>2, <2>3 DEF Written, UpsertedState, activated_urls, States, Fetched
    <2>5. \A u \in Urls \ Fetched(s) : table'[u].state # "active"
      BY <1>1, <2>1, <2>2 DEF Written, deactivated_urls, SyncInv, SyncTypeOK
    <2>6. {table'[u].pool : u \in Fetched(s)} \subseteq {p}
      BY <2>4
    <2>7. Cardinality({table'[u].pool : u \in Fetched(s)}) <= 1
      <3>1. IsFiniteSet({p}) /\ Cardinality({p}) = 1
        BY FS_Singleton
      <3> QED
        BY <2>6, <3>1, FS_Subset
    <2> QED
      BY <2>4, <2>5, <2>7 DEF WritesExactly
  <1>2. ASSUME SyncInv, NEW s \in Syncs, Reconcile(s) PROVE SwitchesOffWithCause(s)
    <2>1. PICK p : Written(s, p)
      BY <1>2 DEF Reconcile
    <2> SUFFICES ASSUME NEW u \in Urls, table[u].state = "active", table'[u].state = "inactive", ~skipped[s]
                 PROVE  \A e \in steady[s] : e[2] # u
      BY DEF SwitchesOffWithCause
    <2>2. u \notin Fetched(s)
      BY <2>1 DEF Written, UpsertedState
    <2>3. left[s] = {} /\ \A e \in steady[s] : e[1] \in left[s] \/ fetched[s][e[2]] # "none"
      BY <1>2 DEF SyncInv, SteadyFetched, Reconcile
    <2> QED
      BY <2>2, <2>3 DEF Fetched
  <1>3. SyncInv => [\A s \in Syncs : Reconcile(s) => 
                      (~stale[s] => WritesExactly(s)) /\ SwitchesOffWithCause(s)]_proxySyncVars
    BY <1>1, <1>2
  <1> QED
    BY <1>3, SyncInvariance, PTL DEF SyncsAreFaithful

-----------------------------------------------------------------------------
(***************************************************************************)
(* The circuit breaker.                                                    *)
(*                                                                         *)
(* The two lifetime statements are inductive together with the types: only *)
(* SET and the first INCR make a key that does not expire, and they leave  *)
(* their process at the EXPIRE that follows; a process leaves that point   *)
(* by the EXPIRE itself or by an interruption, which is counted.           *)
(***************************************************************************)
\* The inductive invariant.
BreakerInv == BreakerTypeOK /\ OpenHasLifetime /\ CounterHasLifetime

\* What the proofs use of the two durations.
LEMMA Durations == Life \in Nat /\ Life >= 2 /\ Never = Life + 1
BY BreakerAssumption DEF Life, Never

LEMMA InitBreakerInv == BreakerInit => BreakerInv
<1> SUFFICES ASSUME BreakerInit PROVE BreakerInv
  OBVIOUS
<1>1. /\ cnt \in 0 .. Threshold
      /\ cntTtl \in 0 .. Never /\ cntTtl # Never
      /\ openTtl \in 0 .. Never /\ openTtl # Never
      /\ breaks \in 0 .. MaxFaults
      /\ cnt = 0 <=> cntTtl = 0
  BY BreakerAssumption, Durations DEF BreakerInit
<1>2. open \in BOOLEAN /\ (open <=> openTtl # 0)
  BY Zenon DEF BreakerInit
<1>3. /\ next \in [Procs -> Points]
      /\ tripped \in [Procs -> BOOLEAN]
  BY DEF BreakerInit, Points
<1> QED
  BY <1>1, <1>2, <1>3 DEF BreakerInv, BreakerTypeOK, OpenHasLifetime, CounterHasLifetime

\* Every command keeps the variables in their types, and a key absent exactly when it
\* has no life left.
LEMMA BreakerTypeStep == BreakerTypeOK /\ [BreakerNext]_breakerVars => BreakerTypeOK'
<1> SUFFICES ASSUME BreakerTypeOK, [BreakerNext]_breakerVars PROVE BreakerTypeOK'
  OBVIOUS
<1> USE BreakerAssumption, Durations DEF BreakerTypeOK, Points, Failing, Resetting, Step
<1>1. CASE UNCHANGED breakerVars
  BY <1>1 DEF breakerVars, keys
<1>2. ASSUME NEW w \in Procs, CircuitClosed(w) PROVE BreakerTypeOK'
  BY <1>2 DEF CircuitClosed, keys
<1>3. ASSUME NEW w \in Procs, CircuitUnknown(w) PROVE BreakerTypeOK'
  BY <1>3 DEF CircuitUnknown, Fault, keys
<1>4. ASSUME NEW w \in Procs, NoReport(w) PROVE BreakerTypeOK'
  BY <1>4 DEF NoReport, keys
<1>5. ASSUME NEW w \in Procs, Incr(w) PROVE BreakerTypeOK'
  BY <1>5 DEF Incr
<1>6. ASSUME NEW w \in Procs, ExpireCount(w) PROVE BreakerTypeOK'
  BY <1>6 DEF ExpireCount
<1>7. ASSUME NEW w \in Procs, GetState(w) PROVE BreakerTypeOK'
  BY <1>7 DEF GetState, keys
<1>8. ASSUME NEW w \in Procs, SetState(w) PROVE BreakerTypeOK'
  BY <1>8 DEF SetState
<1>9. ASSUME NEW w \in Procs, ExpireState(w) PROVE BreakerTypeOK'
  <2>1. open' \in BOOLEAN /\ (open' <=> openTtl' # 0)
    BY <1>9 DEF ExpireState
  <2> QED
    BY <1>9, <2>1 DEF ExpireState
<1>10. ASSUME NEW w \in Procs, ResetGet(w) PROVE BreakerTypeOK'
  BY <1>10 DEF ResetGet, keys
<1>11. ASSUME NEW w \in Procs, DelCount(w) PROVE BreakerTypeOK'
  BY <1>11 DEF DelCount
<1>12. ASSUME NEW w \in Procs, DelState(w) PROVE BreakerTypeOK'
  <2>1. open' \in BOOLEAN /\ (open' <=> openTtl' # 0)
    BY <1>12, Zenon DEF DelState
  <2> QED
    BY <1>12, <2>1 DEF DelState
<1>13. ASSUME NEW w \in Procs, Interrupted(w) PROVE BreakerTypeOK'
  BY <1>13 DEF Interrupted, Fault, keys
<1>14. ASSUME NEW w \in Procs, HealthReport(w) PROVE BreakerTypeOK'
  BY <1>14 DEF HealthReport, keys
<1>15. CASE BreakerTick
  <2>1. /\ cntTtl' \in 0 .. Never
        /\ cnt' \in 0 .. Threshold
        /\ cnt' = 0 <=> cntTtl' = 0
    BY <1>15 DEF BreakerTick, Aged
  <2>2. openTtl' \in 0 .. Never /\ (openTtl = 0 => openTtl' = 0)
    BY <1>15 DEF BreakerTick, Aged
  <2>3. open' \in BOOLEAN /\ (open' <=> openTtl' # 0)
    <3>1. open' = (open /\ openTtl' # 0)
      BY <1>15 DEF BreakerTick
    <3>2. open <=> openTtl # 0
      OBVIOUS
    <3> QED
      BY <2>2, <3>1, <3>2, Zenon
  <2> QED
    BY <1>15, <2>1, <2>2, <2>3 DEF BreakerTick
<1> QED
  BY <1>1, <1>2, <1>3, <1>4, <1>5, <1>6, <1>7, <1>8, <1>9, <1>10, <1>11, <1>12, <1>13,
     <1>14, <1>15 DEF BreakerNext, Fail, Reset

\* No command but an interruption takes the expiry of the state away for good.
LEMMA OpenStep == BreakerInv /\ [BreakerNext]_breakerVars => OpenHasLifetime'
<1> SUFFICES ASSUME BreakerInv, [BreakerNext]_breakerVars, breaks' = 0, openTtl' = Never
             PROVE  \E v \in Procs : next'[v] = "expireState"
  BY DEF OpenHasLifetime
<1> USE BreakerAssumption, Durations DEF BreakerInv, BreakerTypeOK, OpenHasLifetime, Step
<1>1. CASE UNCHANGED breakerVars
  BY <1>1 DEF breakerVars, keys
<1>2. ASSUME NEW w \in Procs,
             CircuitClosed(w) \/ HealthReport(w) \/ NoReport(w) \/ Incr(w) \/ ExpireCount(w) \/ GetState(w)
               \/ ResetGet(w) \/ DelCount(w)
      PROVE  \E v \in Procs : next'[v] = "expireState"
  BY <1>2 DEF CircuitClosed, HealthReport, NoReport, Incr, ExpireCount, GetState, ResetGet, DelCount, keys
<1>3. ASSUME NEW w \in Procs, SetState(w) PROVE \E v \in Procs : next'[v] = "expireState"
  BY <1>3 DEF SetState
<1>4. ASSUME NEW w \in Procs, ExpireState(w) \/ DelState(w) PROVE FALSE
  BY <1>4 DEF ExpireState, DelState
<1>5. ASSUME NEW w \in Procs, CircuitUnknown(w) \/ Interrupted(w) PROVE FALSE
  BY <1>5 DEF CircuitUnknown, Interrupted, Fault
<1>6. CASE BreakerTick
  BY <1>6 DEF BreakerTick, Aged
<1> QED
  BY <1>1, <1>2, <1>3, <1>4, <1>5, <1>6 DEF BreakerNext, Fail, Reset

\* The same for the counter.
LEMMA CounterStep == BreakerInv /\ [BreakerNext]_breakerVars => CounterHasLifetime'
<1> SUFFICES ASSUME BreakerInv, [BreakerNext]_breakerVars, breaks' = 0, cntTtl' = Never
             PROVE  \E v \in Procs : next'[v] = "expireCount"
  BY DEF CounterHasLifetime
<1> USE BreakerAssumption, Durations DEF BreakerInv, BreakerTypeOK, CounterHasLifetime, Step
<1>1. CASE UNCHANGED breakerVars
  BY <1>1 DEF breakerVars, keys
<1>2. ASSUME NEW w \in Procs,
             CircuitClosed(w) \/ HealthReport(w) \/ NoReport(w) \/ GetState(w) \/ SetState(w)
               \/ ExpireState(w) \/ ResetGet(w) \/ DelState(w)
      PROVE  \E v \in Procs : next'[v] = "expireCount"
  BY <1>2 DEF CircuitClosed, HealthReport, NoReport, GetState, SetState, ExpireState, ResetGet, DelState, keys
<1>3. ASSUME NEW w \in Procs, Incr(w) PROVE \E v \in Procs : next'[v] = "expireCount"
  BY <1>3 DEF Incr
<1>4. ASSUME NEW w \in Procs, ExpireCount(w) \/ DelCount(w) PROVE FALSE
  BY <1>4 DEF ExpireCount, DelCount
<1>5. ASSUME NEW w \in Procs, CircuitUnknown(w) \/ Interrupted(w) PROVE FALSE
  BY <1>5 DEF CircuitUnknown, Interrupted, Fault
<1>6. CASE BreakerTick
  BY <1>6 DEF BreakerTick, Aged
<1> QED
  BY <1>1, <1>2, <1>3, <1>4, <1>5, <1>6 DEF BreakerNext, Fail, Reset

\* The invariant holds of every reachable state.
THEOREM BreakerInvariance == BreakerSpec => []BreakerInv
<1>1. BreakerInit => BreakerInv
  BY InitBreakerInv
<1>2. BreakerInv /\ [BreakerNext]_breakerVars => BreakerInv'
  BY BreakerTypeStep, OpenStep, CounterStep DEF BreakerInv
<1> QED
  BY <1>1, <1>2, PTL DEF BreakerSpec

\* The breaker's keys and bookkeeping keep their types.
THEOREM BreakerTypeCorrect == BreakerSpec => []BreakerTypeOK
<1>1. BreakerInv => BreakerTypeOK
  BY DEF BreakerInv
<1> QED
  BY <1>1, BreakerInvariance, PTL

\* Without interruptions an open state always has, or is about to get, its expiry.
THEOREM StateExpires == BreakerSpec => []OpenHasLifetime
<1>1. BreakerInv => OpenHasLifetime
  BY DEF BreakerInv
<1> QED
  BY <1>1, BreakerInvariance, PTL

\* Without interruptions the failure counter always has, or is about to get, its expiry.
THEOREM CounterExpires == BreakerSpec => []CounterHasLifetime
<1>1. BreakerInv => CounterHasLifetime
  BY DEF BreakerInv
<1> QED
  BY <1>1, BreakerInvariance, PTL

\* Both keys at once, as the run of CircuitBreaker checks it: unless a process was
\* interrupted between its two commands, no interleaving of reports and resets leaves the
\* state or the counter of the breaker in Redis without a lifetime.
THEOREM KeysExpire == BreakerSpec => []KeysHaveLifetime
<1>1. OpenHasLifetime /\ CounterHasLifetime => KeysHaveLifetime
  BY DEF KeysHaveLifetime
<1> QED
  BY <1>1, StateExpires, CounterExpires, PTL
=============================================================================
