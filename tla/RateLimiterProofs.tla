------------------------- MODULE RateLimiterProofs -------------------------
(***************************************************************************)
(* The guaranteed window of the rate limiter, for any number of requests   *)
(* and sorted sets, any windows and limits, any clock skew and any delay.  *)
(*                                                                         *)
(* WindowHolds speaks of the past only, so it is not inductive.  What      *)
(* carries it is that a member that was charged recently is still in its   *)
(* sorted set: its score is at most Skew + MaxDelay behind the time it was *)
(* charged, a script cuts at most Skew ahead of true time, and the set     *)
(* expires a whole window after its last charge.                           *)
(***************************************************************************)
EXTENDS RateLimiter, FiniteSetTheorems, WellFoundedInduction, TLAPS

\* A check that waits for its script took a time close to the true one, not long ago.
Timely ==
  \A p \in pending : /\ p.at <= now /\ now <= p.at + MaxDelay
                     /\ p.at - Skew <= p.stamp /\ p.stamp <= p.at + Skew

\* A charge carries a recent score, and its set lives a window longer.
Recorded ==
  \A x \in charged : /\ x.at <= now
                     /\ x.member.score >= x.at - MaxDelay - Skew
                     /\ expireAt[x.key] >= x.at + Window[x.key]

\* A member that was charged within the guaranteed window is still counted.
Remembered ==
  \A x \in charged : x.at > now - Guaranteed(x.key) => x.member \in zset[x.key]

SetsFinite == \A k \in Keys : IsFiniteSet(zset[k])

\* The inductive invariant, without the property it is for.
Counted == TypeOK /\ Timely /\ Recorded /\ Remembered /\ SetsFinite

IInv == Counted /\ WindowHolds

\* The guaranteed window is shorter than the window.
LEMMA GuaranteedIsShorter ==
  \A k \in Keys : /\ Guaranteed(k) \in Int /\ Window[k] \in Nat /\ Limit[k] \in Nat
                  /\ Guaranteed(k) <= Window[k]
BY LimiterAssumption DEF Guaranteed

LEMMA InitIInv == Init => IInv
<1> SUFFICES ASSUME Init PROVE IInv
  OBVIOUS
<1>1. \A k \in Keys : zset[k] = {} /\ IsFiniteSet({}) /\ Cardinality({}) = 0
  BY FS_EmptySet DEF Init
<1>2. TypeOK
  <2>1. \A k \in Keys : Cardinality(zset[k]) <= Limit[k]
    BY <1>1, GuaranteedIsShorter
  <2>2. \A r \in Reqs : stage[r] <= Len(Plan[r])
    BY LimiterAssumption DEF Init
  <2> QED
    BY <2>1, <2>2, LimiterAssumption DEF Init, TypeOK
<1>3. Timely /\ Recorded /\ Remembered /\ WindowHolds
  BY DEF Init, Timely, Recorded, Remembered, WindowHolds
<1> QED
  BY <1>1, <1>2, <1>3 DEF IInv, Counted, SetsFinite

\* What the script leaves in a set is finite and no more than there was.
LEMMA LiveIsSmall ==
  ASSUME Counted, NEW k \in Keys, NEW c
  PROVE  /\ Live(k, c) \subseteq zset[k]
         /\ Live(k, c) \subseteq Member
         /\ IsFiniteSet(Live(k, c))
         /\ Cardinality(Live(k, c)) \in Nat
         /\ Cardinality(Live(k, c)) <= Limit[k]
<1>1. Live(k, c) \subseteq zset[k] /\ IsFiniteSet(zset[k]) /\ zset[k] \subseteq Member
  BY DEF Counted, SetsFinite, TypeOK, Live
<1>2. /\ IsFiniteSet(Live(k, c))
      /\ Cardinality(Live(k, c)) <= Cardinality(zset[k])
  BY <1>1, FS_Subset
<1>3. Cardinality(Live(k, c)) \in Nat /\ Cardinality(zset[k]) \in Nat
  BY <1>1, <1>2, FS_CardinalityType
<1>4. Cardinality(zset[k]) <= Limit[k] /\ Limit[k] \in Nat
  BY GuaranteedIsShorter DEF Counted, TypeOK
<1> QED
  BY <1>1, <1>2, <1>3, <1>4

\* The script of a waiting check never cuts off a recent charge.
LEMMA LiveKeepsRecent ==
  ASSUME Counted, NEW p \in pending, NEW x \in charged, x.key = p.key,
         x.at > now - Guaranteed(x.key)
  PROVE  x.member \in Live(p.key, p.stamp)
<1>1. x.member \in zset[p.key]
  BY DEF Counted, Remembered
<1>2. /\ p.stamp \in Int /\ p.at \in Nat /\ x.at \in Nat /\ x.member.score \in Int
      /\ p.key \in Keys /\ now \in Nat
  BY DEF Counted, TypeOK, Member
<1>3. p.stamp <= now + Skew
  BY <1>2, LimiterAssumption DEF Counted, Timely
<1>4. x.member.score >= x.at - MaxDelay - Skew
  BY DEF Counted, Recorded
<1>5. x.at > now - (Window[p.key] - 2 * Skew - MaxDelay)
  BY DEF Guaranteed
<1>6. Window[p.key] \in Int /\ Skew \in Int /\ MaxDelay \in Int
  BY <1>2, LimiterAssumption
<1>7. x.member.score > p.stamp - Window[p.key]
  <2> DEFINE s == x.member.score
             w == Window[p.key]
  <2>1. /\ s \in Int /\ w \in Int /\ p.stamp \in Int /\ x.at \in Int /\ now \in Int
        /\ s >= x.at - MaxDelay - Skew
        /\ x.at > now - (w - 2 * Skew - MaxDelay)
    BY <1>2, <1>4, <1>5, <1>6
  <2> HIDE DEF s, w
  <2>2. s > p.stamp - w
    BY <1>3, <1>6, <2>1
  <2> QED
    BY <2>2 DEF s, w
<1> QED
  BY <1>1, <1>7 DEF Live

\* What the three histories and the sets need of a step.
SetsOK == /\ zset \in [Keys -> SUBSET Member]
          /\ \A k \in Keys : Cardinality(zset[k]) <= Limit[k]
          /\ expireAt \in [Keys -> Nat]
          /\ charged \subseteq [key : Keys, at : Nat, member : Member]
          /\ Recorded /\ Remembered /\ SetsFinite

\* A script that lets its request in.
LEMMA ChargeStep ==
  ASSUME Counted, NEW p \in pending, HasRoom(p.key, p.stamp), Charge(p.key, p.stamp),
         now' = now
  PROVE  SetsOK'
<1>1. PICK rand \in Rands :
        LET m == [score |-> p.stamp, rand |-> rand] IN
        /\ zset' = [zset EXCEPT ![p.key] = Live(p.key, p.stamp) \cup {m}]
        /\ expireAt' = [expireAt EXCEPT ![p.key] = now + Window[p.key] + ExpirySlack]
        /\ charged' = charged \cup {[key |-> p.key, at |-> now, member |-> m]}
  BY DEF Charge
<1> DEFINE m == [score |-> p.stamp, rand |-> rand]
           L == Live(p.key, p.stamp)
           new == [key |-> p.key, at |-> now, member |-> m]
<1>2. /\ zset' = [zset EXCEPT ![p.key] = L \cup {m}]
      /\ expireAt' = [expireAt EXCEPT ![p.key] = now + Window[p.key] + ExpirySlack]
      /\ charged' = charged \cup {new}
  BY <1>1
<1>3. p.key \in Keys /\ p.stamp \in Int /\ p.at \in Nat /\ now \in Nat
  BY DEF Counted, TypeOK
<1>4. m \in Member /\ m.score = p.stamp
  BY <1>3 DEF Member
<1>5. /\ L \subseteq Member /\ IsFiniteSet(L) /\ Cardinality(L) \in Nat
      /\ Cardinality(L) + 1 <= Limit[p.key]
  BY <1>3, LiveIsSmall DEF HasRoom
<1>6. IsFiniteSet(L \cup {m}) /\ Cardinality(L \cup {m}) <= Limit[p.key]
  <2>1. Limit[p.key] \in Nat
    BY <1>3, GuaranteedIsShorter
  <2>2. /\ IsFiniteSet(L \cup {m})
        /\ Cardinality(L \cup {m}) = IF m \in L THEN Cardinality(L) ELSE Cardinality(L) + 1
    BY <1>5, FS_AddElement
  <2> QED
    BY <1>5, <2>1, <2>2
<1>7. zset \in [Keys -> SUBSET Member] /\ expireAt \in [Keys -> Nat]
  BY DEF Counted, TypeOK
<1>8. zset'[p.key] = L \cup {m} /\ \A k \in Keys \ {p.key} : zset'[k] = zset[k]
  BY <1>2, <1>3, <1>7
<1> HIDE DEF m, L
<1>9. /\ zset' \in [Keys -> SUBSET Member]
      /\ \A k \in Keys : Cardinality(zset'[k]) <= Limit[k]
      /\ SetsFinite'
  BY <1>2, <1>3, <1>4, <1>5, <1>6, <1>7, <1>8 DEF Counted, TypeOK, SetsFinite
<1>10. /\ expireAt' \in [Keys -> Nat]
       /\ expireAt'[p.key] = now + Window[p.key] + ExpirySlack
       /\ \A k \in Keys \ {p.key} : expireAt'[k] = expireAt[k]
  <2>1. now + Window[p.key] + ExpirySlack \in Nat
    BY <1>3, LimiterAssumption
  <2> QED
    BY <1>2, <1>3, <1>7, <2>1
<1>11. charged' \subseteq [key : Keys, at : Nat, member : Member]
  BY <1>2, <1>3, <1>4 DEF Counted, TypeOK
<1>12. ASSUME NEW x \in charged'
       PROVE  /\ x.at <= now
              /\ x.member.score >= x.at - MaxDelay - Skew
              /\ expireAt'[x.key] >= x.at + Window[x.key]
              /\ x.at > now - Guaranteed(x.key) => x.member \in zset'[x.key]
  <2>1. CASE x = new
    <3>1. x.at = now /\ x.member = m /\ x.key = p.key
      BY <2>1
    <3>2. m.score >= now - MaxDelay - Skew
      BY <1>3, <1>4, LimiterAssumption DEF Counted, Timely
    <3>3. now + Window[p.key] + ExpirySlack >= now + Window[p.key]
      BY <1>3, LimiterAssumption
    <3> QED
      BY <1>3, <1>8, <1>10, <3>1, <3>2, <3>3
  <2>2. CASE x \in charged
    <3>1. /\ x.at <= now
          /\ x.member.score >= x.at - MaxDelay - Skew
          /\ expireAt[x.key] >= x.at + Window[x.key]
          /\ x.key \in Keys /\ x.at \in Nat
      BY <2>2 DEF Counted, Recorded, TypeOK
    <3>2. expireAt'[x.key] >= x.at + Window[x.key]
      <4>1. Window[x.key] \in Nat /\ ExpirySlack \in Nat
        BY <3>1, LimiterAssumption
      <4>2. CASE x.key = p.key
        <5>1. expireAt'[x.key] = now + Window[x.key] + ExpirySlack
          BY <1>10, <4>2
        <5> QED
          BY <1>3, <3>1, <4>1, <5>1
      <4>3. CASE x.key # p.key
        BY <1>10, <3>1, <4>3
      <4> QED
        BY <4>2, <4>3
    <3>3. ASSUME x.at > now - Guaranteed(x.key) PROVE x.member \in zset'[x.key]
      <4>1. CASE x.key = p.key
        BY <1>8, <2>2, <3>3, <4>1, LiveKeepsRecent DEF L
      <4>2. CASE x.key # p.key
        BY <1>8, <2>2, <3>1, <3>3, <4>2 DEF Counted, Remembered
      <4> QED
        BY <4>1, <4>2
    <3> QED
      BY <3>1, <3>2, <3>3
  <2> QED
    BY <1>2, <2>1, <2>2
<1>13. Recorded' /\ Remembered'
  BY <1>12 DEF Recorded, Remembered, Guaranteed
<1> QED
  BY <1>9, <1>10, <1>11, <1>13 DEF SetsOK

\* A script that denies its request only cuts its set.
LEMMA TrimStep ==
  ASSUME Counted, NEW p \in pending,
         zset' = [zset EXCEPT ![p.key] = Live(p.key, p.stamp)],
         UNCHANGED <<now, expireAt, charged>>
  PROVE  SetsOK'
<1> DEFINE L == Live(p.key, p.stamp)
<1>1. p.key \in Keys /\ zset \in [Keys -> SUBSET Member]
  BY DEF Counted, TypeOK
<1>2. L \subseteq Member /\ IsFiniteSet(L) /\ Cardinality(L) <= Limit[p.key]
  BY <1>1, LiveIsSmall
<1>3. zset'[p.key] = L /\ \A k \in Keys \ {p.key} : zset'[k] = zset[k]
  BY <1>1
<1> HIDE DEF L
<1>4. /\ zset' \in [Keys -> SUBSET Member]
      /\ \A k \in Keys : Cardinality(zset'[k]) <= Limit[k]
      /\ SetsFinite'
  BY <1>1, <1>2, <1>3 DEF Counted, TypeOK, SetsFinite, L
<1>5. Recorded'
  BY DEF Counted, Recorded
<1>6. Remembered'
  <2> SUFFICES ASSUME NEW x \in charged, x.at > now - Guaranteed(x.key)
               PROVE  x.member \in zset'[x.key]
    BY DEF Remembered, Guaranteed
  <2>1. CASE x.key = p.key
    BY <1>3, <2>1, LiveKeepsRecent DEF L
  <2>2. CASE x.key # p.key
    <3>1. x.key \in Keys
      BY DEF Counted, TypeOK
    <3> QED
      BY <1>3, <2>2, <3>1 DEF Counted, Remembered
  <2> QED
    BY <2>1, <2>2
<1> QED
  BY <1>4, <1>5, <1>6 DEF SetsOK, Counted, TypeOK

\* Time passes.  A set that expires holds no recent charge.
LEMMA TickStep == ASSUME Counted, Tick PROVE SetsOK' /\ Timely'
<1>1. /\ now \in Nat /\ now' = now + 1
      /\ zset' = [k \in Keys |-> IF expireAt[k] <= now' THEN {} ELSE zset[k]]
      /\ UNCHANGED <<expireAt, pending, charged>>
      /\ \A p \in pending : now - p.at < MaxDelay
  BY DEF Tick, Counted, TypeOK
<1>2. /\ zset' \in [Keys -> SUBSET Member]
      /\ \A k \in Keys : Cardinality(zset'[k]) <= Limit[k]
      /\ SetsFinite'
  <2>1. IsFiniteSet({}) /\ Cardinality({}) = 0
    BY FS_EmptySet
  <2>2. \A k \in Keys : zset'[k] = {} \/ zset'[k] = zset[k]
    BY <1>1
  <2>3. \A k \in Keys : zset'[k] \in SUBSET Member
    BY <2>2 DEF Counted, TypeOK
  <2>4. \A k \in Keys : Cardinality(zset'[k]) <= Limit[k] /\ IsFiniteSet(zset'[k])
    <3> TAKE k \in Keys
    <3>1. CASE zset'[k] = {}
      BY <2>1, <3>1, GuaranteedIsShorter
    <3>2. CASE zset'[k] = zset[k]
      BY <3>2 DEF Counted, TypeOK, SetsFinite
    <3> QED
      BY <2>2, <3>1, <3>2
  <2> QED
    BY <1>1, <2>3, <2>4 DEF SetsFinite
<1>3. ASSUME NEW x \in charged
      PROVE  /\ x.at <= now'
             /\ x.member.score >= x.at - MaxDelay - Skew
             /\ expireAt'[x.key] >= x.at + Window[x.key]
             /\ x.at > now' - Guaranteed(x.key) => x.member \in zset'[x.key]
  <2>1. /\ x.key \in Keys /\ x.at \in Nat /\ x.at <= now
        /\ x.member.score >= x.at - MaxDelay - Skew
        /\ expireAt[x.key] >= x.at + Window[x.key] /\ expireAt[x.key] \in Nat
    BY DEF Counted, Recorded, TypeOK
  <2>2. ASSUME x.at > now' - Guaranteed(x.key) PROVE x.member \in zset'[x.key]
    <3>1. /\ Guaranteed(x.key) \in Int /\ Window[x.key] \in Nat
          /\ Guaranteed(x.key) <= Window[x.key]
      BY <2>1, GuaranteedIsShorter
    <3>2. x.at > now - Guaranteed(x.key)
      BY <1>1, <2>1, <2>2, <3>1
    <3>3. expireAt[x.key] > now'
      BY <1>1, <2>1, <2>2, <3>1
    <3>4. zset'[x.key] = zset[x.key]
      BY <1>1, <2>1, <3>3
    <3> QED
      BY <3>2, <3>4 DEF Counted, Remembered
  <2> QED
    BY <1>1, <2>1, <2>2
<1>4. Recorded' /\ Remembered'
  BY <1>1, <1>3 DEF Recorded, Remembered, Guaranteed
<1>5. Timely'
  <2> SUFFICES ASSUME NEW p \in pending
               PROVE  /\ p.at <= now' /\ now' <= p.at + MaxDelay
                      /\ p.at - Skew <= p.stamp /\ p.stamp <= p.at + Skew
    BY <1>1 DEF Timely
  <2>1. p.at \in Nat /\ p.at <= now /\ p.at - Skew <= p.stamp /\ p.stamp <= p.at + Skew
    BY DEF Counted, Timely, TypeOK
  <2> QED
    BY <1>1, <2>1, LimiterAssumption
<1> QED
  BY <1>1, <1>2, <1>4, <1>5 DEF SetsOK, Counted, TypeOK

\* Every step keeps what is counted.
LEMMA CountedStep == Counted /\ [Next]_vars => Counted'
<1> SUFFICES ASSUME Counted, [Next]_vars PROVE Counted'
  OBVIOUS
<1>1. ASSUME SetsOK', Timely', now' \in 0 .. MaxTime,
             stage' \in [Reqs -> Nat], \A r \in Reqs : stage'[r] <= Len(Plan[r]),
             pending' \subseteq [req : Reqs, key : Keys, stamp : Int, at : Nat],
             denied' \subseteq Reqs, outages' \in 0 .. MaxOutages
      PROVE  Counted'
  BY <1>1 DEF SetsOK, Counted, TypeOK
<1>2. ASSUME UNCHANGED <<now, zset, expireAt, charged>> PROVE SetsOK'
  BY <1>2 DEF SetsOK, Counted, TypeOK, Recorded, Remembered, Guaranteed, SetsFinite
<1>3. ASSUME NEW p \in pending, now' = now, pending' = pending \ {p} PROVE Timely'
  BY <1>3 DEF Counted, Timely
<1>4. CASE UNCHANGED vars
  BY <1>4 DEF vars, Counted, TypeOK, Timely, Recorded, Remembered, Guaranteed, SetsFinite
<1>5. ASSUME NEW r \in Reqs, NextStage(r) PROVE Counted'
  <2>1. /\ UNCHANGED <<now, zset, expireAt, charged>>
        /\ denied' = denied /\ outages' = outages
        /\ stage' = [stage EXCEPT ![r] = @ + 1] /\ stage[r] < Len(Plan[r])
    BY <1>5 DEF NextStage
  <2>2. Plan[r] \in Seq(SUBSET Keys) /\ stage[r] \in Nat /\ Len(Plan[r]) \in Nat
    BY LimiterAssumption DEF Counted, TypeOK
  <2>3. Plan[r][stage[r] + 1] \subseteq Keys
    BY <2>1, <2>2
  <2>4. PICK c \in now - Skew .. now + Skew :
          pending' = pending \cup
            {[req |-> r, key |-> k, stamp |-> c, at |-> now] : k \in Plan[r][stage[r] + 1]}
    BY <1>5 DEF NextStage
  <2>5. now \in Nat /\ c \in Int /\ now - Skew <= c /\ c <= now + Skew
    BY LimiterAssumption DEF Counted, TypeOK
  <2>6. pending' \subseteq [req : Reqs, key : Keys, stamp : Int, at : Nat]
    BY <2>3, <2>4, <2>5 DEF Counted, TypeOK
  <2>7. Timely'
    BY <2>1, <2>4, <2>5, LimiterAssumption DEF Counted, Timely
  <2>8. stage' \in [Reqs -> Nat] /\ \A q \in Reqs : stage'[q] <= Len(Plan[q])
    BY <2>1, <2>2 DEF Counted, TypeOK
  <2> QED
    BY <1>1, <1>2, <2>1, <2>6, <2>7, <2>8 DEF Counted, TypeOK
<1>6. ASSUME NEW p \in pending, Allow(p) PROVE Counted'
  <2>1. SetsOK'
    BY <1>6, ChargeStep DEF Allow
  <2>2. Timely'
    BY <1>3, <1>6 DEF Allow
  <2> QED
    BY <1>1, <1>6, <2>1, <2>2 DEF Allow, Counted, TypeOK
<1>7. ASSUME NEW p \in pending, Deny(p) PROVE Counted'
  <2>1. SetsOK'
    BY <1>7, TrimStep DEF Deny
  <2>2. Timely'
    BY <1>3, <1>7 DEF Deny
  <2>3. p.req \in Reqs
    BY DEF Counted, TypeOK
  <2> QED
    BY <1>1, <1>7, <2>1, <2>2, <2>3 DEF Deny, Counted, TypeOK
<1>8. ASSUME NEW p \in pending, FailOpen(p) PROVE Counted'
  <2>1. SetsOK'
    <3>1. CASE HasRoom(p.key, p.stamp) /\ Charge(p.key, p.stamp)
      BY <1>8, <3>1, ChargeStep DEF FailOpen
    <3>2. CASE zset' = zset /\ UNCHANGED <<expireAt, charged>>
      BY <1>2, <1>8, <3>2 DEF FailOpen
    <3>3. CASE zset' = [zset EXCEPT ![p.key] = Live(p.key, p.stamp)] /\ UNCHANGED <<expireAt, charged>>
      BY <1>8, <3>3, TrimStep DEF FailOpen
    <3> QED
      BY <1>8, <3>1, <3>2, <3>3 DEF FailOpen
  <2>2. Timely'
    BY <1>3, <1>8 DEF FailOpen
  <2>3. outages' \in 0 .. MaxOutages
    BY <1>8, LimiterAssumption DEF FailOpen, Counted, TypeOK
  <2> QED
    BY <1>1, <1>8, <2>1, <2>2, <2>3 DEF FailOpen, Counted, TypeOK
<1>9. CASE Tick
  <2>1. SetsOK' /\ Timely'
    BY <1>9, TickStep
  <2>2. now' \in 0 .. MaxTime
    BY <1>9, LimiterAssumption DEF Tick, Counted, TypeOK
  <2> QED
    BY <1>1, <1>9, <2>1, <2>2 DEF Tick, Counted, TypeOK
<1> QED
  BY <1>4, <1>5, <1>6, <1>7, <1>8, <1>9 DEF Next

\* The charges of a set up to time t, as far back as the guaranteed window.
Recent(k, t) == {b.member : b \in {x \in charged : /\ x.key = k
                                                    /\ x.at <= t
                                                    /\ x.at > t - Guaranteed(k)}}

\* A step charges for the present only; the present is bounded by the set itself.
LEMMA WindowStep == IInv /\ [Next]_vars => WindowHolds'
<1> SUFFICES ASSUME IInv, [Next]_vars, NEW k \in Keys, NEW a \in charged'
             PROVE  Cardinality(Recent(k, a.at)') <= Limit[k]
  BY DEF WindowHolds, Recent, Guaranteed
<1>1. Counted'
  BY CountedStep DEF IInv
<1>2. \/ charged' = charged
      \/ /\ now' = now
         /\ \E x : charged' = charged \cup {x} /\ x.at = now
  <2>1. ASSUME NEW p \in pending, Charge(p.key, p.stamp)
        PROVE  \E x : charged' = charged \cup {x} /\ x.at = now
    <3>1. PICK rand \in Rands :
            charged' = charged \cup {[key |-> p.key, at |-> now,
                                      member |-> [score |-> p.stamp, rand |-> rand]]}
      BY <2>1 DEF Charge
    <3> WITNESS [key |-> p.key, at |-> now, member |-> [score |-> p.stamp, rand |-> rand]]
    <3> QED
      BY <3>1
  <2>2. ASSUME NEW p \in pending, Allow(p) \/ Deny(p) \/ FailOpen(p)
        PROVE  now' = now /\ (charged' = charged \/ Charge(p.key, p.stamp))
    BY <2>2 DEF Allow, Deny, FailOpen
  <2>3. ASSUME (\E r \in Reqs : NextStage(r)) \/ Tick \/ UNCHANGED vars PROVE charged' = charged
    BY <2>3 DEF NextStage, Tick, vars
  <2> QED
    BY <2>1, <2>2, <2>3 DEF Next
<1>3. a.at \in Nat /\ a.at <= now' /\ now' \in Nat
  BY <1>1 DEF Counted, Recorded, TypeOK
<1>4. CASE a.at = now'
  <2>1. Recent(k, a.at)' \subseteq zset'[k]
    BY <1>1, <1>4 DEF Recent, Counted, Remembered, Guaranteed
  <2>2. IsFiniteSet(zset'[k]) /\ Cardinality(zset'[k]) <= Limit[k]
    BY <1>1 DEF Counted, SetsFinite, TypeOK
  <2>3. /\ IsFiniteSet(Recent(k, a.at)')
        /\ Cardinality(Recent(k, a.at)') <= Cardinality(zset'[k])
    BY <2>1, <2>2, FS_Subset
  <2>4. Cardinality(Recent(k, a.at)') \in Nat /\ Cardinality(zset'[k]) \in Nat
    BY <2>2, <2>3, FS_CardinalityType
  <2> QED
    BY <2>2, <2>3, <2>4, GuaranteedIsShorter
<1>5. CASE a.at # now' \/ charged' = charged
  <2>1. a \in charged
    BY <1>2, <1>5
  <2>2. Recent(k, a.at)' = Recent(k, a.at)
    BY <1>2, <1>3, <1>5 DEF Recent, Guaranteed
  <2> QED
    BY <2>1, <2>2 DEF IInv, WindowHolds, Recent
<1> QED
  BY <1>4, <1>5

\* The invariant holds of every reachable state.
THEOREM LimiterInvariance == Spec => []IInv
<1>1. Init => IInv
  BY InitIInv
<1>2. IInv /\ [Next]_vars => IInv'
  BY CountedStep, WindowStep DEF IInv
<1> QED
  BY <1>1, <1>2, PTL DEF Spec

\* The limiter's state keeps its types, and no sorted set outgrows its limit.
THEOREM LimiterTypeCorrect == Spec => []TypeOK
<1>1. IInv => TypeOK
  BY DEF IInv, Counted
<1> QED
  BY <1>1, LimiterInvariance, PTL

\* No stretch of true time as long as the guaranteed window sees more members charged to
\* a set than its limit.
THEOREM GuaranteedWindow == Spec => []WindowHolds
<1>1. IInv => WindowHolds
  BY DEF IInv
<1> QED
  BY <1>1, LimiterInvariance, PTL

-----------------------------------------------------------------------------
\* A set of integers that is bounded below has a least element, and Min is that element.
LEMMA MinIsLeast ==
  ASSUME NEW S, S \subseteq Int, S # {}, NEW b \in Int, \A s \in S : s > b
  PROVE  Min(S) \in S /\ \A s \in S : Min(S) <= s
<1> DEFINE T == {n \in Nat : b + n \in S}
           R == OpToRel(<, Nat)
<1>1. \A s \in S : s \in Int /\ s - b \in Nat /\ b + (s - b) = s
  OBVIOUS
<1>2. T \subseteq Nat /\ T # {}
  BY <1>1
<1>3. IsWellFoundedOn(R, Nat)
  BY NatLessThanWellFounded
<1>4. PICK x \in T : \A y \in T : ~(<<y, x>> \in R)
  <2> HIDE DEF T, R
  <2> QED
    BY <1>2, <1>3, WFMin
<1>5. \A y \in T : x <= y
  <2>1. ASSUME NEW y \in T, y < x PROVE FALSE
    <3>1. <<y, x>> \in R
      BY <2>1 DEF OpToRel
    <3> QED
      BY <1>4, <2>1, <3>1
  <2>2. \A y \in T : y \in Nat /\ x \in Nat /\ ~(y < x)
    BY <2>1
  <2> QED
    BY <2>2
<1>6. x \in Nat /\ b + x \in S
  BY <1>2
<1>7. ASSUME NEW s \in S PROVE b + x <= s
  <2>1. s - b \in T
    BY <1>1
  <2>2. x <= s - b
    BY <1>5, <2>1
  <2> QED
    BY <1>1, <1>6, <2>2
<1> QED
  BY <1>6, <1>7 DEF Min

\* A denied client that comes back at the time it was told finds room, as long as nobody else
\* was charged: by then the oldest member that kept it out has left the window, and the set
\* never held more members than its limit (reset_at and Retry-After of LUA_SLIDING_WINDOW).
THEOREM RetryAfterSuffices == Spec => RetryAfterIsEnough
<1>1. ASSUME Counted, NEW p \in pending, Deny(p)
      PROVE  HasRoom(p.key, ResetAt(p.key, p.stamp))'
  <2>1. p.key \in Keys /\ p.stamp \in Int /\ zset \in [Keys -> SUBSET Member]
    BY <1>1 DEF Counted, TypeOK
  <2>2. PICK L : L = Live(p.key, p.stamp)
    OBVIOUS
  <2>3. zset'[p.key] = L
    BY <1>1, <2>1, <2>2 DEF Deny
  <2>4. Window[p.key] \in Nat /\ Limit[p.key] \in Nat /\ Limit[p.key] > 0
    BY <2>1, LimiterAssumption
  <2>5. /\ L \subseteq Member /\ IsFiniteSet(L) /\ Cardinality(L) \in Nat
        /\ Cardinality(L) <= Limit[p.key] /\ ~(Cardinality(L) + 1 <= Limit[p.key])
    BY <1>1, <2>1, <2>2, LiveIsSmall DEF Deny, HasRoom
  <2>6. L # {}
    BY <2>4, <2>5, FS_EmptySet
  <2>7. Live(p.key, p.stamp)' = L
    BY <2>2, <2>3 DEF Live
  <2>8. PICK S : S = {m.score : m \in L}
    OBVIOUS
  <2>9. Min(S) \in S /\ \A s \in S : Min(S) <= s
    <3>1. S \subseteq Int /\ S # {} /\ p.stamp - Window[p.key] \in Int
      BY <2>1, <2>4, <2>5, <2>6, <2>8 DEF Member
    <3>2. \A s \in S : s > p.stamp - Window[p.key]
      BY <2>2, <2>8 DEF Live
    <3> QED
      BY <3>1, <3>2, MinIsLeast
  <2>10. PICK c : c = Min(S) + Window[p.key]
    OBVIOUS
  <2>11. ResetAt(p.key, p.stamp)' = c
    BY <2>6, <2>7, <2>8, <2>10 DEF ResetAt
  <2>12. PICK oldest \in L : oldest.score = Min(S)
    BY <2>8, <2>9
  <2>13. PICK K : K = {m \in L : m.score > c - Window[p.key]}
    OBVIOUS
  <2>14. K \subseteq L \ {oldest}
    <3>1. oldest.score \in Int
      BY <2>5, <2>12 DEF Member
    <3> QED
      BY <2>4, <2>10, <2>12, <2>13, <3>1
  <2>15. IsFiniteSet(L \ {oldest}) /\ Cardinality(L \ {oldest}) = Cardinality(L) - 1
    BY <2>5, <2>12, FS_RemoveElement
  <2>16. IsFiniteSet(K) /\ Cardinality(K) <= Cardinality(L \ {oldest})
    BY <2>14, <2>15, FS_Subset
  <2>17. Cardinality(K) \in Nat
    BY <2>16, FS_CardinalityType
  <2>18. Cardinality(K) + 1 <= Limit[p.key]
    BY <2>4, <2>5, <2>15, <2>16, <2>17
  <2>19. Live(p.key, ResetAt(p.key, p.stamp))' = K
    BY <2>3, <2>11, <2>13 DEF Live
  <2> QED
    BY <2>18, <2>19 DEF HasRoom
<1>2. IInv /\ [Next]_vars => [\A p \in pending : Deny(p) => HasRoom(p.key, ResetAt(p.key, p.stamp))']_vars
  BY <1>1 DEF IInv
<1> QED
  BY <1>2, LimiterInvariance, PTL DEF Spec, RetryAfterIsEnough

=============================================================================
