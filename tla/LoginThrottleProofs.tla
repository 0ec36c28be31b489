------------------------ MODULE LoginThrottleProofs ------------------------
(***************************************************************************)
(* Proofs about the two throttles, for every setting of them.              *)
(*                                                                         *)
(* LoginThrottle, for every set of accounts, addresses and requests: the   *)
(* table is bounded, locks last, parallel requests overshoot a limit by no *)
(* more than their number, and a stretch of a window holds a bounded       *)
(* number of failures.                                                     *)
(*                                                                         *)
(* RepresentativeLookups, whose throttle is counted with the same sums     *)
(* over stretches of time: lookups are shared while they are of use, the   *)
(* least recently used makes room, no answer is older than ttlMs, and a    *)
(* stretch of a window lets a bounded number through.                      *)
(***************************************************************************)
EXTENDS LoginThrottle, RepresentativeLookups, FiniteSetTheorems, WellFoundedInduction, TLAPS

-----------------------------------------------------------------------------
(************************* The inductive invariant ***********************)

\* A bucket is locked when the failure that reached the limit was charged,
\* and not before; the lock outlasts the window.
LockedWell(b, k) ==
  /\ b.lockedUntil > 0 => b.count >= MaximumAttempts(k)
  /\ Lockout > Window /\ b.count >= Limit(k) => b.lockedUntil > b.first + Window

LocksKept == \A k \in Key : LockedWell(attempts[k], k)

IInv == TypeOK /\ LocksKept /\ WithinBuckets /\ OvershootBounded

Table == [Key -> Bucket]
-----------------------------------------------------------------------------
(************************ Keys, buckets and counts ***********************)

LEMMA Constants ==
  /\ AccountMax \in Nat \ {0} /\ IpMax \in Nat \ {0} /\ Window \in Nat \ {0}
  /\ Lockout \in Nat \ {0} /\ MaxBuckets \in Nat \ {0} /\ MaxTime \in Nat /\ MaxAttempts \in Nat
BY ThrottleAssumption

LEMMA TimesAreNat == Time \subseteq Nat /\ 0 \in Time
BY Constants DEF Time

LEMMA Limits ==
  ASSUME NEW k \in Key
  PROVE  /\ MaximumAttempts(k) \in Nat \ {0}
         /\ Limit(k) \in Nat /\ Limit(k) >= 2 /\ Limit(k) >= MaximumAttempts(k)
<1>1. MaximumAttempts(k) \in Nat \ {0}
  BY Constants DEF MaximumAttempts
<1> QED BY <1>1 DEF Limit

LEMMA KeysFinite == IsFiniteSet(Key) /\ IsFiniteSet(Request)
BY FS_Union, ThrottleAssumption DEF Key

LEMMA NoBucketIsOne == NoBucket \in Bucket /\ NoBucket.count = 0 /\ NoBucket.lockedUntil = 0
<1>1. 0 \in 0 .. MaxTime + Lockout
  BY Constants
<1> QED BY <1>1, TimesAreNat DEF NoBucket, Bucket

LEMMA BucketFields ==
  ASSUME NEW b \in Bucket
  PROVE  b.count \in Nat /\ b.first \in Time /\ b.first \in Nat /\ b.lockedUntil \in 0 .. MaxTime + Lockout
         /\ b.lockedUntil \in Nat
<1>1. b.count \in Nat /\ b.first \in Time /\ b.lockedUntil \in 0 .. MaxTime + Lockout
  BY DEF Bucket
<1>2. \A n \in 0 .. MaxTime + Lockout : n \in Nat
  BY Constants
<1> QED BY <1>1, <1>2, TimesAreNat

\* The buckets of a table are finitely many.
LEMMA BucketsCount ==
  ASSUME NEW table \in Table
  PROVE  IsFiniteSet(Buckets(table)) /\ Cardinality(Buckets(table)) \in Nat
<1>1. Buckets(table) \subseteq Key
  BY DEF Buckets
<1> QED BY <1>1, KeysFinite, FS_Subset, FS_CardinalityType

\* A table with fewer buckets stays within the bound.
LEMMA FewerBuckets ==
  ASSUME NEW old \in Table, NEW new \in Table, Buckets(new) \subseteq Buckets(old),
         Cardinality(Buckets(old)) <= MaxBuckets
  PROVE  Cardinality(Buckets(new)) <= MaxBuckets
<1>1. IsFiniteSet(Buckets(old)) /\ Cardinality(Buckets(old)) \in Nat /\ Cardinality(Buckets(new)) \in Nat
  BY BucketsCount
<1>2. Cardinality(Buckets(new)) <= Cardinality(Buckets(old))
  BY <1>1, FS_Subset
<1> QED BY <1>1, <1>2, Constants

LEMMA BucketSet ==
  ASSUME NEW b \in Bucket, NEW n \in Nat, NEW u \in 0 .. MaxTime + Lockout
  PROVE  LET c == [b EXCEPT !.count = n, !.lockedUntil = u] IN
         c \in Bucket /\ c.count = n /\ c.lockedUntil = u /\ c.first = b.first
BY DEF Bucket

\* What a failure makes of a bucket.
LEMMA Charged ==
  ASSUME TypeOK, NEW k \in Key, NEW b \in Bucket, LockedWell(b, k), b.count > 0 => b.first <= now
  PROVE  LET c == Charge(b, k) IN
         /\ c \in Bucket /\ c.count > 0 /\ c.first <= now /\ LockedWell(c, k)
         /\ c.count <= b.count + 1
         /\ b.count > 0 /\ ~Over(b) /\ b.lockedUntil > now => c.lockedUntil > now
<1>1. /\ now \in Time /\ now \in Nat /\ now <= MaxTime
      /\ b.count \in Nat /\ b.first \in Time /\ b.first \in Nat
  BY Constants, TimesAreNat, BucketFields DEF TypeOK, Time
<1>2. MaximumAttempts(k) \in Nat \ {0} /\ Limit(k) \in Nat /\ Limit(k) >= 2 /\ Limit(k) >= MaximumAttempts(k)
  BY Limits
<1>3. CASE b.count = 0 \/ Over(b)
  <2> DEFINE c == [count |-> 1, first |-> now, lockedUntil |-> 0]
  <2>1. Charge(b, k) = c
    BY <1>3 DEF Charge
  <2>2. c \in Bucket
    BY <1>1, Constants DEF Bucket
  <2>3. LockedWell(c, k) /\ c.count = 1 /\ c.first = now
    BY <1>2 DEF LockedWell
  <2> HIDE DEF c
  <2> QED BY <1>1, <1>3, <2>1, <2>2, <2>3
<1>4. CASE b.count # 0 /\ ~Over(b)
  <2> DEFINE n == b.count + 1
             u == LockUntil(k, n)
             c == [b EXCEPT !.count = n, !.lockedUntil = u]
  <2>1. Charge(b, k) = c
    BY <1>4 DEF Charge
  <2>2. n \in Nat
    BY <1>1
  <2>3. u \in 0 .. MaxTime + Lockout
    BY <1>1, Constants DEF LockUntil
  <2>4. \A m \in Nat, v \in 0 .. MaxTime + Lockout :
          LET d == [b EXCEPT !.count = m, !.lockedUntil = v] IN
          d \in Bucket /\ d.count = m /\ d.lockedUntil = v /\ d.first = b.first
    BY BucketSet
  <2> HIDE DEF n, u
  <2>5. c \in Bucket /\ c.count = n /\ c.first = b.first /\ c.lockedUntil = u
    BY <2>2, <2>3, <2>4
  <2> HIDE DEF c
  <2>6. LockedWell(c, k)
    BY <1>1, <1>2, <1>4, <2>2, <2>5, Constants DEF LockedWell, LockUntil, n, u
  <2>7. b.lockedUntil > now => c.lockedUntil > now
    BY <1>1, <1>2, <2>2, <2>5, Constants, BucketFields DEF LockedWell, LockUntil, n, u
  <2>8. c.count <= b.count + 1 /\ c.count > 0
    BY <1>1, <2>5 DEF n
  <2>9. c.first <= now
    BY <1>1, <1>4, <2>5
  <2> QED BY <2>1, <2>5, <2>6, <2>7, <2>8, <2>9
<1> QED BY <1>3, <1>4
-----------------------------------------------------------------------------
(******************************* The table *******************************)

\* A table as it may be at this time.
Good(table) ==
  /\ table \in Table
  /\ \A k \in Key : LockedWell(table[k], k) /\ (table[k].count > 0 => table[k].first <= now)
  /\ Cardinality(Buckets(table)) <= MaxBuckets

LEMMA AttemptsGood == IInv => Good(attempts)
BY DEF IInv, TypeOK, LocksKept, WithinBuckets, Good, Table

LEMMA NoBucketLocked ==
  ASSUME NEW k \in Key
  PROVE  LockedWell(NoBucket, k)
<1>1. NoBucket.count = 0 /\ NoBucket.lockedUntil = 0 /\ NoBucket.first = 0
  BY DEF NoBucket
<1>2. Limit(k) \in Nat /\ Limit(k) >= 2
  BY Limits
<1> QED BY <1>1, <1>2 DEF LockedWell

LEMMA Recorded ==
  ASSUME TypeOK, NEW table, Good(table), NEW k \in Key
  PROVE  LET new == Record(table, k) IN
         /\ Good(new)
         /\ \A j \in Key \ {k} : new[j] = table[j]
         /\ new[k] = Charge(table[k], k) \/ (new[k] = table[k] /\ table[k].count = 0)
<1> DEFINE c == Charge(table[k], k)
           new == [table EXCEPT ![k] = c]
<1>1. table \in Table /\ table[k] \in Bucket /\ Cardinality(Buckets(table)) <= MaxBuckets
  BY DEF Good, Table
<1>2. /\ c \in Bucket /\ c.count > 0 /\ c.first <= now /\ LockedWell(c, k)
  BY <1>1, Charged DEF Good
<1>3. new[k] = c /\ new \in Table /\ \A j \in Key \ {k} : new[j] = table[j]
  BY <1>1, <1>2 DEF Table
<1>4. CASE table[k].count = 0 /\ Cardinality(Buckets(table)) >= MaxBuckets
  BY <1>4 DEF Record
<1>5. CASE ~(table[k].count = 0 /\ Cardinality(Buckets(table)) >= MaxBuckets)
  <2>1. Record(table, k) = new
    BY <1>5 DEF Record
  <2> HIDE DEF c, new
  <2>2. Buckets(new) = Buckets(table) \cup {k}
    BY <1>2, <1>3 DEF Buckets
  <2>3. IsFiniteSet(Buckets(table)) /\ Cardinality(Buckets(table)) \in Nat
    BY <1>1, BucketsCount
  <2>4. Cardinality(Buckets(new)) = IF k \in Buckets(table) THEN Cardinality(Buckets(table))
                                   ELSE Cardinality(Buckets(table)) + 1
    BY <2>2, <2>3, FS_AddElement
  <2>5. table[k].count \in Nat /\ (k \in Buckets(table) <=> table[k].count > 0)
    BY <1>1, BucketFields DEF Buckets
  <2>6. Cardinality(Buckets(new)) <= MaxBuckets
    BY <1>1, <1>5, <2>3, <2>4, <2>5, Constants
  <2>7. Good(new)
    BY <1>2, <1>3, <2>6 DEF Good
  <2> QED BY <1>3, <2>1, <2>7 DEF c
<1> QED BY <1>4, <1>5

\* Pruning drops buckets, and none that locks.
LEMMA Pruned ==
  ASSUME TypeOK, NEW table, Good(table)
  PROVE  LET new == Prune(table) IN
         /\ Good(new)
         /\ \A k \in Key : \/ new[k] = table[k] /\ (table[k].count = 0 \/ Locks(table[k]) \/ ~Over(table[k]))
                           \/ new[k] = NoBucket /\ ~Locks(table[k])
<1> DEFINE new == Prune(table)
<1>1. table \in Table /\ Cardinality(Buckets(table)) <= MaxBuckets
  BY DEF Good
<1>2. \A k \in Key : table[k] \in Bucket /\ table[k].count \in Nat
  BY <1>1, BucketFields DEF Table
<1>3. \A k \in Key : \/ new[k] = table[k] /\ (table[k].count = 0 \/ Locks(table[k]) \/ ~Over(table[k]))
                     \/ new[k] = NoBucket /\ ~Locks(table[k])
  BY <1>2 DEF Prune
<1>4. new \in Table
  BY <1>2, NoBucketIsOne DEF Prune, Table
<1> HIDE DEF new
<1>5. Buckets(new) \subseteq Buckets(table)
  BY <1>2, <1>3, NoBucketIsOne DEF Buckets
<1>6. Cardinality(Buckets(new)) <= MaxBuckets
  BY <1>1, <1>4, <1>5, FewerBuckets
<1>7. \A k \in Key : LockedWell(new[k], k) /\ (new[k].count > 0 => new[k].first <= now)
  BY <1>3, NoBucketIsOne, NoBucketLocked DEF Good
<1>8. Good(new)
  BY <1>4, <1>6, <1>7 DEF Good
<1> QED BY <1>3, <1>8 DEF new
-----------------------------------------------------------------------------
(************************ Requests that are verified **********************)

LEMMA Verified ==
  ASSUME NEW k \in Key
  PROVE  /\ IsFiniteSet(Verifying(k)) /\ Cardinality(Verifying(k)) \in Nat
         /\ Cardinality(Request) \in Nat /\ Cardinality(Verifying(k)) <= Cardinality(Request)
<1>1. Verifying(k) \in SUBSET Request
  BY DEF Verifying
<1> QED BY <1>1, KeysFinite, FS_Subset, FS_CardinalityType

LEMMA VerifiedNext ==
  ASSUME NEW k \in Key
  PROVE  Cardinality(Verifying(k)') \in Nat /\ Cardinality(Verifying(k)') <= Cardinality(Request)
<1>1. Verifying(k)' \in SUBSET Request
  BY DEF Verifying
<1> QED BY <1>1, KeysFinite, FS_Subset, FS_CardinalityType

\* The verification of q ends, for its account and its address.
LEMMA VerificationEnds ==
  ASSUME TypeOK, NEW q \in Request, End(q), NEW k \in Key
  PROVE  /\ pair' \in [Request -> (Account \X Ip) \cup {None}]
         /\ Verifying(k)' = Verifying(k) \ {q}
         /\ Cardinality(Verifying(k)') =
              IF q \in Verifying(k) THEN Cardinality(Verifying(k)) - 1 ELSE Cardinality(Verifying(k))
<1>1. pair \in [Request -> (Account \X Ip) \cup {None}] /\ pair' = [pair EXCEPT ![q] = None]
  BY DEF TypeOK, End
<1>2. Verifying(k)' = Verifying(k) \ {q}
  BY <1>1 DEF Verifying
<1> QED BY <1>1, <1>2, Verified, FS_RemoveElement

\* The keys that request q verifies.
LEMMA PairOf ==
  ASSUME TypeOK, NEW q \in Request, pair[q] # None
  PROVE  /\ pair[q][1] \in Account /\ pair[q][2] \in Ip
         /\ pair[q][1] \in Key /\ pair[q][2] \in Key /\ pair[q][1] # pair[q][2]
         /\ \A k \in Key : q \in Verifying(k) <=> k \in {pair[q][1], pair[q][2]}
<1>1. pair[q] \in Account \X Ip
  BY DEF TypeOK
<1>2. pair[q][1] \in Account /\ pair[q][2] \in Ip
  BY <1>1
<1> QED BY <1>2, ThrottleAssumption DEF Key, Verifying

\* The bound of a key, and what keeps it.
Bounded(k) == attempts[k].count + Cardinality(Verifying(k)) <= Limit(k) - 1 + Cardinality(Request)

LEMMA BoundKept ==
  ASSUME TypeOK, TypeOK', NEW k \in Key, Bounded(k), attempts'[k].count <= attempts[k].count,
         Cardinality(Verifying(k)') <= Cardinality(Verifying(k))
  PROVE  Bounded(k)'
<1>1. attempts[k].count \in Nat /\ attempts'[k].count \in Nat
  BY DEF TypeOK, Bucket
<1>2. Limit(k) \in Nat /\ Limit(k)' = Limit(k) /\ Cardinality(Request) \in Nat
  BY Limits, Verified DEF Limit, MaximumAttempts
<1>3. Cardinality(Verifying(k)) \in Nat /\ Cardinality(Verifying(k)') \in Nat
  BY Verified, VerifiedNext
<1> QED BY <1>1, <1>2, <1>3 DEF Bounded

\* A failure is charged to the key when its request ends.
LEMMA BoundCharged ==
  ASSUME TypeOK, TypeOK', NEW k \in Key, Bounded(k), attempts'[k].count <= attempts[k].count + 1,
         Cardinality(Verifying(k)') = Cardinality(Verifying(k)) - 1
  PROVE  Bounded(k)'
<1>1. attempts[k].count \in Nat /\ attempts'[k].count \in Nat
  BY DEF TypeOK, Bucket
<1>2. Limit(k) \in Nat /\ Limit(k)' = Limit(k) /\ Cardinality(Request) \in Nat
  BY Limits, Verified DEF Limit, MaximumAttempts
<1>3. Cardinality(Verifying(k)) \in Nat
  BY Verified
<1> QED BY <1>1, <1>2, <1>3 DEF Bounded

\* A key that is not locked after pruning is below its limit.
LEMMA BelowLimit ==
  ASSUME TypeOK, LocksKept, Lockout > Window, NEW k \in Key, ~Locks(attempts[k]),
         attempts[k].count = 0 \/ ~Over(attempts[k])
  PROVE  attempts[k].count < Limit(k)
<1>1. attempts[k] \in Bucket /\ now \in Nat /\ LockedWell(attempts[k], k)
  BY TimesAreNat DEF TypeOK, LocksKept
<1>2. /\ attempts[k].count \in Nat /\ attempts[k].first \in Nat /\ attempts[k].lockedUntil \in Nat
      /\ Limit(k) \in Nat /\ Limit(k) >= 2
  BY <1>1, BucketFields, Limits
<1> QED BY <1>1, <1>2, Constants DEF Locks, Over, LockedWell
-----------------------------------------------------------------------------
(******************* Every step preserves the invariant *******************)

OtherTyped ==
  /\ pair \in [Request -> (Account \X Ip) \cup {None}]
  /\ begun \in 0 .. MaxAttempts
  /\ failed \in [Key -> [Time -> Nat]]
  /\ uncounted \in [Key -> Nat]

LEMMA TypeParts ==
  ASSUME now' = now, now \in Time, Good(attempts'), OtherTyped'
  PROVE  TypeOK' /\ LocksKept' /\ WithinBuckets'
<1>1. /\ attempts' \in [Key -> Bucket] /\ \A k \in Key : attempts'[k].count > 0 => attempts'[k].first <= now'
      /\ \A k \in Key : LockedWell(attempts'[k], k) /\ Cardinality(Buckets(attempts')) <= MaxBuckets
  BY DEF Good, Table
<1>2. TypeOK'
  BY <1>1 DEF TypeOK, OtherTyped
<1>3. WithinBuckets'
  <2>1. Cardinality(Buckets(attempts')) <= MaxBuckets
    BY DEF Good
  <2> QED BY <2>1 DEF WithinBuckets, Buckets
<1>4. LocksKept'
  BY <1>1 DEF LocksKept, LockedWell, MaximumAttempts, Limit
<1> QED BY <1>2, <1>3, <1>4

LEMMA Overshoot ==
  OvershootBounded <=> (Lockout > Window => \A k \in Key : Bounded(k))
BY DEF OvershootBounded, Bounded

LEMMA InitEstablishes == Init => IInv
<1> SUFFICES ASSUME Init PROVE IInv
  OBVIOUS
<1>1. \A k \in Key : attempts[k] = NoBucket /\ attempts[k].count = 0
  BY NoBucketIsOne DEF Init
<1>2. 0 \in 0 .. MaxAttempts /\ Never \in [Time -> Nat]
  BY Constants DEF Never
<1>3. TypeOK
  BY <1>1, <1>2, NoBucketIsOne, TimesAreNat DEF Init, TypeOK
<1>4. LocksKept
  BY <1>1, NoBucketLocked DEF LocksKept
<1>5. WithinBuckets
  <2>1. Buckets(attempts) = {}
    BY <1>1 DEF Buckets
  <2> QED BY <2>1, FS_EmptySet, Constants DEF WithinBuckets
<1>6. \A k \in Key : Bounded(k)
  <2> SUFFICES ASSUME NEW k \in Key PROVE Bounded(k)
    OBVIOUS
  <2>1. Verifying(k) = {}
    BY DEF Init, Verifying
  <2>2. Cardinality(Verifying(k)) = 0
    BY <2>1, FS_EmptySet
  <2>3. Cardinality(Request) \in Nat /\ Limit(k) \in Nat /\ Limit(k) >= 2
    BY Verified, Limits
  <2> QED BY <1>1, <2>2, <2>3 DEF Bounded
<1> QED BY <1>3, <1>4, <1>5, <1>6, Overshoot DEF IInv

LEMMA BeginStep ==
  ASSUME IInv, NEW q \in Request, NEW a \in Account, NEW i \in Ip, Begin(q, a, i)
  PROVE  IInv'
<1>1. /\ pair[q] = None /\ begun < MaxAttempts /\ attempts' = Prune(attempts)
      /\ now' = now /\ failed' = failed /\ uncounted' = uncounted
      /\ TypeOK /\ LocksKept /\ Good(attempts)
  BY AttemptsGood DEF Begin, IInv
<1>2. /\ Good(attempts')
      /\ \A k \in Key :
           \/ attempts'[k] = attempts[k] /\ (attempts[k].count = 0 \/ Locks(attempts[k]) \/ ~Over(attempts[k]))
           \/ attempts'[k] = NoBucket /\ ~Locks(attempts[k])
  BY <1>1, Pruned
<1>3. \A k \in Key : attempts[k].count \in Nat /\ attempts'[k].count \in Nat /\ attempts'[k].count <= attempts[k].count
  BY <1>1, <1>2, NoBucketIsOne DEF TypeOK, Bucket
<1>4. CASE UNCHANGED <<pair, begun>>
  <2>1. OtherTyped'
    BY <1>1, <1>4 DEF TypeOK, OtherTyped
  <2>2. TypeOK' /\ LocksKept' /\ WithinBuckets'
    BY <1>1, <1>2, <2>1, TypeParts DEF TypeOK
  <2>3. ASSUME Lockout > Window, NEW k \in Key PROVE Bounded(k)'
    <3>1. Verifying(k)' = Verifying(k) /\ Cardinality(Verifying(k)) \in Nat /\ Bounded(k)
      BY <1>4, <2>3, Verified, Overshoot DEF Verifying, IInv
    <3>2. Cardinality(Verifying(k)') <= Cardinality(Verifying(k))
      BY <3>1
    <3> QED BY <1>1, <1>3, <2>2, <3>1, <3>2, BoundKept
  <2>4. OvershootBounded'
    BY <2>3 DEF OvershootBounded, Bounded
  <2> QED BY <2>2, <2>4 DEF IInv
<1>5. CASE /\ Allowed(attempts', {a, i})
           /\ pair' = [pair EXCEPT ![q] = <<a, i>>] /\ begun' = begun + 1
  <2>1. pair' \in [Request -> (Account \X Ip) \cup {None}] /\ begun' \in 0 .. MaxAttempts
    BY <1>1, <1>5, Constants DEF TypeOK
  <2>2. OtherTyped'
    BY <1>1, <2>1 DEF TypeOK, OtherTyped
  <2>3. TypeOK' /\ LocksKept' /\ WithinBuckets'
    BY <1>1, <1>2, <2>2, TypeParts DEF TypeOK
  <2>4. ASSUME Lockout > Window, NEW k \in Key PROVE Bounded(k)'
    <3>1. Limit(k) \in Nat /\ Limit(k) >= 2 /\ Limit(k)' = Limit(k) /\ Cardinality(Request) \in Nat
      BY Limits, Verified DEF Limit, MaximumAttempts
    <3>2. CASE k \in {a, i}
      <4>1. ~Locks(attempts'[k])
        BY <1>5, <3>2 DEF Allowed
      <4>2. attempts'[k].count < Limit(k)
        BY <1>1, <1>2, <2>4, <3>1, <4>1, NoBucketIsOne, BelowLimit
      <4>3. Cardinality(Verifying(k)') \in Nat /\ Cardinality(Verifying(k)') <= Cardinality(Request)
        BY VerifiedNext
      <4> QED BY <1>3, <3>1, <4>2, <4>3 DEF Bounded
    <3>3. CASE k \notin {a, i}
      <4>1. Verifying(k)' = Verifying(k)
        <5>1. \A r \in Request \ {q} : pair'[r] = pair[r]
          BY <1>1, <1>5 DEF TypeOK
        <5>2. pair'[q][1] = a /\ pair'[q][2] = i
          BY <1>1, <1>5 DEF TypeOK
        <5> QED BY <1>1, <3>3, <5>1, <5>2 DEF Verifying
      <4>2. Cardinality(Verifying(k)') <= Cardinality(Verifying(k)) /\ Bounded(k)
        BY <2>4, <4>1, Verified, Overshoot DEF IInv
      <4> QED BY <1>1, <1>3, <2>3, <4>2, BoundKept
    <3> QED BY <3>2, <3>3
  <2>5. OvershootBounded'
    BY <2>4 DEF OvershootBounded, Bounded
  <2> QED BY <2>3, <2>5 DEF IInv
<1> QED BY <1>4, <1>5 DEF Begin

\* What a failure makes of the table: its two keys are charged, or find no room.
LEMMA FailTable ==
  ASSUME TypeOK, Good(attempts), NEW q \in Request, Fail(q)
  PROVE  /\ Good(attempts')
         /\ \A k \in Key :
              \/ q \notin Verifying(k) /\ attempts'[k] = attempts[k]
              \/ /\ q \in Verifying(k)
                 /\ \/ attempts'[k] = Charge(attempts[k], k)
                    \/ attempts'[k] = attempts[k] /\ attempts[k].count = 0
<1> DEFINE a == pair[q][1]
           i == pair[q][2]
           table == Record(attempts, a)
<1>1. End(q) /\ attempts' = Record(table, i) /\ pair[q] # None
  BY DEF Fail, End
<1>2. /\ a \in Key /\ i \in Key /\ a # i
      /\ \A k \in Key : q \in Verifying(k) <=> k \in {a, i}
  BY <1>1, PairOf
<1> HIDE DEF a, i
<1>3. /\ Good(table) /\ \A j \in Key \ {a} : table[j] = attempts[j]
      /\ table[a] = Charge(attempts[a], a) \/ (table[a] = attempts[a] /\ attempts[a].count = 0)
  BY <1>2, Recorded
<1> HIDE DEF table
<1>4. /\ Good(attempts') /\ \A j \in Key \ {i} : attempts'[j] = table[j]
      /\ attempts'[i] = Charge(table[i], i) \/ (attempts'[i] = table[i] /\ table[i].count = 0)
  BY <1>1, <1>2, <1>3, Recorded
<1> QED BY <1>2, <1>3, <1>4

LEMMA FailStep ==
  ASSUME IInv, NEW q \in Request, Fail(q)
  PROVE  IInv'
<1> DEFINE a == pair[q][1]
           i == pair[q][2]
<1>1. /\ TypeOK /\ LocksKept /\ Good(attempts) /\ End(q) /\ pair[q] # None
      /\ now' = now /\ begun' = begun
      /\ failed' = [k \in Key |-> IF k \in {a, i} THEN [failed[k] EXCEPT ![now] = @ + 1] ELSE failed[k]]
      /\ uncounted' = [k \in Key |-> IF k \in {a, i} /\ attempts'[k].count = 0
                                     THEN uncounted[k] + 1 ELSE uncounted[k]]
  BY AttemptsGood DEF Fail, End, IInv
<1>2. a \in Key /\ i \in Key /\ now \in Time
  BY <1>1, PairOf DEF TypeOK
<1>3. pair' \in [Request -> (Account \X Ip) \cup {None}]
  BY <1>1, VerificationEnds, <1>2
<1> HIDE DEF a, i
<1>4. failed' \in [Key -> [Time -> Nat]]
  <2>1. ASSUME NEW k \in Key
        PROVE  failed[k] \in [Time -> Nat] /\ [failed[k] EXCEPT ![now] = @ + 1] \in [Time -> Nat]
    <3>1. failed[k] \in [Time -> Nat] /\ failed[k][now] \in Nat
      BY <1>1, <1>2 DEF TypeOK
    <3> QED BY <1>2, <3>1
  <2> QED BY <1>1, <2>1
<1>5. uncounted' \in [Key -> Nat]
  BY <1>1 DEF TypeOK
<1>6. OtherTyped'
  BY <1>1, <1>3, <1>4, <1>5 DEF OtherTyped, TypeOK
<1>7. Good(attempts')
  BY <1>1, FailTable
<1>8. TypeOK' /\ LocksKept' /\ WithinBuckets'
  BY <1>1, <1>2, <1>6, <1>7, TypeParts
<1>9. ASSUME Lockout > Window, NEW k \in Key PROVE Bounded(k)'
  <2>1. /\ attempts[k] \in Bucket /\ LockedWell(attempts[k], k) /\ Bounded(k)
        /\ (attempts[k].count > 0 => attempts[k].first <= now) /\ attempts[k].count \in Nat
    BY <1>1, <1>9, Overshoot, BucketFields DEF IInv, TypeOK, LocksKept
  <2>2. Charge(attempts[k], k).count <= attempts[k].count + 1
    BY <1>1, <2>1, Charged
  <2>3. Cardinality(Verifying(k)') =
          IF q \in Verifying(k) THEN Cardinality(Verifying(k)) - 1 ELSE Cardinality(Verifying(k))
    BY <1>1, VerificationEnds
  <2>4. CASE q \in Verifying(k)
    <3>1. attempts'[k].count <= attempts[k].count + 1
      BY <1>1, <2>1, <2>2, <2>4, FailTable
    <3> QED BY <1>1, <1>8, <2>1, <2>3, <2>4, <3>1, BoundCharged
  <2>5. CASE q \notin Verifying(k)
    <3>1. attempts'[k].count <= attempts[k].count
      BY <1>1, <2>1, <2>5, FailTable
    <3>2. Cardinality(Verifying(k)') <= Cardinality(Verifying(k))
      BY <2>3, <2>5, Verified
    <3> QED BY <1>1, <1>8, <2>1, <3>1, <3>2, BoundKept
  <2> QED BY <2>4, <2>5
<1>10. OvershootBounded'
  BY <1>9 DEF OvershootBounded, Bounded
<1> QED BY <1>8, <1>10 DEF IInv

\* A verification ends, and no key is charged.
LEMMA UnchargedStep ==
  ASSUME IInv, NEW q \in Request, End(q), now' = now, begun' = begun, Good(attempts'),
         failed' \in [Key -> [Time -> Nat]], uncounted' \in [Key -> Nat],
         \A k \in Key : attempts'[k].count <= attempts[k].count
  PROVE  IInv'
<1>1. TypeOK /\ now \in Time
  BY DEF IInv, TypeOK
<1>2. pair' \in [Request -> (Account \X Ip) \cup {None}]
  BY <1>1 DEF End, TypeOK
<1>3. OtherTyped'
  BY <1>1, <1>2 DEF OtherTyped, TypeOK
<1>4. TypeOK' /\ LocksKept' /\ WithinBuckets'
  BY <1>1, <1>3, TypeParts
<1>5. ASSUME Lockout > Window, NEW k \in Key PROVE Bounded(k)'
  <2>1. Bounded(k)
    BY <1>5, Overshoot DEF IInv
  <2>2. Cardinality(Verifying(k)') <= Cardinality(Verifying(k))
    BY <1>1, VerificationEnds, Verified
  <2> QED BY <1>1, <1>4, <2>1, <2>2, BoundKept
<1>6. OvershootBounded'
  BY <1>5 DEF OvershootBounded, Bounded
<1> QED BY <1>4, <1>6 DEF IInv

LEMMA SucceedStep ==
  ASSUME IInv, NEW q \in Request, Succeed(q)
  PROVE  IInv'
<1> DEFINE a == pair[q][1]
<1>1. /\ TypeOK /\ Good(attempts) /\ End(q) /\ pair[q] # None /\ now' = now /\ begun' = begun
      /\ attempts' = [attempts EXCEPT ![a] = NoBucket]
      /\ failed' = [failed EXCEPT ![a] = Never] /\ uncounted' = [uncounted EXCEPT ![a] = 0]
  BY AttemptsGood DEF Succeed, End, IInv
<1>2. a \in Key
  BY <1>1, PairOf
<1> HIDE DEF a
<1>3. failed' \in [Key -> [Time -> Nat]] /\ uncounted' \in [Key -> Nat]
  BY <1>1, <1>2 DEF TypeOK, Never
<1>4. attempts \in Table /\ attempts' \in Table /\ attempts'[a] = NoBucket
      /\ \A k \in Key \ {a} : attempts'[k] = attempts[k]
  BY <1>1, <1>2, NoBucketIsOne DEF Good, Table
<1>5. \A k \in Key : attempts[k].count \in Nat
  BY <1>4, BucketFields DEF Table
<1>6. \A k \in Key : attempts'[k].count <= attempts[k].count
  BY <1>4, <1>5, NoBucketIsOne
<1>7. Good(attempts')
  <2>1. Buckets(attempts') \subseteq Buckets(attempts)
    BY <1>4, NoBucketIsOne DEF Buckets
  <2>2. Cardinality(Buckets(attempts')) <= MaxBuckets
    BY <1>1, <1>4, <2>1, FewerBuckets DEF Good
  <2> QED BY <1>1, <1>4, <2>2, NoBucketIsOne, NoBucketLocked DEF Good
<1> QED BY <1>1, <1>3, <1>6, <1>7, UnchargedStep

LEMMA LeaveStep ==
  ASSUME IInv, NEW q \in Request, Leave(q)
  PROVE  IInv'
<1>1. /\ TypeOK /\ Good(attempts) /\ End(q) /\ now' = now /\ begun' = begun
      /\ attempts' = attempts /\ failed' = failed /\ uncounted' = uncounted
  BY AttemptsGood DEF Leave, IInv
<1>2. \A k \in Key : attempts'[k].count <= attempts[k].count
  BY <1>1 DEF TypeOK, Bucket
<1> QED BY <1>1, <1>2, UnchargedStep DEF TypeOK

LEMMA TickStep ==
  ASSUME IInv, Tick
  PROVE  IInv'
<1>1. now' = now + 1 /\ now < MaxTime /\ UNCHANGED <<attempts, pair, begun, failed, uncounted>> /\ TypeOK
  BY DEF Tick, IInv
<1>2. now \in Nat /\ now' \in Time
  BY <1>1, Constants DEF TypeOK, Time
<1>3. ASSUME NEW k \in Key, attempts[k].count > 0 PROVE attempts[k].first <= now'
  <2>1. attempts[k].first \in Nat /\ attempts[k].first <= now
    BY <1>1, <1>3, BucketFields DEF TypeOK
  <2> QED BY <1>1, <1>2, <2>1
<1>4. TypeOK'
  BY <1>1, <1>2, <1>3 DEF TypeOK
<1>5. LocksKept' /\ WithinBuckets'
  BY <1>1 DEF IInv, LocksKept, WithinBuckets, LockedWell, Buckets, MaximumAttempts, Limit
<1>6. OvershootBounded'
  BY <1>1 DEF IInv, OvershootBounded, Verifying, Limit, MaximumAttempts
<1> QED BY <1>4, <1>5, <1>6 DEF IInv

LEMMA NextPreserves == IInv /\ [Next]_vars => IInv'
<1> SUFFICES ASSUME IInv, [Next]_vars PROVE IInv'
  OBVIOUS
<1>1. CASE \E q \in Request, a \in Account, i \in Ip : Begin(q, a, i)
  BY <1>1, BeginStep
<1>2. CASE \E q \in Request : Fail(q)
  BY <1>2, FailStep
<1>3. CASE \E q \in Request : Succeed(q)
  BY <1>3, SucceedStep
<1>4. CASE \E q \in Request : Leave(q)
  BY <1>4, LeaveStep
<1>5. CASE Tick
  BY <1>5, TickStep
<1>6. CASE UNCHANGED vars
  <2>1. now' = now /\ UNCHANGED <<attempts, pair, begun, failed, uncounted>>
    BY <1>6 DEF vars
  <2>2. TypeOK' /\ LocksKept' /\ WithinBuckets'
    BY <2>1 DEF IInv, TypeOK, LocksKept, WithinBuckets, LockedWell, Buckets, MaximumAttempts, Limit
  <2>3. OvershootBounded'
    BY <2>1 DEF IInv, OvershootBounded, Verifying, Limit, MaximumAttempts
  <2> QED BY <2>2, <2>3 DEF IInv
<1> QED BY <1>1, <1>2, <1>3, <1>4, <1>5, <1>6 DEF Next

LEMMA Inductive == Spec => []IInv
BY InitEstablishes, NextPreserves, PTL DEF Spec
-----------------------------------------------------------------------------
(********************************** Sums **********************************)

\* A set of numbers with 0 and every successor has all.
LEMMA AllNumbers ==
  ASSUME NEW N \in SUBSET Nat, 0 \in N, \A n \in N : n + 1 \in N
  PROVE  N = Nat
<1> SUFFICES ASSUME Nat \ N # {} PROVE FALSE
  OBVIOUS
<1>1. PICK n \in Nat \ N : \A m \in Nat \ N : ~(<<m, n>> \in OpToRel(<, Nat))
  <2>1. Nat \ N \subseteq Nat
    OBVIOUS
  <2> QED
    BY <2>1, NatLessThanWellFounded, WFMin
<1>2. \A m \in Nat \ N : ~(m < n)
  BY <1>1 DEF OpToRel
<1>3. n - 1 \in Nat /\ n - 1 < n
  OBVIOUS
<1> QED
  BY <1>2, <1>3

\* A family of subsets that has a set with all that have one element less has all.
LEMMA AllSubsets ==
  ASSUME NEW S, IsFiniteSet(S), NEW F,
         \A T \in SUBSET S : (\A x \in T : T \ {x} \in F) => T \in F
  PROVE  \A T \in SUBSET S : T \in F
<1> DEFINE N == {n \in Nat : \A T \in SUBSET S : Cardinality(T) = n => T \in F}
<1>1. \A T \in SUBSET S : IsFiniteSet(T) /\ Cardinality(T) \in Nat
  BY FS_Subset, FS_CardinalityType
<1>2. 0 \in N
  <2> SUFFICES ASSUME NEW T \in SUBSET S, Cardinality(T) = 0 PROVE T \in F
    OBVIOUS
  <2>1. T = {}
    BY <1>1, FS_EmptySet
  <2> QED
    BY <2>1
<1>3. ASSUME NEW n \in N PROVE n + 1 \in N
  <2> SUFFICES ASSUME NEW T \in SUBSET S, Cardinality(T) = n + 1 PROVE T \in F
    OBVIOUS
  <2>1. ASSUME NEW x \in T PROVE T \ {x} \in F
    <3>1. Cardinality(T \ {x}) = Cardinality(T) - 1
      BY <1>1, FS_RemoveElement
    <3>2. Cardinality(T \ {x}) = n /\ T \ {x} \in SUBSET S
      BY <3>1
    <3> QED
      BY <3>2
  <2> QED
    BY <2>1
<1>4. N = Nat
  <2> HIDE DEF N
  <2>1. N \in SUBSET Nat
    BY DEF N
  <2> QED
    BY <1>2, <1>3, <2>1, AllNumbers
<1> QED
  BY <1>1, <1>4

-----------------------------------------------------------------------------
\* What MapThenSumSet computes for each subset of S.
Some(s) == CHOOSE x \in s : TRUE

IsSums(g, f, D) ==
  g = [s \in D |-> IF s = {} THEN 0 ELSE f[Some(s)] + g[s \ {Some(s)}]]

Sums(f, S) == CHOOSE g : IsSums(g, f, SUBSET S)

Sum(f, S) == Sums(f, S)[S]

LEMMA SumIs == ASSUME NEW f, NEW S PROVE MapThenSumSet(LAMBDA u : f[u], S) = Sum(f, S)
BY DEF MapThenSumSet, MapThenFoldSet, Sum, Sums, IsSums, Some

LEMMA SomeIs == ASSUME NEW s, s # {} PROVE Some(s) \in s
BY DEF Some

\* The sums exist.
LEMMA SumsExist ==
  ASSUME NEW f, NEW S, IsFiniteSet(S)
  PROVE  IsSums(Sums(f, S), f, SUBSET S)
<1> DEFINE Small(n) == {s \in SUBSET S : Cardinality(s) <= n}
           N == {n \in Nat : \E g : IsSums(g, f, Small(n))}
<1>1. \A T \in SUBSET S : IsFiniteSet(T) /\ Cardinality(T) \in Nat /\ Cardinality(T) <= Cardinality(S)
  BY FS_Subset, FS_CardinalityType
<1>2. 0 \in N
  <2> DEFINE g == [s \in Small(0) |-> 0]
  <2>1. \A s \in Small(0) : s = {}
    BY <1>1, FS_EmptySet
  <2>2. IsSums(g, f, Small(0))
    BY <2>1 DEF IsSums
  <2> QED
    BY <2>2
<1>3. ASSUME NEW n \in N PROVE n + 1 \in N
  <2>1. PICK g : IsSums(g, f, Small(n))
    OBVIOUS
  <2> DEFINE h == [s \in Small(n + 1) |-> IF s = {} THEN 0 ELSE f[Some(s)] + g[s \ {Some(s)}]]
  <2>2. ASSUME NEW s \in Small(n + 1), s # {}
        PROVE  h[s \ {Some(s)}] = g[s \ {Some(s)}]
    <3>1. Cardinality(s \ {Some(s)}) = Cardinality(s) - 1 /\ s \ {Some(s)} \in SUBSET S
      BY <1>1, <2>2, SomeIs, FS_RemoveElement
    <3>2. s \ {Some(s)} \in Small(n) /\ s \ {Some(s)} \in Small(n + 1)
      BY <1>1, <3>1
    <3> DEFINE t == s \ {Some(s)}
    <3>3. g[t] = IF t = {} THEN 0 ELSE f[Some(t)] + g[t \ {Some(t)}]
      BY <2>1, <3>2 DEF IsSums
    <3>4. h[t] = IF t = {} THEN 0 ELSE f[Some(t)] + g[t \ {Some(t)}]
      BY <3>2
    <3> QED
      BY <3>3, <3>4
  <2> HIDE DEF Small
  <2>3. h = [s \in Small(n + 1) |-> IF s = {} THEN 0 ELSE f[Some(s)] + h[s \ {Some(s)}]]
    BY <2>2
  <2>4. IsSums(h, f, Small(n + 1))
    BY <2>3 DEF IsSums
  <2> QED
    BY <2>4
<1>4. N = Nat
  <2> HIDE DEF N
  <2>1. N \in SUBSET Nat
    BY DEF N
  <2> QED
    BY <1>2, <1>3, <2>1, AllNumbers
<1>5. Small(Cardinality(S)) = SUBSET S /\ Cardinality(S) \in Nat
  BY <1>1, FS_CardinalityType
<1>6. \E g : IsSums(g, f, SUBSET S)
  BY <1>4, <1>5
<1> QED
  BY <1>6 DEF Sums

LEMMA SumsAt ==
  ASSUME NEW f, NEW S, IsFiniteSet(S), NEW T \in SUBSET S
  PROVE  /\ T = {} => Sums(f, S)[T] = 0
         /\ T # {} => Sums(f, S)[T] = f[Some(T)] + Sums(f, S)[T \ {Some(T)}]
<1> DEFINE g == Sums(f, S)
<1>0. IsSums(g, f, SUBSET S)
  BY SumsExist
<1> HIDE DEF g
<1>1. g = [s \in SUBSET S |-> IF s = {} THEN 0 ELSE f[Some(s)] + g[s \ {Some(s)}]]
  BY <1>0 DEF IsSums
<1>2. g[T] = IF T = {} THEN 0 ELSE f[Some(T)] + g[T \ {Some(T)}]
  BY <1>1
<1> QED
  BY <1>2 DEF g

\* A sum does not depend on the set its subsets are taken from, or on values elsewhere.
LEMMA SumsAgree ==
  ASSUME NEW f, NEW g, NEW S, NEW R, IsFiniteSet(S), IsFiniteSet(R), S \subseteq R,
         \A x \in S : f[x] = g[x]
  PROVE  \A T \in SUBSET S : Sums(f, S)[T] = Sums(g, R)[T]
<1> DEFINE F == {T \in SUBSET S : Sums(f, S)[T] = Sums(g, R)[T]}
<1>1. ASSUME NEW T \in SUBSET S, \A x \in T : T \ {x} \in F PROVE T \in F
  <2>1. /\ T = {} => Sums(f, S)[T] = 0
        /\ T # {} => Sums(f, S)[T] = f[Some(T)] + Sums(f, S)[T \ {Some(T)}]
    BY SumsAt
  <2>2. /\ T = {} => Sums(g, R)[T] = 0
        /\ T # {} => Sums(g, R)[T] = g[Some(T)] + Sums(g, R)[T \ {Some(T)}]
    BY SumsAt
  <2>3. T # {} => Some(T) \in T /\ f[Some(T)] = g[Some(T)] /\ Sums(f, S)[T \ {Some(T)}] = Sums(g, R)[T \ {Some(T)}]
    BY <1>1, SomeIs
  <2> QED
    BY <2>1, <2>2, <2>3
<1> HIDE DEF F
<1>2. \A T \in SUBSET S : T \in F
  BY <1>1, AllSubsets
<1> QED
  BY <1>2 DEF F

LEMMA SumNat ==
  ASSUME NEW S, IsFiniteSet(S), NEW f, \A x \in S : f[x] \in Nat
  PROVE  \A T \in SUBSET S : Sums(f, S)[T] \in Nat
<1> DEFINE F == {T \in SUBSET S : Sums(f, S)[T] \in Nat}
<1>1. ASSUME NEW T \in SUBSET S, \A x \in T : T \ {x} \in F PROVE T \in F
  <2>1. /\ T = {} => Sums(f, S)[T] = 0
        /\ T # {} => Sums(f, S)[T] = f[Some(T)] + Sums(f, S)[T \ {Some(T)}]
    BY SumsAt
  <2>2. T # {} => f[Some(T)] \in Nat /\ Sums(f, S)[T \ {Some(T)}] \in Nat
    BY <1>1, SomeIs
  <2> QED
    BY <2>1, <2>2
<1> HIDE DEF F
<1>2. \A T \in SUBSET S : T \in F
  BY <1>1, AllSubsets
<1> QED
  BY <1>2 DEF F

\* Any element may be taken first.
LEMMA SumsTake ==
  ASSUME NEW S, IsFiniteSet(S), NEW f, \A x \in S : f[x] \in Nat
  PROVE  \A T \in SUBSET S : \A y \in T : Sums(f, S)[T] = f[y] + Sums(f, S)[T \ {y}]
<1> DEFINE g == Sums(f, S)
           F == {T \in SUBSET S : \A y \in T : g[T] = f[y] + g[T \ {y}]}
<1>1. \A T \in SUBSET S : g[T] \in Nat
  BY SumNat
<1>2. ASSUME NEW T \in SUBSET S, \A x \in T : T \ {x} \in F PROVE T \in F
  <2> SUFFICES ASSUME NEW y \in T PROVE g[T] = f[y] + g[T \ {y}]
    OBVIOUS
  <2> DEFINE c == Some(T)
  <2>1. c \in T /\ g[T] = f[c] + g[T \ {c}]
    BY SumsAt, SomeIs
  <2> HIDE DEF c, g
  <2>2. CASE y = c
    BY <2>1, <2>2
  <2>3. CASE y # c
    <3>1. g[T \ {c}] = f[y] + g[(T \ {c}) \ {y}]
      BY <1>2, <2>1, <2>3
    <3>2. g[T \ {y}] = f[c] + g[(T \ {y}) \ {c}]
      BY <1>2, <2>1, <2>3
    <3>3. (T \ {c}) \ {y} = (T \ {y}) \ {c}
      OBVIOUS
    <3>4. f[y] \in Nat /\ f[c] \in Nat /\ g[(T \ {y}) \ {c}] \in Nat
      BY <1>1, <2>1
    <3>5. ASSUME NEW i \in Nat, NEW j \in Nat, NEW r \in Nat PROVE i + (j + r) = j + (i + r)
      OBVIOUS
    <3>6. f[c] + (f[y] + g[(T \ {y}) \ {c}]) = f[y] + (f[c] + g[(T \ {y}) \ {c}])
      BY <3>4, <3>5
    <3> QED
      BY <2>1, <3>1, <3>2, <3>3, <3>6
  <2> QED
    BY <2>2, <2>3
<1> HIDE DEF F, g
<1>3. \A T \in SUBSET S : T \in F
  BY <1>2, AllSubsets
<1> QED
  BY <1>3 DEF F, g

LEMMA SumParts ==
  ASSUME NEW S, IsFiniteSet(S), NEW f, \A x \in S : f[x] \in Nat
  PROVE  /\ Sum(f, S) \in Nat
         /\ S = {} => Sum(f, S) = 0
         /\ \A T \in SUBSET S : Sum(f, T) = Sums(f, S)[T]
         /\ \A x \in S : Sum(f, S) = f[x] + Sum(f, S \ {x}) /\ Sum(f, S \ {x}) \in Nat
<1>1. \A T \in SUBSET S : Sum(f, T) = Sums(f, S)[T]
  <2> SUFFICES ASSUME NEW T \in SUBSET S PROVE Sum(f, T) = Sums(f, S)[T]
    OBVIOUS
  <2>1. IsFiniteSet(T) /\ T \in SUBSET T /\ T \subseteq S /\ \A x \in T : f[x] = f[x]
    BY FS_Subset
  <2> QED
    BY <2>1, SumsAgree DEF Sum
<1>2. \A T \in SUBSET S : Sum(f, T) \in Nat
  BY <1>1, SumNat
<1>3. S = {} => Sum(f, S) = 0
  BY SumsAt DEF Sum
<1>4. \A x \in S : Sum(f, S) = f[x] + Sum(f, S \ {x})
  <2> SUFFICES ASSUME NEW x \in S PROVE Sum(f, S) = f[x] + Sum(f, S \ {x})
    OBVIOUS
  <2>1. S \in SUBSET S /\ S \ {x} \in SUBSET S
    OBVIOUS
  <2>2. Sums(f, S)[S] = f[x] + Sums(f, S)[S \ {x}]
    BY <2>1, SumsTake
  <2>3. Sum(f, S \ {x}) = Sums(f, S)[S \ {x}] /\ Sum(f, S) = Sums(f, S)[S]
    BY <1>1, <2>1
  <2> QED
    BY <2>2, <2>3
<1> QED
  BY <1>1, <1>2, <1>3, <1>4

LEMMA SumSame ==
  ASSUME NEW S, IsFiniteSet(S), NEW f, NEW g, \A x \in S : f[x] = g[x]
  PROVE  Sum(f, S) = Sum(g, S)
BY SumsAgree DEF Sum

\* One value grows by one.
LEMMA SumChanges ==
  ASSUME NEW S, IsFiniteSet(S), NEW f, NEW g, NEW y,
         \A x \in S : f[x] \in Nat /\ g[x] \in Nat,
         \A x \in S \ {y} : g[x] = f[x], y \in S => g[y] = f[y] + 1
  PROVE  /\ y \in S => Sum(g, S) = Sum(f, S) + 1
         /\ y \notin S => Sum(g, S) = Sum(f, S)
<1>1. CASE y \notin S
  BY <1>1, SumSame
<1>2. CASE y \in S
  <2>1. IsFiniteSet(S \ {y})
    BY FS_Subset
  <2>2. Sum(f, S \ {y}) = Sum(g, S \ {y})
    BY <2>1, SumSame
  <2>3. /\ Sum(f, S) = f[y] + Sum(f, S \ {y}) /\ Sum(f, S \ {y}) \in Nat
        /\ Sum(g, S) = g[y] + Sum(g, S \ {y})
    <3>1. \A x \in S : Sum(f, S) = f[x] + Sum(f, S \ {x}) /\ Sum(f, S \ {x}) \in Nat
      BY SumParts
    <3>2. \A x \in S : Sum(g, S) = g[x] + Sum(g, S \ {x})
      BY SumParts
    <3> QED
      BY <1>2, <3>1, <3>2
  <2>4. f[y] \in Nat /\ g[y] = f[y] + 1
    BY <1>2
  <2>5. ASSUME NEW i \in Nat, NEW r \in Nat PROVE (i + 1) + r = (i + r) + 1
    OBVIOUS
  <2>6. (f[y] + 1) + Sum(f, S \ {y}) = (f[y] + Sum(f, S \ {y})) + 1
    BY <2>3, <2>4, <2>5
  <2> QED
    BY <1>2, <2>2, <2>3, <2>4, <2>6
<1> QED
  BY <1>1, <1>2

\* A part is no more than the whole.
LEMMA SumGrows ==
  ASSUME NEW S, IsFiniteSet(S), NEW f, \A x \in S : f[x] \in Nat
  PROVE  \A R \in SUBSET S : \A T \in SUBSET R : Sum(f, T) <= Sum(f, R)
<1> DEFINE F == {R \in SUBSET S : \A T \in SUBSET R : Sum(f, T) <= Sum(f, R)}
<1>1. \A R \in SUBSET S : IsFiniteSet(R) /\ Sum(f, R) \in Nat /\ \A x \in R : f[x] \in Nat
  BY SumParts, SumNat, FS_Subset
<1>2. ASSUME NEW R \in SUBSET S, \A x \in R : R \ {x} \in F PROVE R \in F
  <2> SUFFICES ASSUME NEW T \in SUBSET R PROVE Sum(f, T) <= Sum(f, R)
    OBVIOUS
  <2>1. CASE T = R
    BY <1>1, <2>1
  <2>2. CASE T # R
    <3>1. PICK x \in R : x \notin T
      BY <2>2
    <3>2. Sum(f, T) <= Sum(f, R \ {x})
      BY <1>2, <3>1
    <3>3. /\ Sum(f, R) = f[x] + Sum(f, R \ {x}) /\ Sum(f, R \ {x}) \in Nat
          /\ f[x] \in Nat /\ Sum(f, T) \in Nat
      <4>1. IsFiniteSet(R) /\ \A z \in R : f[z] \in Nat
        BY <1>1
      <4>2. \A z \in R : Sum(f, R) = f[z] + Sum(f, R \ {z}) /\ Sum(f, R \ {z}) \in Nat
        BY <4>1, SumParts
      <4> QED
        BY <1>1, <4>1, <4>2
    <3> QED
      BY <3>2, <3>3
  <2> QED
    BY <2>1, <2>2
<1> HIDE DEF F
<1>3. \A R \in SUBSET S : R \in F
  BY <1>2, AllSubsets
<1> QED
  BY <1>3 DEF F

LEMMA SumZero ==
  ASSUME NEW S, IsFiniteSet(S), NEW f, \A x \in S : f[x] = 0
  PROVE  Sum(f, S) = 0
<1> DEFINE F == {T \in SUBSET S : Sum(f, T) = 0}
<1>1. ASSUME NEW T \in SUBSET S, \A x \in T : T \ {x} \in F PROVE T \in F
  <2>1. IsFiniteSet(T) /\ \A x \in T : f[x] = 0 /\ f[x] \in Nat
    BY FS_Subset
  <2>2. CASE T = {}
    BY <2>1, <2>2, SumParts
  <2>3. CASE T # {}
    <3>1. PICK x \in T : TRUE
      BY <2>3
    <3>2. Sum(f, T) = f[x] + Sum(f, T \ {x})
      BY <2>1, SumParts
    <3>3. f[x] = 0 /\ Sum(f, T \ {x}) = 0
      BY <1>1, <2>1
    <3> QED
      BY <3>2, <3>3
  <2> QED
    BY <2>2, <2>3
<1> HIDE DEF F
<1>2. \A T \in SUBSET S : T \in F
  BY <1>1, AllSubsets
<1> QED
  BY <1>2 DEF F
-----------------------------------------------------------------------------
(***************************** The guess rate *****************************)

Bound(k) == Limit(k) - 1 + Cardinality(Request)

\* The failures of k from tick t on.
Since(k, t) == Sum(failed[k], t .. MaxTime)

NoneAhead(k) == \A t \in Time : t > now => failed[k][t] = 0

\* The failure that opened the bucket is not after its first tick.
InBucket(k) ==
  attempts[k].count > 0 =>
    \A t \in Time : t > attempts[k].first => Since(k, t) + 1 <= attempts[k].count + uncounted[k]

\* A stretch that reaches the bucket has at most one bucket before it, without
\* the failure that opened that one and the one that closed it.
AcrossTwo(k) ==
  attempts[k].count > 0 =>
    \A t \in Time : t + Window >= attempts[k].first =>
      Since(k, t) + 2 <= Bound(k) + attempts[k].count + uncounted[k]

\* A lock ends a window after the last failure that was charged.
BehindLock(k) ==
  attempts[k].count >= Limit(k) =>
    \A t \in Time : t + Lockout > attempts[k].lockedUntil => Since(k, t) <= uncounted[k]

WithoutBucket(k) ==
  attempts[k].count = 0 =>
    \A t \in Time : t + Window >= now =>
      Since(k, t) <= uncounted[k] \/ Since(k, t) + 2 <= Bound(k) + uncounted[k]

UpTo(t) == IF t + Window <= MaxTime THEN t + Window ELSE MaxTime

Rated(k) ==
  \A t \in Time : Sum(failed[k], t .. UpTo(t)) <= 2 * Bound(k) - 2 + uncounted[k]

Recent(k) == /\ NoneAhead(k) /\ InBucket(k) /\ AcrossTwo(k) /\ BehindLock(k)
             /\ WithoutBucket(k) /\ Rated(k)

RInv == Lockout > Window => \A k \in Key : Recent(k)

LEMMA GuessRateIs == GuessRate <=> (Lockout > Window => \A k \in Key : Rated(k))
<1>1. ASSUME NEW t \in Time PROVE Min({t + Window, MaxTime}) = UpTo(t)
  <2>1. t \in Nat /\ t + Window \in Nat /\ MaxTime \in Nat
    BY Constants, TimesAreNat
  <2>2. UpTo(t) \in {t + Window, MaxTime} /\ \A y \in {t + Window, MaxTime} : UpTo(t) <= y
    BY <2>1 DEF UpTo
  <2>3. \A x \in {t + Window, MaxTime} : (\A y \in {t + Window, MaxTime} : x <= y) => x = UpTo(t)
    BY <2>1 DEF UpTo
  <2> QED
    BY <2>2, <2>3 DEF Min
<1>2. ASSUME NEW k \in Key, NEW S PROVE MapThenSumSet(LAMBDA u : failed[k][u], S) = Sum(failed[k], S)
  BY DEF MapThenSumSet, MapThenFoldSet, Sum, Sums, IsSums, Some
<1>3. ASSUME NEW k \in Key, NEW t \in Time
      PROVE  MapThenSumSet(LAMBDA u : failed[k][u], t .. Min({t + Window, MaxTime})) = Sum(failed[k], t .. UpTo(t))
  BY <1>1, <1>2
<1>4. \A k \in Key : Limit(k) \in Nat /\ Cardinality(Request) \in Nat /\ Bound(k) = Limit(k) - 1 + Cardinality(Request)
  BY Limits, Verified DEF Bound
<1> QED
  BY <1>3, <1>4 DEF GuessRate, Rated

\* Failures are counted by ticks.
LEMMA Stretches ==
  ASSUME NEW f \in [Time -> Nat], NEW t \in Time, NEW e \in Time
  PROVE  /\ IsFiniteSet(t .. e) /\ Sum(f, t .. e) \in Nat /\ \A u \in t .. e : u \in Time /\ f[u] \in Nat
         /\ Sum(f, t .. e) <= Sum(f, t .. MaxTime)
<1>1. t \in Nat /\ e \in Nat /\ MaxTime \in Nat /\ e <= MaxTime /\ t <= MaxTime
  BY Constants DEF Time
<1>2. IsFiniteSet(t .. e) /\ IsFiniteSet(t .. MaxTime)
  BY <1>1, FS_Interval
<1>3. \A u \in t .. MaxTime : u \in Time /\ f[u] \in Nat
  BY <1>1 DEF Time
<1>4. t .. e \subseteq t .. MaxTime
  BY <1>1
<1> QED
  BY <1>2, <1>3, <1>4, SumParts, SumGrows

LEMMA FailureCounts ==
  ASSUME NEW f \in [Time -> Nat], NEW n \in Time, NEW t \in Time, NEW e \in Time
  PROVE  /\ t <= n /\ n <= e => Sum([f EXCEPT ![n] = @ + 1], t .. e) = Sum(f, t .. e) + 1
         /\ ~(t <= n /\ n <= e) => Sum([f EXCEPT ![n] = @ + 1], t .. e) = Sum(f, t .. e)
<1> DEFINE g == [f EXCEPT ![n] = @ + 1]
<1>1. IsFiniteSet(t .. e) /\ \A u \in t .. e : u \in Time /\ f[u] \in Nat
  BY Stretches
<1>2. \A u \in t .. e : f[u] \in Nat /\ g[u] \in Nat
  BY <1>1
<1>21. \A u \in (t .. e) \ {n} : g[u] = f[u]
  BY <1>1
<1>22. n \in t .. e => g[n] = f[n] + 1
  BY <1>1
<1>3. n \in t .. e <=> t <= n /\ n <= e
  BY TimesAreNat
<1> HIDE DEF g
<1>4. /\ n \in t .. e => Sum(g, t .. e) = Sum(f, t .. e) + 1
      /\ n \notin t .. e => Sum(g, t .. e) = Sum(f, t .. e)
  BY <1>1, <1>2, <1>21, <1>22, SumChanges
<1> QED
  BY <1>3, <1>4 DEF g

LEMMA SinceIs ==
  ASSUME TypeOK, NEW k \in Key, NEW t \in Time
  PROVE  /\ Since(k, t) \in Nat /\ Sum(failed[k], t .. UpTo(t)) \in Nat
         /\ Sum(failed[k], t .. UpTo(t)) <= Since(k, t)
         /\ UpTo(t) \in Time /\ UpTo(t) <= t + Window
<1>1. t \in Nat /\ t <= MaxTime /\ MaxTime \in Nat
  BY Constants DEF Time
<1>2. UpTo(t) \in Time /\ UpTo(t) <= t + Window
  BY <1>1, Constants DEF UpTo, Time
<1>3. failed[k] \in [Time -> Nat] /\ MaxTime \in Time
  BY <1>1 DEF TypeOK, Time
<1> QED
  BY <1>2, <1>3, Stretches DEF Since

\* There is nothing to come yet.
LEMMA NothingAhead ==
  ASSUME TypeOK, NEW k \in Key, NoneAhead(k), NEW t \in Time, t > now
  PROVE  Since(k, t) = 0
<1>1. /\ failed[k] \in [Time -> Nat] /\ MaxTime \in Time /\ now \in Nat /\ t \in Nat
  BY Constants, TimesAreNat DEF TypeOK, Time
<1>2. IsFiniteSet(t .. MaxTime) /\ \A u \in t .. MaxTime : u \in Time
  BY <1>1, Stretches
<1>3. \A u \in t .. MaxTime : failed[k][u] = 0
  <2> SUFFICES ASSUME NEW u \in t .. MaxTime PROVE failed[k][u] = 0
    OBVIOUS
  <2>1. u \in Time /\ u > now
    BY <1>1, <1>2, Constants
  <2> QED
    BY <2>1 DEF NoneAhead
<1> QED
  BY <1>2, <1>3, SumZero DEF Since

\* The numbers of a key, for arithmetic.
LEMMA Numbers ==
  ASSUME TypeOK, NEW k \in Key
  PROVE  /\ attempts[k] \in Bucket /\ attempts[k].count \in Nat /\ attempts[k].first \in Nat
         /\ attempts[k].lockedUntil \in Nat /\ uncounted[k] \in Nat /\ now \in Nat
         /\ Limit(k) \in Nat /\ Limit(k) >= 2 /\ Cardinality(Request) \in Nat
         /\ Bound(k) = Limit(k) - 1 + Cardinality(Request) /\ Bound(k) \in Nat /\ Bound(k) >= 1
         /\ Window \in Nat /\ Lockout \in Nat
<1>1. attempts[k] \in Bucket /\ uncounted[k] \in Nat /\ now \in Nat
  BY TimesAreNat DEF TypeOK
<1>2. Limit(k) \in Nat /\ Limit(k) >= 2 /\ Cardinality(Request) \in Nat
  BY Limits, Verified
<1>3. Bound(k) = Limit(k) - 1 + Cardinality(Request)
  BY DEF Bound
<1> QED
  BY <1>1, <1>2, <1>3, BucketFields, Constants

\* Nothing of the key changes.
LEMMA SameKey ==
  ASSUME NEW k \in Key, Recent(k), now' = now, attempts'[k] = attempts[k],
         failed'[k] = failed[k], uncounted'[k] = uncounted[k]
  PROVE  Recent(k)'
<1>1. Bound(k)' = Bound(k) /\ Limit(k)' = Limit(k)
  BY DEF Bound, Limit, MaximumAttempts
<1>2. \A t \in Time : Since(k, t)' = Since(k, t)
  BY DEF Since
<1> QED
  BY <1>1, <1>2 DEF Recent, NoneAhead, InBucket, AcrossTwo, BehindLock, WithoutBucket, Rated

\* The bucket of an old window goes, its lock with it.
LEMMA KeyPruned ==
  ASSUME TypeOK, LocksKept, Lockout > Window, NEW k \in Key, Recent(k), now' = now, attempts'[k] = NoBucket,
         attempts[k].count > 0, ~Locks(attempts[k]), Over(attempts[k]),
         failed'[k] = failed[k], uncounted'[k] = uncounted[k], Request # {}
  PROVE  Recent(k)'
<1>1. Bound(k)' = Bound(k) /\ Limit(k)' = Limit(k)
  BY DEF Bound, Limit, MaximumAttempts
<1>2. \A t \in Time : Since(k, t)' = Since(k, t) /\ Since(k, t) \in Nat
  BY SinceIs DEF Since
<1>3. attempts'[k].count = 0
  BY NoBucketIsOne
<1>4. ASSUME NEW t \in Time, t + Window >= now
      PROVE  Since(k, t) <= uncounted[k] \/ Since(k, t) + 2 <= Bound(k) + uncounted[k]
  <2>1. now - attempts[k].first > Window /\ attempts[k].lockedUntil <= now /\ t \in Nat
    BY Numbers, TimesAreNat DEF Over, Locks
  <2>2. t > attempts[k].first
    BY <1>4, <2>1, Numbers
  <2>3. Since(k, t) + 1 <= attempts[k].count + uncounted[k]
    BY <2>2 DEF Recent, InBucket
  <2>4. CASE attempts[k].count < Limit(k)
    <3>1. Cardinality(Request) >= 1
      BY KeysFinite, FS_EmptySet, Verified
    <3> QED
      BY <1>2, <2>3, <2>4, <3>1, Numbers
  <2>5. CASE attempts[k].count >= Limit(k)
    <3>1. t + Lockout > attempts[k].lockedUntil
      BY <1>4, <2>1, Numbers
    <3> QED
      BY <2>5, <3>1 DEF Recent, BehindLock
  <2> QED
    BY <2>4, <2>5, Numbers
<1> QED
  BY <1>1, <1>2, <1>3, <1>4, Numbers DEF Recent, NoneAhead, InBucket, AcrossTwo, BehindLock, WithoutBucket, Rated

LEMMA NeverSums == \A t \in Time, e \in Time : Sum(Never, t .. e) = 0
<1> SUFFICES ASSUME NEW t \in Time, NEW e \in Time PROVE Sum(Never, t .. e) = 0
  OBVIOUS
<1>1. Never \in [Time -> Nat] /\ \A u \in Time : Never[u] = 0
  BY DEF Never
<1>2. IsFiniteSet(t .. e) /\ \A u \in t .. e : Never[u] = 0
  BY <1>1, Stretches
<1> QED
  BY <1>2, SumZero

\* A success of an account.
LEMMA KeyReset ==
  ASSUME TypeOK, NEW k \in Key, now' = now, attempts'[k] = NoBucket, failed'[k] = Never, uncounted'[k] = 0
  PROVE  Recent(k)'
<1>1. Bound(k)' = Bound(k) /\ Limit(k)' = Limit(k)
  BY DEF Bound, Limit, MaximumAttempts
<1>2. \A t \in Time, e \in Time : Sum(failed'[k], t .. e) = 0
  BY NeverSums
<1>3. attempts'[k].count = 0
  BY NoBucketIsOne
<1>4. MaxTime \in Time /\ \A t \in Time : UpTo(t) \in Time
  <2>1. MaxTime \in Time
    BY Constants DEF Time
  <2> QED
    BY <2>1, SinceIs
<1>5. Rated(k)'
  BY <1>1, <1>2, <1>4, Numbers DEF Rated
<1>6. WithoutBucket(k)'
  BY <1>1, <1>2, <1>4 DEF WithoutBucket, Since
<1>7. NoneAhead(k)' /\ InBucket(k)' /\ AcrossTwo(k)' /\ BehindLock(k)'
  BY <1>1, <1>3, Numbers DEF NoneAhead, InBucket, AcrossTwo, BehindLock, Never
<1> QED
  BY <1>5, <1>6, <1>7 DEF Recent

\* Time passes.
LEMMA KeyWaits ==
  ASSUME TypeOK, NEW k \in Key, Recent(k), now' = now + 1, attempts'[k] = attempts[k],
         failed'[k] = failed[k], uncounted'[k] = uncounted[k]
  PROVE  Recent(k)'
<1>1. Bound(k)' = Bound(k) /\ Limit(k)' = Limit(k)
  BY DEF Bound, Limit, MaximumAttempts
<1>2. \A t \in Time : Since(k, t)' = Since(k, t) /\ t \in Nat
  BY TimesAreNat DEF Since
<1>3. now \in Nat /\ Window \in Nat
  BY Numbers
<1>4. NoneAhead(k)' /\ WithoutBucket(k)'
  BY <1>1, <1>2, <1>3 DEF Recent, NoneAhead, WithoutBucket
<1> QED
  BY <1>1, <1>2, <1>4 DEF Recent, InBucket, AcrossTwo, BehindLock, Rated

\* A failure at this tick.
LEMMA OneMore ==
  ASSUME TypeOK, NEW k \in Key, NoneAhead(k), now' = now,
         failed'[k] = [failed[k] EXCEPT ![now] = @ + 1]
  PROVE  /\ Bound(k)' = Bound(k) /\ Limit(k)' = Limit(k) /\ NoneAhead(k)'
         /\ \A t \in Time : /\ Since(k, t) \in Nat /\ Since(k, t)' \in Nat
                            /\ t <= now => Since(k, t)' = Since(k, t) + 1
                            /\ t > now => Since(k, t)' = 0 /\ Since(k, t) = 0
<1>1. /\ failed[k] \in [Time -> Nat] /\ now \in Time /\ now \in Nat /\ MaxTime \in Time
      /\ now <= MaxTime
  BY Constants, TimesAreNat DEF TypeOK, Time
<1>2. Bound(k)' = Bound(k) /\ Limit(k)' = Limit(k)
  BY DEF Bound, Limit, MaximumAttempts
<1>3. NoneAhead(k)'
  BY <1>1 DEF NoneAhead
<1>4. ASSUME NEW t \in Time
      PROVE  /\ Since(k, t) \in Nat
             /\ t <= now => Since(k, t)' = Since(k, t) + 1
             /\ t > now => Since(k, t)' = 0 /\ Since(k, t) = 0
  <2>1. Since(k, t) \in Nat
    BY SinceIs
  <2>2. t <= now => Since(k, t)' = Since(k, t) + 1
    BY <1>1, FailureCounts DEF Since
  <2>3. ~(t <= now) => Since(k, t)' = Since(k, t)
    BY <1>1, FailureCounts DEF Since
  <2>4. t > now => Since(k, t) = 0 /\ ~(t <= now)
    BY <1>1, NothingAhead, TimesAreNat
  <2> QED
    BY <2>1, <2>2, <2>3, <2>4
<1>5. ASSUME NEW t \in Time PROVE Since(k, t)' \in Nat
  <2>1. t \in Nat
    BY TimesAreNat
  <2>2. t <= now \/ t > now
    BY <1>1, <2>1
  <2> QED
    BY <1>4, <2>2
<1> QED
  BY <1>2, <1>3, <1>4, <1>5

\* The bound of a stretch, where what reaches the bucket is bounded.
LEMMA RateKept ==
  ASSUME TypeOK, NEW k \in Key, Rated(k), now' = now,
         failed'[k] = [failed[k] EXCEPT ![now] = @ + 1],
         uncounted'[k] \in Nat, uncounted[k] <= uncounted'[k],
         \A t \in Time : t <= now /\ t + Window >= now =>
           Since(k, t)' <= 2 * Bound(k) - 2 + uncounted'[k]
  PROVE  Rated(k)'
<1>1. /\ failed[k] \in [Time -> Nat] /\ now \in Time /\ now \in Nat /\ MaxTime \in Time
      /\ now <= MaxTime
  BY Constants, TimesAreNat DEF TypeOK, Time
<1>2. Bound(k)' = Bound(k) /\ Bound(k) \in Nat /\ Bound(k) >= 1 /\ uncounted[k] \in Nat /\ Window \in Nat
  BY Numbers DEF Bound, Limit, MaximumAttempts
<1>3. ASSUME NEW t \in Time
      PROVE  Sum(failed'[k], t .. UpTo(t)) <= 2 * Bound(k) - 2 + uncounted'[k]
  <2>1. UpTo(t) \in Time /\ UpTo(t) <= t + Window /\ t \in Nat /\ UpTo(t) \in Nat
    BY SinceIs, TimesAreNat
  <2>2. Sum(failed[k], t .. UpTo(t)) \in Nat
        /\ Sum(failed[k], t .. UpTo(t)) <= 2 * Bound(k) - 2 + uncounted[k]
    BY SinceIs DEF Rated
  <2>3. CASE t <= now /\ now <= UpTo(t)
    <3>1. failed'[k] \in [Time -> Nat]
      BY <1>1
    <3>2. Sum(failed'[k], t .. UpTo(t)) <= Since(k, t)' /\ Sum(failed'[k], t .. UpTo(t)) \in Nat
      BY <1>1, <2>1, <3>1, Stretches DEF Since
    <3>3. Since(k, t)' \in Nat
      BY <1>1, <3>1, Stretches DEF Since
    <3>4. Since(k, t)' <= 2 * Bound(k) - 2 + uncounted'[k]
      BY <1>1, <1>2, <2>1, <2>3
    <3> QED
      BY <1>2, <3>2, <3>3, <3>4
  <2>4. CASE ~(t <= now /\ now <= UpTo(t))
    <3>1. Sum(failed'[k], t .. UpTo(t)) = Sum(failed[k], t .. UpTo(t))
      BY <1>1, <2>1, <2>4, FailureCounts
    <3> QED
      BY <1>2, <2>2, <3>1
  <2> QED
    BY <2>3, <2>4
<1> QED
  BY <1>2, <1>3 DEF Rated, UpTo

\* A failure that finds no room.
LEMMA KeyUncounted ==
  ASSUME TypeOK, NEW k \in Key, Recent(k), now' = now, attempts'[k] = attempts[k], attempts[k].count = 0,
         failed'[k] = [failed[k] EXCEPT ![now] = @ + 1], uncounted'[k] = uncounted[k] + 1
  PROVE  Recent(k)'
<1>1. /\ Bound(k)' = Bound(k) /\ Limit(k)' = Limit(k) /\ NoneAhead(k)'
      /\ \A t \in Time : /\ Since(k, t) \in Nat /\ Since(k, t)' \in Nat
                         /\ t <= now => Since(k, t)' = Since(k, t) + 1
                         /\ t > now => Since(k, t)' = 0 /\ Since(k, t) = 0
  BY OneMore DEF Recent
<1>2. /\ Limit(k) \in Nat /\ Limit(k) >= 2 /\ Bound(k) \in Nat /\ Bound(k) >= 1 /\ uncounted[k] \in Nat
      /\ now \in Nat /\ Window \in Nat
  BY Numbers
<1>3. ASSUME NEW t \in Time, t + Window >= now
      PROVE  Since(k, t)' <= uncounted'[k] \/ Since(k, t)' + 2 <= Bound(k) + uncounted'[k]
  <2>1. Since(k, t) <= uncounted[k] \/ Since(k, t) + 2 <= Bound(k) + uncounted[k]
    BY <1>3 DEF Recent, WithoutBucket
  <2>2. t \in Nat
    BY TimesAreNat
  <2>3. CASE t <= now
    BY <1>1, <1>2, <2>1, <2>3
  <2>4. CASE t > now
    BY <1>1, <1>2, <2>4
  <2> QED
    BY <1>2, <2>2, <2>3, <2>4
<1>4. InBucket(k)' /\ AcrossTwo(k)' /\ BehindLock(k)' /\ WithoutBucket(k)'
  BY <1>1, <1>2, <1>3 DEF InBucket, AcrossTwo, BehindLock, WithoutBucket
<1>5. Rated(k)'
  <2>1. \A t \in Time : t <= now /\ t + Window >= now =>
          Since(k, t)' <= 2 * Bound(k) - 2 + uncounted'[k]
    BY <1>1, <1>2, <1>3
  <2>2. uncounted'[k] \in Nat /\ uncounted[k] <= uncounted'[k]
    BY <1>2
  <2> QED
    BY <2>1, <2>2, RateKept DEF Recent
<1> QED
  BY <1>1, <1>4, <1>5 DEF Recent

\* A failure that is charged: one of the requests that were let through.
LEMMA KeyCharged ==
  ASSUME TypeOK, NEW k \in Key, Recent(k), now' = now, attempts'[k] = Charge(attempts[k], k),
         failed'[k] = [failed[k] EXCEPT ![now] = @ + 1], uncounted'[k] = uncounted[k],
         attempts[k].count + 1 <= Bound(k), Bound(k) >= 2
  PROVE  Recent(k)'
<1> DEFINE u == uncounted[k]
<1>1. /\ Bound(k)' = Bound(k) /\ Limit(k)' = Limit(k) /\ NoneAhead(k)'
      /\ \A t \in Time : /\ Since(k, t) \in Nat /\ Since(k, t)' \in Nat
                         /\ t <= now => Since(k, t)' = Since(k, t) + 1
                         /\ t > now => Since(k, t)' = 0 /\ Since(k, t) = 0
  BY OneMore DEF Recent
<1>2. /\ Limit(k) \in Nat /\ Limit(k) >= 2 /\ Limit(k) >= MaximumAttempts(k) /\ MaximumAttempts(k) \in Nat
      /\ Bound(k) \in Nat /\ u \in Nat /\ now \in Nat /\ Window \in Nat /\ Lockout \in Nat
      /\ attempts[k] \in Bucket /\ attempts[k].count \in Nat /\ attempts[k].first \in Nat
      /\ attempts[k].lockedUntil \in Nat
  BY Numbers, Limits
<1>3. CASE attempts[k].count = 0 \/ Over(attempts[k])
  <2>1. attempts'[k].count = 1 /\ attempts'[k].first = now
    BY <1>3 DEF Charge
  <2>2. ASSUME NEW t \in Time, t + Window >= now PROVE Since(k, t)' + 2 <= Bound(k) + 1 + u
    <3>1. t \in Nat
      BY TimesAreNat
    <3>2. CASE t > now
      BY <1>1, <1>2, <3>2
    <3>3. CASE t <= now /\ attempts[k].count = 0
      <4>1. Since(k, t) <= u \/ Since(k, t) + 2 <= Bound(k) + u
        BY <2>2, <3>3 DEF Recent, WithoutBucket
      <4> QED
        BY <1>1, <1>2, <3>3, <4>1
    <3>4. CASE t <= now /\ attempts[k].count > 0
      <4>1. t > attempts[k].first
        BY <1>2, <1>3, <2>2, <3>1, <3>4 DEF Over
      <4>2. Since(k, t) + 1 <= attempts[k].count + u
        BY <3>4, <4>1 DEF Recent, InBucket
      <4> QED
        BY <1>1, <1>2, <3>4, <4>2
    <3> QED
      BY <1>2, <3>1, <3>2, <3>3, <3>4
  <2>3. AcrossTwo(k)'
    BY <1>1, <1>2, <2>1, <2>2 DEF AcrossTwo
  <2>4. InBucket(k)'
    BY <1>1, <1>2, <2>1 DEF InBucket
  <2>5. BehindLock(k)' /\ WithoutBucket(k)'
    BY <1>1, <1>2, <2>1 DEF BehindLock, WithoutBucket
  <2>6. \A t \in Time : t <= now /\ t + Window >= now => Since(k, t)' <= 2 * Bound(k) - 2 + u
    BY <1>1, <1>2, <2>2
  <2>7. Rated(k)'
    BY <1>2, <2>6, RateKept DEF Recent
  <2> QED
    BY <1>1, <2>3, <2>4, <2>5, <2>7 DEF Recent
<1>4. CASE attempts[k].count > 0 /\ ~Over(attempts[k])
  <2> DEFINE n == attempts[k].count + 1
  <2>1. /\ attempts'[k].count = n /\ attempts'[k].first = attempts[k].first
        /\ n >= MaximumAttempts(k) => attempts'[k].lockedUntil = now + Lockout
    BY <1>2, <1>4 DEF Charge, LockUntil, Bucket
  <2>2. ASSUME NEW t \in Time PROVE Since(k, t)' <= Since(k, t) + 1 /\ t \in Nat
    <3>1. t \in Nat
      BY TimesAreNat
    <3>2. CASE t <= now
      BY <1>1, <3>1, <3>2
    <3>3. CASE t > now
      BY <1>1, <3>1, <3>3
    <3> QED
      BY <1>2, <3>1, <3>2, <3>3
  <2>3. InBucket(k)'
    <3>1. ASSUME NEW t \in Time, t > attempts[k].first PROVE Since(k, t)' + 1 <= n + u
      <4>1. Since(k, t) + 1 <= attempts[k].count + u
        BY <1>4, <3>1 DEF Recent, InBucket
      <4> QED
        BY <1>1, <1>2, <2>2, <4>1
    <3> QED
      BY <2>1, <3>1 DEF InBucket
  <2>4. ASSUME NEW t \in Time, t + Window >= attempts[k].first
        PROVE  Since(k, t)' + 2 <= Bound(k) + n + u
    <3>1. Since(k, t) + 2 <= Bound(k) + attempts[k].count + u
      BY <1>4, <2>4 DEF Recent, AcrossTwo
    <3> QED
      BY <1>1, <1>2, <2>2, <3>1
  <2>5. AcrossTwo(k)'
    BY <1>1, <2>1, <2>4 DEF AcrossTwo
  <2>6. BehindLock(k)'
    <3>1. ASSUME n >= Limit(k), NEW t \in Time, t + Lockout > now + Lockout PROVE Since(k, t)' <= u
      BY <1>1, <1>2, <2>2, <3>1
    <3>2. n >= Limit(k) => attempts'[k].lockedUntil = now + Lockout
      BY <1>2, <2>1
    <3> QED
      BY <1>1, <2>1, <3>1, <3>2 DEF BehindLock
  <2>7. WithoutBucket(k)'
    BY <1>2, <2>1 DEF WithoutBucket
  <2>8. attempts[k].first <= now
    BY <1>4 DEF TypeOK
  <2>9. \A t \in Time : t <= now /\ t + Window >= now => Since(k, t)' <= 2 * Bound(k) - 2 + u
    BY <1>1, <1>2, <2>2, <2>4, <2>8
  <2>10. Rated(k)'
    BY <1>2, <2>9, RateKept DEF Recent
  <2> QED
    BY <1>1, <2>3, <2>5, <2>6, <2>7, <2>10 DEF Recent
<1> QED
  BY <1>2, <1>3, <1>4

-----------------------------------------------------------------------------
(******************** Every step keeps what is recent *********************)

LEMMA BeginRecent ==
  ASSUME IInv, Lockout > Window, NEW k \in Key, Recent(k),
         NEW q \in Request, NEW a \in Account, NEW i \in Ip, Begin(q, a, i)
  PROVE  Recent(k)'
<1>1. /\ TypeOK /\ LocksKept /\ Request # {} /\ now' = now /\ attempts' = Prune(attempts)
      /\ failed'[k] = failed[k] /\ uncounted'[k] = uncounted[k]
  BY DEF Begin, IInv
<1>2. attempts'[k] = IF attempts[k].count > 0 /\ ~Locks(attempts[k]) /\ Over(attempts[k])
                     THEN NoBucket ELSE attempts[k]
  BY <1>1 DEF Prune
<1>3. CASE attempts[k].count > 0 /\ ~Locks(attempts[k]) /\ Over(attempts[k])
  BY <1>1, <1>2, <1>3, KeyPruned
<1>4. CASE ~(attempts[k].count > 0 /\ ~Locks(attempts[k]) /\ Over(attempts[k]))
  BY <1>1, <1>2, <1>4, SameKey
<1> QED
  BY <1>3, <1>4

LEMMA FailRecent ==
  ASSUME IInv, Lockout > Window, NEW k \in Key, Recent(k), NEW q \in Request, Fail(q)
  PROVE  Recent(k)'
<1> DEFINE a == pair[q][1]
           i == pair[q][2]
<1>1. /\ TypeOK /\ Good(attempts) /\ End(q) /\ pair[q] # None /\ now' = now
      /\ failed' = [j \in Key |-> IF j \in {a, i} THEN [failed[j] EXCEPT ![now] = @ + 1] ELSE failed[j]]
      /\ uncounted' = [j \in Key |-> IF j \in {a, i} /\ attempts'[j].count = 0
                                      THEN uncounted[j] + 1 ELSE uncounted[j]]
  BY AttemptsGood DEF Fail, End, IInv
<1>2. q \in Verifying(k) <=> k \in {a, i}
  BY <1>1, PairOf
<1> HIDE DEF a, i
<1>3. \/ q \notin Verifying(k) /\ attempts'[k] = attempts[k]
      \/ q \in Verifying(k) /\ attempts'[k] = Charge(attempts[k], k)
      \/ q \in Verifying(k) /\ attempts'[k] = attempts[k] /\ attempts[k].count = 0
  BY <1>1, FailTable
<1>4. CASE q \notin Verifying(k) /\ attempts'[k] = attempts[k]
  <2>1. failed'[k] = failed[k] /\ uncounted'[k] = uncounted[k]
    BY <1>1, <1>2, <1>4
  <2> QED
    BY <1>1, <1>4, <2>1, SameKey
<1>5. CASE q \in Verifying(k) /\ attempts'[k] = Charge(attempts[k], k)
  <2>1. /\ attempts[k] \in Bucket /\ LockedWell(attempts[k], k)
        /\ (attempts[k].count > 0 => attempts[k].first <= now)
    BY <1>1 DEF Good, Table
  <2>2. attempts'[k].count > 0
    BY <1>1, <1>5, <2>1, Charged
  <2>3. failed'[k] = [failed[k] EXCEPT ![now] = @ + 1] /\ uncounted'[k] = uncounted[k]
    BY <1>1, <1>2, <1>5, <2>2
  <2>4. attempts[k].count + Cardinality(Verifying(k)) <= Bound(k)
    BY Overshoot DEF IInv, Bounded, Bound
  <2>5. Cardinality(Verifying(k)) >= 1
    BY <1>5, Verified, FS_EmptySet
  <2>6. /\ attempts[k].count \in Nat /\ Bound(k) \in Nat /\ Bound(k) = Limit(k) - 1 + Cardinality(Request)
        /\ Limit(k) \in Nat /\ Limit(k) >= 2 /\ Cardinality(Request) \in Nat
    BY <1>1, Numbers
  <2>7. Cardinality(Verifying(k)) \in Nat /\ Cardinality(Verifying(k)) <= Cardinality(Request)
    BY Verified
  <2>8. attempts[k].count + 1 <= Bound(k) /\ Bound(k) >= 2
    BY <2>4, <2>5, <2>6, <2>7
  <2> QED
    BY <1>1, <1>5, <2>3, <2>8, KeyCharged
<1>6. CASE q \in Verifying(k) /\ attempts'[k] = attempts[k] /\ attempts[k].count = 0
  <2>1. failed'[k] = [failed[k] EXCEPT ![now] = @ + 1] /\ uncounted'[k] = uncounted[k] + 1
    BY <1>1, <1>2, <1>6
  <2> QED
    BY <1>1, <1>6, <2>1, KeyUncounted
<1> QED
  BY <1>3, <1>4, <1>5, <1>6

LEMMA SucceedRecent ==
  ASSUME IInv, NEW k \in Key, Recent(k), NEW q \in Request, Succeed(q)
  PROVE  Recent(k)'
<1> DEFINE a == pair[q][1]
<1>1. /\ TypeOK /\ now' = now /\ attempts' = [attempts EXCEPT ![a] = NoBucket]
      /\ failed' = [failed EXCEPT ![a] = Never] /\ uncounted' = [uncounted EXCEPT ![a] = 0]
  BY DEF Succeed, IInv
<1> HIDE DEF a
<1>2. CASE k = a
  <2>1. attempts'[k] = NoBucket /\ failed'[k] = Never /\ uncounted'[k] = 0
    BY <1>1, <1>2 DEF TypeOK
  <2> QED
    BY <1>1, <2>1, KeyReset
<1>3. CASE k # a
  <2>1. attempts'[k] = attempts[k] /\ failed'[k] = failed[k] /\ uncounted'[k] = uncounted[k]
    BY <1>1, <1>3 DEF TypeOK
  <2> QED
    BY <1>1, <2>1, SameKey
<1> QED
  BY <1>2, <1>3

LEMMA RecentKept == IInv /\ RInv /\ [Next]_vars => RInv'
<1> SUFFICES ASSUME IInv, RInv, [Next]_vars, Lockout > Window, NEW k \in Key PROVE Recent(k)'
  BY DEF RInv
<1>1. Recent(k) /\ TypeOK
  BY DEF RInv, IInv
<1>2. ASSUME NEW q \in Request, NEW a \in Account, NEW i \in Ip, Begin(q, a, i) PROVE Recent(k)'
  BY <1>1, <1>2, BeginRecent
<1>3. ASSUME NEW q \in Request, Fail(q) PROVE Recent(k)'
  BY <1>1, <1>3, FailRecent
<1>4. ASSUME NEW q \in Request, Succeed(q) PROVE Recent(k)'
  BY <1>1, <1>4, SucceedRecent
<1>5. ASSUME NEW q \in Request, Leave(q) PROVE Recent(k)'
  <2>1. now' = now /\ attempts' = attempts /\ failed' = failed /\ uncounted' = uncounted
    BY <1>5 DEF Leave
  <2> QED
    BY <1>1, <2>1, SameKey
<1>6. CASE Tick
  <2>1. now' = now + 1 /\ attempts' = attempts /\ failed' = failed /\ uncounted' = uncounted
    BY <1>6 DEF Tick
  <2> QED
    BY <1>1, <2>1, KeyWaits
<1>7. CASE UNCHANGED vars
  <2>1. now' = now /\ attempts' = attempts /\ failed' = failed /\ uncounted' = uncounted
    BY <1>7 DEF vars
  <2> QED
    BY <1>1, <2>1, SameKey
<1> QED
  BY <1>2, <1>3, <1>4, <1>5, <1>6, <1>7 DEF Next

LEMMA RecentFirst == Init => RInv
<1> SUFFICES ASSUME Init, NEW k \in Key PROVE Recent(k)
  BY DEF RInv
<1>1. attempts[k] = NoBucket /\ failed[k] = Never /\ uncounted[k] = 0 /\ attempts[k].count = 0 /\ TypeOK
  BY NoBucketIsOne, InitEstablishes DEF Init, IInv
<1>2. \A t \in Time, e \in Time : Sum(failed[k], t .. e) = 0
  BY <1>1, NeverSums
<1>3. MaxTime \in Time /\ \A t \in Time : UpTo(t) \in Time
  <2>1. MaxTime \in Time
    BY Constants DEF Time
  <2> QED
    BY <1>1, <2>1, SinceIs
<1>4. Rated(k)
  BY <1>1, <1>2, <1>3, Numbers DEF Rated
<1>5. WithoutBucket(k)
  BY <1>1, <1>2, <1>3 DEF WithoutBucket, Since
<1>6. NoneAhead(k) /\ InBucket(k) /\ AcrossTwo(k) /\ BehindLock(k)
  BY <1>1, Numbers DEF NoneAhead, InBucket, AcrossTwo, BehindLock, Never
<1> QED
  BY <1>4, <1>5, <1>6 DEF Recent

-----------------------------------------------------------------------------
(******************************* Theorems ********************************)

(***************************************************************************)
(* The table, the clock and the counts keep their types; no bucket is of   *)
(* the future.                                                             *)
(***************************************************************************)
THEOREM ThrottleTyped == Spec => []TypeOK
<1>1. IInv => TypeOK
  BY DEF IInv
<1> QED BY <1>1, Inductive, PTL

(***************************************************************************)
(* The table never has more than maxBuckets buckets, however many requests *)
(* were let through before it was full.                                    *)
(***************************************************************************)
THEOREM TableBounded == Spec => []WithinBuckets
<1>1. IInv => WithinBuckets
  BY DEF IInv
<1> QED BY <1>1, Inductive, PTL

(***************************************************************************)
(* When a lock outlasts a window, parallel requests overshoot the limit of *)
(* a key by less than their number.                                        *)
(***************************************************************************)
THEOREM OvershootIsBounded == Spec => []OvershootBounded
<1>1. IInv => OvershootBounded
  BY DEF IInv
<1> QED BY <1>1, Inductive, PTL

(***************************************************************************)
(* A lock lasts, but for a verification that was let through before it.    *)
(***************************************************************************)
THEOREM LocksLast == Spec => LocksHold
<1> DEFINE Lasts(k) ==
             Locks(attempts[k]) /\ attempts[k].lockedUntil > now' =>
               \/ attempts'[k].lockedUntil > now'
               \/ \E q \in Verifying(k) : \/ Fail(q) /\ Over(attempts[k])
                                          \/ Succeed(q) /\ k \in Account
<1>1. ASSUME IInv, Next, NEW k \in Key, Locks(attempts[k]), attempts[k].lockedUntil > now'
      PROVE  \/ attempts'[k].lockedUntil > now'
             \/ \E q \in Verifying(k) : (Fail(q) /\ Over(attempts[k])) \/ (Succeed(q) /\ k \in Account)
  <2>1. /\ TypeOK /\ LocksKept /\ Good(attempts) /\ attempts[k] \in Bucket /\ attempts[k].count > 0
        /\ LockedWell(attempts[k], k) /\ (attempts[k].count > 0 => attempts[k].first <= now)
    BY <1>1, AttemptsGood DEF IInv, TypeOK, LocksKept, Locks
  <2>2. CASE attempts'[k] = attempts[k]
    BY <1>1, <2>2
  <2>3. ASSUME NEW q \in Request, NEW a \in Account, NEW i \in Ip, Begin(q, a, i)
        PROVE  attempts'[k] = attempts[k]
    BY <1>1, <2>1, <2>3, Pruned DEF Begin
  <2>4. ASSUME NEW q \in Request, Fail(q)
        PROVE  \/ attempts'[k] = attempts[k]
               \/ attempts'[k].lockedUntil > now'
               \/ q \in Verifying(k) /\ Over(attempts[k])
    <3>1. \/ attempts'[k] = attempts[k]
          \/ q \in Verifying(k) /\ attempts'[k] = Charge(attempts[k], k)
      BY <2>1, <2>4, FailTable
    <3>2. ~Over(attempts[k]) => Charge(attempts[k], k).lockedUntil > now
      BY <1>1, <2>1, Charged DEF Locks
    <3>3. now' = now
      BY <2>4 DEF Fail
    <3> QED BY <3>1, <3>2, <3>3
  <2>5. ASSUME NEW q \in Request, Succeed(q)
        PROVE  attempts'[k] = attempts[k] \/ (q \in Verifying(k) /\ k \in Account)
    <3>1. attempts' = [attempts EXCEPT ![pair[q][1]] = NoBucket] /\ pair[q] # None
      BY <2>5 DEF Succeed, End
    <3>2. pair[q][1] \in Account /\ \A j \in Key : j = pair[q][1] => q \in Verifying(j)
      BY <2>1, <3>1, PairOf
    <3> QED BY <2>1, <3>1, <3>2 DEF TypeOK
  <2>6. ASSUME Tick \/ \E q \in Request : Leave(q) PROVE attempts'[k] = attempts[k]
    BY <2>6 DEF Tick, Leave
  <2> QED BY <1>1, <2>2, <2>3, <2>4, <2>5, <2>6 DEF Next
<1>2. IInv /\ [Next]_vars => [\A k \in Key : Lasts(k)]_vars
  BY <1>1
<1> QED BY <1>2, Inductive, PTL DEF Spec, LocksHold

(***************************************************************************)
(* When a lock outlasts a window, no stretch of windowMs holds more failed *)
(* answers of a key than two windows with the requests of one moment on    *)
(* top of each, but for the failures that found the table full.            *)
(***************************************************************************)
THEOREM GuessRateHolds == Spec => []GuessRate
<1>1. RInv => GuessRate
  BY GuessRateIs DEF RInv, Recent
<1> QED BY <1>1, Inductive, RecentFirst, RecentKept, PTL DEF Spec
-----------------------------------------------------------------------------
(************************ The lookups of the public ***********************)

LEMMA LookupConstants ==
  /\ Requests \in Nat \ {0} /\ MaxRequests \in Nat \ {0} /\ LookupBuckets \in Nat \ {0}
  /\ LookupWindow \in Nat \ {0} /\ MaxEntries \in Nat \ {0} /\ Ttl \in Nat \ {0}
  /\ LastTick \in Nat /\ NoSlug \notin Slug /\ IsFiniteSet(Client)
BY LookupsAssumption

-----------------------------------------------------------------------------
(************************** Parts of a sequence **************************)

\* The place of i among the places T.
Rank(T, i) == Cardinality({j \in T : j <= i})

LEMMA Ranks ==
  ASSUME NEW n \in Nat, NEW T \in SUBSET (1 .. n)
  PROVE  /\ Cardinality(T) \in 0 .. n /\ (Cardinality(T) = n => T = 1 .. n)
         /\ \A i \in T : Rank(T, i) \in 1 .. Cardinality(T)
         /\ \A i, j \in T : i < j => Rank(T, i) < Rank(T, j)
         /\ \A m \in 1 .. Cardinality(T) : \E i \in T : Rank(T, i) = m
<1> DEFINE Upto(i) == {j \in T : j <= i}
           c == Cardinality(T)
<1>0. T \subseteq Nat
  OBVIOUS
<1>1. IsFiniteSet(1 .. n) /\ Cardinality(1 .. n) = n
  BY FS_Interval
<1>2. IsFiniteSet(T) /\ c \in Nat /\ c <= n /\ (c = n => T = 1 .. n)
  BY <1>1, FS_Subset, FS_CardinalityType
<1>3. \A i \in T : IsFiniteSet(Upto(i)) /\ Rank(T, i) \in Nat /\ Rank(T, i) <= c
  BY <1>2, FS_Subset, FS_CardinalityType DEF Rank
<1>4. \A i \in T : Rank(T, i) # 0
  <2> SUFFICES ASSUME NEW i \in T PROVE Rank(T, i) # 0
    OBVIOUS
  <2>1. i \in Upto(i)
    BY <1>0
  <2> QED
    BY <1>3, <2>1, FS_EmptySet DEF Rank
<1>5. \A i, j \in T : i < j => Rank(T, i) < Rank(T, j)
  <2> SUFFICES ASSUME NEW i \in T, NEW j \in T, i < j PROVE Rank(T, i) < Rank(T, j)
    OBVIOUS
  <2>0. i \in Nat /\ j \in Nat
    BY <1>0
  <2>1. Upto(i) \in SUBSET Upto(j)
    <3> SUFFICES ASSUME NEW k \in T, k <= i PROVE k <= j
      OBVIOUS
    <3> QED
      BY <1>0, <2>0
  <2>4. j \in Upto(j) /\ j \notin Upto(i)
    BY <2>0
  <2>2. Rank(T, i) <= Rank(T, j) /\ Rank(T, j) # Rank(T, i)
    BY <1>3, <2>1, <2>4, FS_Subset DEF Rank
  <2>3. Rank(T, i) \in Nat /\ Rank(T, j) \in Nat
    BY <1>3
  <2> QED
    BY <2>2, <2>3
<1>6. \A m \in 1 .. c : \E i \in T : Rank(T, i) = m
  <2> DEFINE f == [i \in T |-> Rank(T, i)]
  <2>1. f \in [T -> 1 .. c]
    <3> SUFFICES ASSUME NEW i \in T PROVE Rank(T, i) \in 1 .. c
      OBVIOUS
    <3> HIDE DEF c
    <3>1. Rank(T, i) \in Nat /\ Rank(T, i) <= c /\ Rank(T, i) # 0
      BY <1>3, <1>4
    <3> QED
      BY <1>2, <3>1
  <2>2. \A i, j \in T : f[i] = f[j] => i = j
    <3> SUFFICES ASSUME NEW i \in T, NEW j \in T, i # j PROVE Rank(T, i) # Rank(T, j)
      OBVIOUS
    <3>1. i < j \/ j < i
      BY <1>0
    <3>2. Rank(T, i) < Rank(T, j) \/ Rank(T, j) < Rank(T, i)
      BY <1>5, <3>1
    <3>3. Rank(T, i) \in Nat /\ Rank(T, j) \in Nat
      BY <1>3
    <3> QED
      BY <3>2, <3>3
  <2>3. f \in Injection(T, 1 .. c)
    BY <2>1, <2>2 DEF Injection, IsInjective
  <2>4. IsFiniteSet(1 .. c) /\ Cardinality(1 .. c) = c
    BY <1>2, FS_Interval
  <2> HIDE DEF c
  <2>5. Cardinality(T) = Cardinality(1 .. c)
    BY <2>4 DEF c
  <2>6. f \in Surjection(T, 1 .. c)
    BY <2>3, <2>4, <2>5, FS_Injection
  <2> QED
    BY <2>6 DEF Surjection
<1>7. \A i \in T : Rank(T, i) \in 1 .. c
  <2> HIDE DEF c
  <2> SUFFICES ASSUME NEW i \in T PROVE Rank(T, i) \in 1 .. c
    OBVIOUS
  <2>1. Rank(T, i) \in Nat /\ Rank(T, i) <= c /\ Rank(T, i) # 0
    BY <1>3, <1>4
  <2> QED
    BY <1>2, <2>1
<1>8. c \in 0 .. n
  <2> HIDE DEF c
  <2> QED
    BY <1>2
<1> QED
  BY <1>2, <1>5, <1>6, <1>7, <1>8

\* o holds the values of s at the places T, in their order; f finds them.
PartBy(o, s, T, f) ==
  /\ f \in [1 .. Len(o) -> T]
  /\ \A m \in 1 .. Len(o) : o[m] = s[f[m]]
  /\ \A m, k \in 1 .. Len(o) : m < k => f[m] < f[k]
  /\ \A i \in T : \E m \in 1 .. Len(o) : f[m] = i

LEMMA OnlyAtIsPart ==
  ASSUME NEW E, NEW s \in Seq(E), NEW T, T \subseteq DOMAIN s
  PROVE  LET o == OnlyAt(s, T)
         IN  /\ o \in Seq(E) /\ Len(o) <= Len(s) /\ (T # DOMAIN s => Len(o) < Len(s))
             /\ \E f : PartBy(o, s, T, f)
<1> DEFINE o == OnlyAt(s, T)
           c == Cardinality(T)
           n == Len(s)
           f == [m \in 1 .. c |-> CHOOSE i \in T : Rank(T, i) = m]
<1>1. n \in Nat /\ DOMAIN s = 1 .. n /\ \A i \in DOMAIN s : s[i] \in E
  OBVIOUS
<1> HIDE DEF n
<1>01. T \in SUBSET (1 .. n) /\ T \subseteq Nat
  BY <1>1
<1>2. /\ c \in 0 .. n /\ (c = n => T = 1 .. n)
      /\ \A i \in T : Rank(T, i) \in 1 .. c
      /\ \A i, j \in T : i < j => Rank(T, i) < Rank(T, j)
      /\ \A m \in 1 .. c : \E i \in T : Rank(T, i) = m
  BY <1>1, <1>01, Ranks
<1>3. o = [m \in 1 .. c |-> s[f[m]]]
  BY DEF OnlyAt, Rank
<1>4. \A m \in 1 .. c : f[m] \in T /\ Rank(T, f[m]) = m
  <2> SUFFICES ASSUME NEW m \in 1 .. c PROVE f[m] \in T /\ Rank(T, f[m]) = m
    OBVIOUS
  <2> QED
    BY <1>2
<1> HIDE DEF o, c
<1>02. c \in Nat /\ c <= n
  BY <1>1, <1>2
<1>5. f \in [1 .. c -> T]
  BY <1>4
<1>6. \A m, k \in 1 .. c : m < k => f[m] < f[k]
  <2> HIDE DEF f
  <2> SUFFICES ASSUME NEW m \in 1 .. c, NEW k \in 1 .. c, m < k PROVE f[m] < f[k]
    OBVIOUS
  <2>1. /\ f[m] \in T /\ f[k] \in T /\ Rank(T, f[m]) = m /\ Rank(T, f[k]) = k
        /\ f[m] \in Nat /\ f[k] \in Nat /\ m \in Nat /\ k \in Nat
    <3>1. f[m] \in T /\ f[k] \in T /\ Rank(T, f[m]) = m /\ Rank(T, f[k]) = k
      BY <1>4
    <3>2. T \subseteq Nat
      BY <1>1
    <3> QED
      BY <3>1, <3>2
  <2>2. f[k] < f[m] => k < m
    BY <1>2, <2>1
  <2> QED
    BY <2>1, <2>2
<1>7. \A i \in T : \E m \in 1 .. c : f[m] = i
  <2> HIDE DEF f
  <2> SUFFICES ASSUME NEW i \in T PROVE f[Rank(T, i)] = i /\ Rank(T, i) \in 1 .. c
    OBVIOUS
  <2> DEFINE m == Rank(T, i)
  <2>1. m \in 1 .. c /\ f[m] \in T /\ Rank(T, f[m]) = m
    BY <1>2, <1>4
  <2>2. f[m] \in Nat /\ i \in Nat
    BY <1>1, <2>1
  <2>3. f[m] < i => Rank(T, f[m]) < m
    BY <1>2, <2>1
  <2>4. i < f[m] => m < Rank(T, f[m])
    BY <1>2, <2>1
  <2> HIDE DEF m
  <2>5. f[m] = i
    BY <1>2, <2>1, <2>2, <2>3, <2>4
  <2> QED
    BY <2>1, <2>5 DEF m
<1> HIDE DEF f
<1>8. c \in Nat /\ \A m \in 1 .. c : s[f[m]] \in E
  <2>2. \A i \in T : s[i] \in E
    BY <1>1
  <2> QED
    BY <1>02, <1>4, <2>2
<1>9. o \in Seq(E) /\ Len(o) = c /\ \A m \in 1 .. c : o[m] = s[f[m]]
  BY <1>3, <1>8
<1>10. PartBy(o, s, T, f)
  BY <1>5, <1>6, <1>7, <1>9 DEF PartBy
<1>11. Len(o) <= Len(s) /\ (T # DOMAIN s => Len(o) < Len(s))
  <2>1. Len(o) = c /\ n \in Nat /\ (c = n => T = DOMAIN s)
    BY <1>1, <1>2, <1>9
  <2> QED
    BY <1>02, <2>1 DEF n
<1> QED
  BY <1>9, <1>10, <1>11 DEF o
-----------------------------------------------------------------------------
(******************************** The cache ********************************)

\* The lookup of an entry is under way or over, and its time is that of the entry.
Fits(e, table) ==
  /\ table[e.lookup].state \in {"pending", "resolved", "rejected"}
  /\ table[e.lookup].slug = e.slug
  /\ e.expiresAt = table[e.lookup].started + Ttl

\* A slug has one entry, and those behind it were asked for since it was.
Proper(map, asked, table) ==
  /\ map \in Seq(Entry)
  /\ \A i, j \in DOMAIN map : map[i].slug = map[j].slug => i = j
  /\ \A i \in DOMAIN map : Fits(map[i], table)
  /\ \A i, j \in DOMAIN map : i < j => map[j].slug \in asked[map[i].slug]

CacheTyped ==
  /\ clock \in Ticks
  /\ entries \in Seq(Entry) /\ Len(entries) <= MaxEntries
  /\ lookup \in [Lookups -> Lookup]
  /\ arrived \in 0 .. Requests /\ waiting \in 0 .. arrived
  /\ evicted \subseteq Lookups /\ others \in [Slug -> SUBSET Slug]

\* Each lookup that started did so for a request that no longer waits.
Numbered == \E n \in Nat : Started = 1 .. n /\ n + waiting <= arrived

\* A lookup that is of use is in the cache unless it made room.
Found == \A l \in Lookups \ evicted : Live(l) => \E i \in DOMAIN entries : entries[i].lookup = l

CacheInv ==
  /\ CacheTyped /\ Numbered /\ Found
  /\ Proper(entries, others, lookup)
  /\ \A s \in Slug : IsFiniteSet(others[s])

LEMMA EntryFields ==
  ASSUME NEW e \in Entry
  PROVE  /\ e.slug \in Slug /\ e.lookup \in Lookups /\ e.lookup \in Nat
         /\ e.expiresAt \in Nat
<1>1. LastTick \in Nat /\ Ttl \in Nat /\ Requests \in Nat
  BY LookupConstants
<1>2. e.slug \in Slug /\ e.lookup \in Lookups /\ e.expiresAt \in 0 .. LastTick + Ttl
  BY DEF Entry
<1> QED
  BY <1>1, <1>2 DEF Lookups

LEMMA PartIsProper ==
  ASSUME NEW map, NEW asked, NEW table, Proper(map, asked, table), NEW T, T \subseteq DOMAIN map
  PROVE  LET o == OnlyAt(map, T)
         IN  /\ Proper(o, asked, table)
             /\ Len(o) <= Len(map) /\ (T # DOMAIN map => Len(o) < Len(map))
             /\ \A m \in DOMAIN o : \E i \in T : o[m] = map[i]
             /\ \A i \in T : \E m \in DOMAIN o : o[m] = map[i]
<1> DEFINE o == OnlyAt(map, T)
<1>1. map \in Seq(Entry)
  BY DEF Proper
<1>2. /\ o \in Seq(Entry) /\ Len(o) <= Len(map) /\ (T # DOMAIN map => Len(o) < Len(map))
      /\ \E f : PartBy(o, map, T, f)
  BY <1>1, OnlyAtIsPart
<1> HIDE DEF o
<1>3. PICK f : PartBy(o, map, T, f)
  BY <1>2
<1>4. DOMAIN o = 1 .. Len(o) /\ Len(o) \in Nat /\ T \subseteq Nat
  BY <1>1, <1>2
<1>5. \A m \in DOMAIN o : f[m] \in T /\ f[m] \in DOMAIN map /\ o[m] = map[f[m]]
  BY <1>3, <1>4 DEF PartBy
<1>6. \A m, k \in DOMAIN o : m < k => f[m] < f[k]
  BY <1>3, <1>4 DEF PartBy
<1>7. \A i \in T : \E m \in DOMAIN o : o[m] = map[i]
  BY <1>3, <1>4 DEF PartBy
<1>8. \A m, k \in DOMAIN o : o[m].slug = o[k].slug => m = k
  <2> SUFFICES ASSUME NEW m \in DOMAIN o, NEW k \in DOMAIN o, o[m].slug = o[k].slug, m # k PROVE FALSE
    OBVIOUS
  <2>1. f[m] = f[k]
    BY <1>5 DEF Proper
  <2>2. m \in Nat /\ k \in Nat /\ f[m] \in Nat
    BY <1>4, <1>5
  <2>3. m < k \/ k < m
    BY <2>2
  <2>4. f[m] < f[m]
    BY <1>6, <2>1, <2>3
  <2> QED
    BY <2>2, <2>4
<1>9. \A m \in DOMAIN o : Fits(o[m], table)
  BY <1>5 DEF Proper
<1>10. \A m, k \in DOMAIN o : m < k => o[k].slug \in asked[o[m].slug]
  BY <1>5, <1>6 DEF Proper
<1> QED
  BY <1>2, <1>5, <1>7, <1>8, <1>9, <1>10 DEF Proper, o

LEMMA TailIsProper ==
  ASSUME NEW map, NEW asked, NEW table, Proper(map, asked, table), map # <<>>
  PROVE  /\ Proper(Tail(map), asked, table) /\ Len(Tail(map)) = Len(map) - 1 /\ Len(map) \in Nat \ {0}
         /\ \A i \in DOMAIN Tail(map) : i + 1 \in DOMAIN map /\ Tail(map)[i] = map[i + 1]
         /\ \A i \in DOMAIN map : i # 1 => \E j \in DOMAIN Tail(map) : Tail(map)[j] = map[i]
<1> DEFINE o == Tail(map)
<1>1. map \in Seq(Entry) /\ Len(map) \in Nat \ {0} /\ DOMAIN map = 1 .. Len(map)
  BY DEF Proper
<1>2. /\ o \in Seq(Entry) /\ Len(o) = Len(map) - 1 /\ DOMAIN o = 1 .. Len(map) - 1
      /\ \A i \in 1 .. Len(map) - 1 : o[i] = map[i + 1]
  BY <1>1
<1> HIDE DEF o
<1>3. \A i \in DOMAIN o : i \in Nat /\ i + 1 \in DOMAIN map /\ o[i] = map[i + 1]
  BY <1>1, <1>2
<1>4. \A i \in DOMAIN map : i # 1 => \E j \in DOMAIN o : o[j] = map[i]
  <2> SUFFICES ASSUME NEW i \in DOMAIN map, i # 1 PROVE i - 1 \in DOMAIN o /\ o[i - 1] = map[i]
    OBVIOUS
  <2>1. i \in Nat /\ i - 1 \in DOMAIN o /\ (i - 1) + 1 = i
    BY <1>1, <1>2
  <2> QED
    BY <1>3, <2>1
<1>5. \A i, j \in DOMAIN o : o[i].slug = o[j].slug => i = j
  <2> SUFFICES ASSUME NEW i \in DOMAIN o, NEW j \in DOMAIN o, o[i].slug = o[j].slug PROVE i = j
    OBVIOUS
  <2>1. i + 1 = j + 1
    BY <1>3 DEF Proper
  <2>2. i \in Nat /\ j \in Nat
    BY <1>3
  <2> QED
    BY <2>1, <2>2
<1>6. \A i \in DOMAIN o : Fits(o[i], table)
  BY <1>3 DEF Proper
<1>7. \A i, j \in DOMAIN o : i < j => o[j].slug \in asked[o[i].slug]
  <2> SUFFICES ASSUME NEW i \in DOMAIN o, NEW j \in DOMAIN o, i < j PROVE o[j].slug \in asked[o[i].slug]
    OBVIOUS
  <2>1. i + 1 < j + 1
    BY <1>3
  <2> QED
    BY <1>3, <2>1 DEF Proper
<1> QED
  BY <1>1, <1>2, <1>3, <1>4, <1>5, <1>6, <1>7 DEF Proper, o

\* The entry of a slug that has none comes last.
LEMMA AppendIsProper ==
  ASSUME NEW map, NEW asked, NEW table, Proper(map, asked, table),
         NEW e \in Entry, Fits(e, table), \A i \in DOMAIN map : map[i].slug # e.slug,
         NEW since, \A t \in Slug : t # e.slug => since[t] = asked[t] \cup {e.slug}
  PROVE  LET o == Append(map, e)
         IN  /\ Proper(o, since, table) /\ Len(o) = Len(map) + 1 /\ Len(map) \in Nat
             /\ o[Len(map) + 1] = e /\ Len(map) + 1 \in DOMAIN o
             /\ \A i \in DOMAIN map : i \in DOMAIN o /\ o[i] = map[i]
<1> DEFINE o == Append(map, e)
           n == Len(map)
<1>1. map \in Seq(Entry) /\ n \in Nat /\ DOMAIN map = 1 .. n /\ \A i \in DOMAIN map : map[i] \in Entry
  BY DEF Proper
<1>2. /\ o \in Seq(Entry) /\ Len(o) = n + 1 /\ DOMAIN o = 1 .. n + 1 /\ o[n + 1] = e
      /\ \A i \in 1 .. n : o[i] = map[i]
  BY <1>1
<1> HIDE DEF o, n
<1>3. n + 1 \in DOMAIN o /\ \A i \in DOMAIN map : i \in DOMAIN o /\ o[i] = map[i] /\ o[i].slug # e.slug /\ o[i].slug \in Slug
  BY <1>1, <1>2, EntryFields
<1>4. \A i \in DOMAIN o : i = n + 1 \/ i \in DOMAIN map
  BY <1>1, <1>2
<1>5. \A i, j \in DOMAIN o : o[i].slug = o[j].slug => i = j
  BY <1>2, <1>3, <1>4 DEF Proper
<1>6. \A i \in DOMAIN o : Fits(o[i], table)
  BY <1>2, <1>3, <1>4 DEF Proper
<1>7. \A i, j \in DOMAIN o : i < j => o[j].slug \in since[o[i].slug]
  <2> SUFFICES ASSUME NEW i \in DOMAIN o, NEW j \in DOMAIN o, i < j PROVE o[j].slug \in since[o[i].slug]
    OBVIOUS
  <2>1. i \in Nat /\ j \in Nat /\ i <= n + 1 /\ j <= n + 1
    BY <1>1, <1>2
  <2>2. i \in DOMAIN map
    BY <1>1, <1>4, <2>1
  <2>3. since[o[i].slug] = asked[o[i].slug] \cup {e.slug}
    BY <1>3, <2>2
  <2>4. CASE j = n + 1
    BY <1>2, <2>3, <2>4
  <2>5. CASE j # n + 1
    BY <1>3, <1>4, <2>2, <2>3, <2>5 DEF Proper
  <2> QED
    BY <2>4, <2>5
<1> QED
  BY <1>1, <1>2, <1>3, <1>5, <1>6, <1>7 DEF Proper, o, n
\* What is left of the cache once the entries that are out of time are gone.
LEMMA FreshIs ==
  ASSUME CacheInv
  PROVE  /\ Proper(Fresh, others, lookup) /\ Len(Fresh) <= MaxEntries /\ Len(Fresh) \in Nat
         /\ \A i \in DOMAIN Fresh : Fresh[i] \in Entry /\ Fresh[i].expiresAt > clock
         /\ \A l \in Lookups \ evicted : Live(l) => \E i \in DOMAIN Fresh : Fresh[i].lookup = l
<1> DEFINE T == {i \in DOMAIN entries : entries[i].expiresAt > clock}
           F == Fresh
<1>1. /\ Proper(F, others, lookup) /\ Len(F) <= Len(entries)
      /\ \A m \in DOMAIN F : \E i \in T : F[m] = entries[i]
      /\ \A i \in T : \E m \in DOMAIN F : F[m] = entries[i]
  <2>1. T \subseteq DOMAIN entries /\ Proper(entries, others, lookup)
    BY DEF CacheInv
  <2>2. F = OnlyAt(entries, T)
    BY DEF Fresh
  <2> HIDE DEF T, F
  <2> QED
    BY <2>1, <2>2, PartIsProper
<1>2. /\ Len(entries) \in Nat /\ Len(entries) <= MaxEntries /\ MaxEntries \in Nat
      /\ \A i \in DOMAIN entries : entries[i] \in Entry
  BY LookupConstants DEF CacheInv, CacheTyped
<1>3. \A m \in DOMAIN F : F[m] \in Entry /\ F[m].expiresAt > clock
  BY <1>1, <1>2
<1>4. Len(F) \in Nat /\ Len(F) <= MaxEntries
  <2>1. Len(F) \in Nat
    BY <1>1 DEF Proper
  <2> QED
    BY <1>1, <1>2, <2>1
<1>5. ASSUME NEW l \in Lookups \ evicted, Live(l) PROVE \E i \in DOMAIN F : F[i].lookup = l
  <2>1. PICK i \in DOMAIN entries : entries[i].lookup = l
    BY <1>5 DEF CacheInv, Found
  <2>2. entries[i].expiresAt = lookup[l].started + Ttl
    BY <2>1 DEF CacheInv, Proper, Fits
  <2>3. clock < lookup[l].started + Ttl
    BY <1>5 DEF Live
  <2>4. entries[i].expiresAt > clock
    BY <2>2, <2>3
  <2>5. i \in T
    BY <2>4
  <2> QED
    BY <1>1, <2>1, <2>5
<1> QED
  BY <1>1, <1>3, <1>4, <1>5

\* A request leaves the queue.
LEMMA QueueShrinks ==
  ASSUME CacheInv, LeaveQueue, UNCHANGED arrived
  PROVE  arrived' \in 0 .. Requests /\ waiting' \in 0 .. arrived' /\ waiting \in Nat
         /\ waiting' = waiting - 1 /\ waiting > 0 /\ arrived \in Nat /\ arrived <= Requests
BY LookupConstants DEF LeaveQueue, CacheInv, CacheTyped

\* The slugs that were asked for, with one more.
LEMMA AskedIs ==
  ASSUME CacheInv, NEW s \in Slug, Asked(s)
  PROVE  /\ others' \in [Slug -> SUBSET Slug] /\ \A t \in Slug : IsFiniteSet(others'[t])
         /\ others' = [t \in Slug |-> IF t = s THEN {} ELSE others[t] \cup {s}]
<1>1. others' = [t \in Slug |-> IF t = s THEN {} ELSE others[t] \cup {s}]
  BY DEF Asked
<1>2. others \in [Slug -> SUBSET Slug] /\ \A t \in Slug : IsFiniteSet(others[t])
  BY DEF CacheInv, CacheTyped
<1>3. ASSUME NEW t \in Slug PROVE IsFiniteSet(others'[t])
  BY <1>1, <1>2, FS_EmptySet, FS_AddElement
<1> QED
  BY <1>1, <1>2, <1>3

LEMMA ShareKeepsCache ==
  ASSUME CacheInv, NEW s \in Slug, Share(s)
  PROVE  /\ CacheInv'
         /\ clock < lookup'[Last(entries').lookup].started + Ttl
<1> DEFINE F == Fresh
           T == {i \in DOMAIN F : F[i].slug # s}
           W == Without(F, s)
           e == EntryOf(F, s)
<1>1. /\ LeaveQueue /\ Asked(s) /\ Holds(F, s) /\ entries' = Append(W, e)
      /\ UNCHANGED <<clock, arrived, lookup, evicted>>
  BY DEF Share, Touch, throttle
<1>2. /\ Proper(F, others, lookup) /\ Len(F) <= MaxEntries /\ Len(F) \in Nat
      /\ \A i \in DOMAIN F : F[i] \in Entry /\ F[i].expiresAt > clock
      /\ \A l \in Lookups \ evicted : Live(l) => \E i \in DOMAIN F : F[i].lookup = l
  BY FreshIs
<1>3. W = OnlyAt(F, T)
  BY DEF Without
<1>4. PICK h \in DOMAIN F : e = F[h] /\ F[h].slug = s
  BY <1>1 DEF Holds, EntryOf
<1>5. e \in Entry /\ e.slug = s /\ Fits(e, lookup) /\ e.expiresAt > clock /\ h \notin T
  BY <1>2, <1>4 DEF Proper
<1>6. /\ others' \in [Slug -> SUBSET Slug] /\ \A t \in Slug : IsFiniteSet(others'[t])
      /\ others' = [t \in Slug |-> IF t = s THEN {} ELSE others[t] \cup {s}]
      /\ others \in [Slug -> SUBSET Slug]
  BY <1>1, AskedIs DEF CacheInv, CacheTyped
<1> HIDE DEF F, W, e
<1>7. /\ Proper(W, others, lookup) /\ Len(W) < Len(F)
      /\ \A m \in DOMAIN W : \E i \in T : W[m] = F[i]
      /\ \A i \in T : \E m \in DOMAIN W : W[m] = F[i]
  <2>1. T \subseteq DOMAIN F /\ T # DOMAIN F
    BY <1>5
  <2> HIDE DEF T
  <2> QED
    BY <1>2, <1>3, <2>1, PartIsProper
<1>8. \A i \in DOMAIN W : W[i].slug # e.slug
  BY <1>5, <1>7
<1>9. /\ Proper(entries', others', lookup) /\ Len(entries') = Len(W) + 1 /\ Len(W) \in Nat
      /\ entries'[Len(W) + 1] = e /\ Len(W) + 1 \in DOMAIN entries'
      /\ \A i \in DOMAIN W : i \in DOMAIN entries' /\ entries'[i] = W[i]
  <2>1. \A t \in Slug : t # e.slug => others'[t] = others[t] \cup {e.slug}
    BY <1>5, <1>6
  <2>2. LET o == Append(W, e)
        IN  /\ Proper(o, others', lookup) /\ Len(o) = Len(W) + 1 /\ Len(W) \in Nat
            /\ o[Len(W) + 1] = e /\ Len(W) + 1 \in DOMAIN o
            /\ \A i \in DOMAIN W : i \in DOMAIN o /\ o[i] = W[i]
    <3>1. e \in Entry /\ Fits(e, lookup) /\ Proper(W, others, lookup)
      BY <1>5, <1>7
    <3> QED
      BY <1>8, <2>1, <3>1, AppendIsProper
  <2> QED
    BY <1>1, <2>2
<1>10. Proper(entries', others', lookup')
  BY <1>1, <1>9
<1>11. Len(entries') <= MaxEntries
  <2>1. MaxEntries \in Nat
    BY LookupConstants
  <2> QED
    BY <1>2, <1>7, <1>9, <2>1
<1>12. ASSUME NEW l \in Lookups \ evicted, Live(l)
       PROVE  \E i \in DOMAIN entries' : entries'[i].lookup = l
  <2>1. PICK i \in DOMAIN F : F[i].lookup = l
    BY <1>2, <1>12
  <2>2. CASE i \in T
    BY <1>7, <1>9, <2>1, <2>2
  <2>3. CASE i \notin T
    <3>1. F[i].slug = F[h].slug
      BY <1>4, <2>3
    <3>2. i = h
      BY <1>2, <1>4, <3>1 DEF Proper
    <3> QED
      BY <1>4, <1>9, <2>1, <3>2
  <2> QED
    BY <2>2, <2>3
<1>13. Found'
  <2>1. \A l : Live(l)' <=> Live(l)
    BY <1>1 DEF Live
  <2> QED
    BY <1>1, <1>12, <2>1 DEF Found
<1>14. /\ arrived' \in 0 .. Requests /\ waiting' \in 0 .. arrived'
       /\ waiting \in Nat /\ waiting' = waiting - 1 /\ arrived \in Nat
  BY <1>1, QueueShrinks
<1>15. Numbered'
  <2>1. PICK n \in Nat : Started = 1 .. n /\ n + waiting <= arrived
    BY DEF CacheInv, Numbered
  <2>2. Started' = Started
    BY <1>1 DEF Started
  <2>3. n + waiting' <= arrived'
    BY <1>1, <1>14, <2>1
  <2> QED
    BY <2>1, <2>2, <2>3 DEF Numbered
<1>16. CacheTyped'
  BY <1>1, <1>6, <1>9, <1>11, <1>14 DEF CacheInv, CacheTyped, Proper
<1>17. clock < lookup'[Last(entries').lookup].started + Ttl
  <2>1. Last(entries') = e
    BY <1>9 DEF Last
  <2> QED
    BY <1>1, <1>5, <2>1 DEF Fits
<1> QED
  BY <1>6, <1>10, <1>13, <1>15, <1>16, <1>17 DEF CacheInv
\* The table with room for one more.
LEMMA RoomIs ==
  ASSUME CacheInv
  PROVE  LET kept == MakeRoom(Fresh)
         IN  /\ Proper(kept, others, lookup) /\ Len(kept) \in Nat /\ Len(kept) + 1 <= MaxEntries
             /\ \A i \in DOMAIN kept : \E j \in DOMAIN Fresh : kept[i] = Fresh[j]
             /\ \A i \in DOMAIN Fresh : \/ \E j \in DOMAIN kept : kept[j] = Fresh[i]
                                        \/ i = 1 /\ Len(Fresh) >= MaxEntries
<1> DEFINE F == Fresh
           kept == MakeRoom(F)
<1>1. Proper(F, others, lookup) /\ Len(F) <= MaxEntries /\ Len(F) \in Nat
  BY FreshIs
<1>2. MaxEntries \in Nat \ {0}
  BY LookupConstants
<1> HIDE DEF F
<1>3. CASE Len(F) >= MaxEntries
  <2>1. kept = Tail(F)
    BY <1>3 DEF MakeRoom
  <2>2. F # <<>>
    BY <1>2, <1>3
  <2>3. /\ Proper(Tail(F), others, lookup) /\ Len(Tail(F)) = Len(F) - 1 /\ Len(F) \in Nat \ {0}
        /\ \A i \in DOMAIN Tail(F) : i + 1 \in DOMAIN F /\ Tail(F)[i] = F[i + 1]
        /\ \A i \in DOMAIN F : i # 1 => \E j \in DOMAIN Tail(F) : Tail(F)[j] = F[i]
    BY <1>1, <2>2, TailIsProper
  <2> HIDE DEF kept
  <2>4. Len(kept) \in Nat /\ Len(kept) + 1 <= MaxEntries
    BY <1>1, <1>2, <2>1, <2>3
  <2>5. \A i \in DOMAIN kept : \E j \in DOMAIN F : kept[i] = F[j]
    BY <2>1, <2>3
  <2>6. \A i \in DOMAIN F : i # 1 => \E j \in DOMAIN kept : kept[j] = F[i]
    BY <2>1, <2>3
  <2> QED
    BY <1>3, <2>1, <2>3, <2>4, <2>5, <2>6 DEF kept, F
<1>4. CASE ~(Len(F) >= MaxEntries)
  <2>1. kept = F
    BY <1>4 DEF MakeRoom
  <2>2. Len(F) + 1 <= MaxEntries
    BY <1>1, <1>2, <1>4
  <2> HIDE DEF kept
  <2> QED
    BY <1>1, <2>1, <2>2 DEF kept, F
<1> QED
  BY <1>3, <1>4

\* The lookup that starts is the next one, and no entry has it.
LEMMA NextLookup ==
  ASSUME CacheInv, LeaveQueue, UNCHANGED arrived
  PROVE  LET l == Cardinality(Started) + 1
         IN  /\ l \in Lookups /\ l \in Nat /\ l \notin Started
             /\ Started = 1 .. l - 1 /\ l + waiting' <= arrived'
<1>1. PICK n \in Nat : Started = 1 .. n /\ n + waiting <= arrived
  BY DEF CacheInv, Numbered
<1>2. Cardinality(Started) = n
  BY <1>1, FS_Interval
<1>3. /\ arrived' \in 0 .. Requests /\ waiting' \in 0 .. arrived' /\ waiting \in Nat
      /\ waiting' = waiting - 1 /\ waiting > 0 /\ arrived \in Nat /\ arrived <= Requests
  BY QueueShrinks
<1>4. Requests \in Nat
  BY LookupConstants
<1>5. n + 1 \in 1 .. Requests /\ (n + 1) + waiting' <= arrived /\ n + 1 \notin 1 .. n
  BY <1>1, <1>3, <1>4
<1>6. 1 .. n = 1 .. (n + 1) - 1
  BY <1>1
<1> QED
  BY <1>1, <1>2, <1>5, <1>6 DEF Lookups

LEMMA CreateKeepsCache ==
  ASSUME CacheInv, NEW s \in Slug, Create(s)
  PROVE  /\ CacheInv'
         /\ clock < lookup'[Last(entries').lookup].started + Ttl
<1> DEFINE F == Fresh
           kept == MakeRoom(F)
           l == Cardinality(Started) + 1
           e == [slug |-> s, lookup |-> l, expiresAt |-> clock + Ttl]
           new == [slug |-> s, started |-> clock, state |-> "pending"]
<1>1. /\ LeaveQueue /\ Asked(s) /\ ~Holds(F, s) /\ entries' = Append(kept, e)
      /\ evicted' = evicted \cup {x.lookup : x \in ToSet(F) \ ToSet(kept)}
      /\ lookup' = [lookup EXCEPT ![l] = new]
      /\ UNCHANGED <<clock, arrived>>
  BY DEF Create, throttle
<1>2. /\ Proper(F, others, lookup)
      /\ \A i \in DOMAIN F : F[i] \in Entry
      /\ \A k \in Lookups \ evicted : Live(k) => \E i \in DOMAIN F : F[i].lookup = k
  BY FreshIs
<1>3. /\ Proper(kept, others, lookup) /\ Len(kept) \in Nat /\ Len(kept) + 1 <= MaxEntries
      /\ \A i \in DOMAIN kept : \E j \in DOMAIN F : kept[i] = F[j]
  BY RoomIs
<1>4. /\ l \in Lookups /\ l \in Nat /\ l \notin Started
      /\ Started = 1 .. l - 1 /\ l + waiting' <= arrived'
  BY <1>1, NextLookup
<1>5. /\ others' \in [Slug -> SUBSET Slug] /\ \A t \in Slug : IsFiniteSet(others'[t])
      /\ others' = [t \in Slug |-> IF t = s THEN {} ELSE others[t] \cup {s}]
  BY <1>1, AskedIs
<1>6. \A i \in DOMAIN F : F[i].slug # s
  BY <1>1 DEF Holds
<1>7. /\ clock \in Ticks /\ clock \in Nat /\ clock <= LastTick /\ LastTick \in Nat
      /\ Ttl \in Nat \ {0} /\ Requests \in Nat
      /\ lookup \in [Lookups -> Lookup] /\ evicted \subseteq Lookups
  BY LookupConstants DEF CacheInv, CacheTyped, Ticks
<1> HIDE DEF F, kept, l
<1>8. e \in Entry /\ new \in Lookup
  BY <1>4, <1>7 DEF Entry, Lookup
<1>9. /\ lookup' \in [Lookups -> Lookup] /\ lookup'[l] = new
      /\ \A k \in Lookups : k # l => lookup'[k] = lookup[k]
  BY <1>1, <1>4, <1>7, <1>8
<1>10. lookup[l].state = "none"
  BY <1>4 DEF Started
<1>11. \A i \in DOMAIN kept : kept[i] \in Entry /\ kept[i].lookup \in Lookups /\ kept[i].lookup # l
  <2> SUFFICES ASSUME NEW i \in DOMAIN kept
               PROVE  kept[i] \in Entry /\ kept[i].lookup \in Lookups /\ kept[i].lookup # l
    OBVIOUS
  <2>1. kept[i] \in Entry /\ Fits(kept[i], lookup)
    BY <1>2, <1>3 DEF Proper
  <2> QED
    BY <1>10, <2>1, EntryFields DEF Fits
<1>12. Proper(kept, others, lookup')
  <2>1. \A i \in DOMAIN kept : Fits(kept[i], lookup')
    BY <1>3, <1>9, <1>11 DEF Proper, Fits
  <2> QED
    BY <1>3, <2>1 DEF Proper
<1>13. Fits(e, lookup')
  BY <1>9 DEF Fits
<1>14. LET o == Append(kept, e)
       IN  /\ Proper(o, others', lookup') /\ Len(o) = Len(kept) + 1 /\ Len(kept) \in Nat
           /\ o[Len(kept) + 1] = e /\ Len(kept) + 1 \in DOMAIN o
           /\ \A i \in DOMAIN kept : i \in DOMAIN o /\ o[i] = kept[i]
  <2>1. \A i \in DOMAIN kept : kept[i].slug # e.slug
    BY <1>3, <1>6
  <2>2. \A t \in Slug : t # e.slug => others'[t] = others[t] \cup {e.slug}
    BY <1>5
  <2> HIDE DEF e
  <2> QED
    BY <1>8, <1>12, <1>13, <2>1, <2>2, AppendIsProper
<1>15. /\ Proper(entries', others', lookup') /\ Len(entries') = Len(kept) + 1
       /\ entries'[Len(kept) + 1] = e /\ Len(kept) + 1 \in DOMAIN entries'
       /\ \A i \in DOMAIN kept : i \in DOMAIN entries' /\ entries'[i] = kept[i]
  BY <1>1, <1>14
<1>16. evicted' \subseteq Lookups
  <2>1. \A x \in ToSet(F) : x.lookup \in Lookups
    BY <1>2, EntryFields DEF ToSet
  <2> QED
    BY <1>1, <1>7, <2>1
<1>17. Found'
  <2> SUFFICES ASSUME NEW k \in Lookups \ evicted', Live(k)'
               PROVE  \E i \in DOMAIN entries' : entries'[i].lookup = k
    BY DEF Found
  <2>1. CASE k = l
    BY <1>15, <2>1
  <2>2. CASE k # l
    <3>1. Live(k)
      BY <1>1, <1>9, <2>2 DEF Live
    <3>2. PICK i \in DOMAIN F : F[i].lookup = k
      BY <1>1, <1>2, <3>1
    <3>3. F[i] \in ToSet(F)
      BY DEF ToSet
    <3>4. F[i] \in ToSet(kept)
      BY <1>1, <3>2, <3>3
    <3>5. PICK j \in DOMAIN kept : kept[j] = F[i]
      BY <3>4 DEF ToSet
    <3> QED
      BY <1>15, <3>2, <3>5
  <2> QED
    BY <2>1, <2>2
<1>18. Numbered'
  <2>1. Started' = 1 .. l
    <3>1. Started' = Started \cup {l}
      <4>1. l \in Lookups
        BY <1>4
      <4>2. lookup'[l] = new /\ \A k \in Lookups : k # l => lookup'[k] = lookup[k]
        BY <1>9
      <4>3. \A k \in Lookups : lookup'[k].state # "none" <=> k = l \/ lookup[k].state # "none"
        BY ONLY <4>1, <4>2
      <4>4. Started' = {k \in Lookups : lookup'[k].state # "none"}
        BY DEF Started
      <4>5. Started = {k \in Lookups : lookup[k].state # "none"}
        BY DEF Started
      <4> QED
        BY ONLY <4>1, <4>3, <4>4, <4>5
    <3>2. (1 .. l - 1) \cup {l} = 1 .. l
      <4>1. l \in Nat /\ 1 <= l
        BY <1>4, LookupConstants DEF Lookups
      <4> QED
        BY ONLY <4>1
    <3> QED
      BY <1>4, <3>1, <3>2
  <2> QED
    BY <1>4, <2>1 DEF Numbered
<1>19. CacheTyped'
  <2>1. arrived' \in 0 .. Requests /\ waiting' \in 0 .. arrived'
    BY <1>1, QueueShrinks
  <2>2. entries' \in Seq(Entry) /\ Len(entries') <= MaxEntries
    BY <1>3, <1>15 DEF Proper
  <2> QED
    BY <1>1, <1>5, <1>7, <1>9, <1>16, <2>1, <2>2 DEF CacheTyped
<1>20. clock < lookup'[Last(entries').lookup].started + Ttl
  <2>1. Last(entries') = e
    BY <1>15 DEF Last
  <2> QED
    BY <1>7, <1>9, <2>1
<1> QED
  BY <1>5, <1>15, <1>17, <1>18, <1>19, <1>20 DEF CacheInv
LEMMA SettleKeepsCache ==
  ASSUME CacheInv, NEW l \in Lookups, Settle(l)
  PROVE  CacheInv'
<1>1. PICK state \in {"resolved", "rejected"} : lookup' = [lookup EXCEPT ![l].state = state]
  BY DEF Settle
<1>2. lookup[l].state = "pending" /\ UNCHANGED <<clock, arrived, waiting, entries, evicted, others>>
  BY DEF Settle, throttle, cache
<1>3. lookup \in [Lookups -> Lookup]
  BY DEF CacheInv, CacheTyped
<1>4. /\ lookup' \in [Lookups -> Lookup]
      /\ \A k \in Lookups : /\ lookup'[k].slug = lookup[k].slug /\ lookup'[k].started = lookup[k].started
                            /\ k # l => lookup'[k] = lookup[k]
      /\ lookup'[l].state = state
  BY <1>1, <1>3 DEF Lookup
<1>5. Started' = Started
  BY <1>2, <1>4 DEF Started
<1>6. \A k \in Lookups : Live(k)' => Live(k)
  BY <1>2, <1>4 DEF Live
<1>7. ASSUME NEW i \in DOMAIN entries PROVE Fits(entries[i], lookup')
  <2>1. entries[i] \in Entry /\ Fits(entries[i], lookup)
    BY DEF CacheInv, Proper
  <2>2. entries[i].lookup \in Lookups
    BY <2>1, EntryFields
  <2> QED
    BY <1>4, <2>1, <2>2 DEF Fits
<1>8. Proper(entries', others', lookup')
  BY <1>2, <1>7 DEF CacheInv, Proper
<1>9. Found'
  BY <1>2, <1>6 DEF CacheInv, Found
<1>10. Numbered' /\ CacheTyped'
  BY <1>2, <1>4, <1>5 DEF CacheInv, CacheTyped, Numbered
<1> QED
  BY <1>2, <1>8, <1>9, <1>10 DEF CacheInv

LEMMA DropKeepsCache ==
  ASSUME CacheInv, NEW l \in Lookups, Drop(l)
  PROVE  CacheInv'
<1> DEFINE T == {i \in DOMAIN entries : entries[i].lookup # l}
           gone == [slug |-> NoSlug, started |-> 0, state |-> "dropped"]
<1>1. /\ lookup[l].state = "rejected" /\ entries' = OnlyAt(entries, T)
      /\ lookup' = [lookup EXCEPT ![l] = gone]
      /\ UNCHANGED <<clock, arrived, waiting, evicted, others>>
  <2>1. [NoLookup EXCEPT !.state = "dropped"] = gone
    BY DEF NoLookup
  <2>2. /\ lookup[l].state = "rejected" /\ entries' = OnlyAt(entries, T)
        /\ lookup' = [lookup EXCEPT ![l] = [NoLookup EXCEPT !.state = "dropped"]]
    BY DEF Drop, IsOwn
  <2>3. UNCHANGED <<clock, arrived, waiting, evicted, others>>
    BY DEF Drop, throttle
  <2> QED
    BY <2>1, <2>2, <2>3
<1>2. /\ lookup \in [Lookups -> Lookup] /\ Proper(entries, others, lookup)
      /\ Len(entries) \in Nat /\ Len(entries) <= MaxEntries /\ MaxEntries \in Nat /\ LastTick \in Nat
  BY LookupConstants DEF CacheInv, CacheTyped
<1>3. gone \in Lookup
  BY <1>2 DEF Lookup, Ticks
<1>4. /\ lookup' \in [Lookups -> Lookup] /\ lookup'[l] = gone
      /\ \A k \in Lookups : k # l => lookup'[k] = lookup[k]
  BY <1>1, <1>2, <1>3
<1>5. /\ Proper(entries', others, lookup) /\ Len(entries') <= Len(entries)
      /\ \A m \in DOMAIN entries' : \E i \in T : entries'[m] = entries[i]
      /\ \A i \in T : \E m \in DOMAIN entries' : entries'[m] = entries[i]
  <2>1. T \subseteq DOMAIN entries
    OBVIOUS
  <2> HIDE DEF T
  <2> QED
    BY <1>1, <1>2, <2>1, PartIsProper
<1>6. Started' = Started
  BY <1>1, <1>4 DEF Started
<1>7. \A k \in Lookups : Live(k)' => Live(k) /\ k # l
  BY <1>1, <1>4 DEF Live
<1>8. ASSUME NEW m \in DOMAIN entries' PROVE Fits(entries'[m], lookup')
  <2>1. PICK i \in T : entries'[m] = entries[i]
    BY <1>5
  <2>2. entries[i] \in Entry /\ Fits(entries[i], lookup) /\ entries[i].lookup # l
    BY <1>2 DEF Proper
  <2>3. entries[i].lookup \in Lookups
    BY <2>2, EntryFields
  <2> QED
    BY <1>4, <2>1, <2>2, <2>3 DEF Fits
<1>9. Proper(entries', others', lookup')
  BY <1>1, <1>5, <1>8 DEF Proper
<1>10. Found'
  <2> SUFFICES ASSUME NEW k \in Lookups \ evicted', Live(k)'
               PROVE  \E m \in DOMAIN entries' : entries'[m].lookup = k
    BY DEF Found
  <2>1. Live(k) /\ k # l /\ k \in Lookups \ evicted
    BY <1>1, <1>7
  <2>2. PICK i \in DOMAIN entries : entries[i].lookup = k
    BY <2>1 DEF CacheInv, Found
  <2>3. i \in T
    BY <2>1, <2>2
  <2> QED
    BY <1>5, <2>2, <2>3
<1>11. Len(entries') <= MaxEntries /\ entries' \in Seq(Entry)
  <2>1. entries' \in Seq(Entry) /\ Len(entries') \in Nat
    BY <1>5 DEF Proper
  <2> QED
    BY <1>2, <1>5, <2>1
<1>12. Numbered' /\ CacheTyped'
  BY <1>1, <1>4, <1>6, <1>11 DEF CacheInv, CacheTyped, Numbered
<1> QED
  BY <1>1, <1>9, <1>10, <1>12 DEF CacheInv

LEMMA TickKeepsCache ==
  ASSUME CacheInv, ClockTick
  PROVE  CacheInv'
<1>1. clock < LastTick /\ clock' = clock + 1 /\ UNCHANGED <<arrived, waiting, entries, evicted, others, lookup>>
  BY DEF ClockTick, throttle, cache
<1>2. clock \in Nat /\ LastTick \in Nat /\ Ttl \in Nat
  BY LookupConstants DEF CacheInv, CacheTyped, Ticks
<1>3. clock' \in Ticks
  BY <1>1, <1>2 DEF Ticks
<1>4. \A k \in Lookups : Live(k)' => Live(k)
  <2> SUFFICES ASSUME NEW k \in Lookups, clock + 1 < lookup[k].started + Ttl
               PROVE  clock < lookup[k].started + Ttl
    BY <1>1 DEF Live
  <2>1. lookup[k] \in Lookup
    BY DEF CacheInv, CacheTyped
  <2>2. lookup[k].started \in Nat
    BY <1>2, <2>1 DEF Lookup, Ticks
  <2> QED
    BY <1>2, <2>2
<1>5. Found'
  BY <1>1, <1>4 DEF CacheInv, Found
<1>6. Proper(entries', others', lookup')
  BY <1>1 DEF CacheInv
<1>7. Numbered'
  BY <1>1 DEF CacheInv, Numbered, Started
<1>8. CacheTyped'
  BY <1>1, <1>3 DEF CacheInv, CacheTyped
<1> QED
  BY <1>1, <1>5, <1>6, <1>7, <1>8 DEF CacheInv

\* The steps that leave the lookups and the cache alone.
LEMMA QueueKeepsCache ==
  ASSUME CacheInv, arrived' \in 0 .. Requests, waiting' \in 0 .. arrived',
         \A n \in Nat : n + waiting <= arrived => n + waiting' <= arrived',
         UNCHANGED <<clock, entries, evicted, others, lookup>>
  PROVE  CacheInv'
<1>1. Started' = Started /\ \A l : Live(l)' <=> Live(l)
  BY DEF Started, Live
<1>2. Numbered'
  BY <1>1 DEF CacheInv, Numbered
<1>3. Found'
  BY <1>1 DEF CacheInv, Found
<1>4. CacheTyped' /\ Proper(entries', others', lookup')
  BY DEF CacheInv, CacheTyped
<1> QED
  BY <1>2, <1>3, <1>4 DEF CacheInv

LEMMA NextKeepsCache == CacheInv /\ [LookupNext]_lookupVars => CacheInv'
<1> SUFFICES ASSUME CacheInv, [LookupNext]_lookupVars PROVE CacheInv'
  OBVIOUS
<1>1. /\ arrived \in Nat /\ waiting \in Nat /\ Requests \in Nat /\ waiting <= arrived /\ arrived <= Requests
      /\ arrived \in 0 .. Requests /\ waiting \in 0 .. arrived
  BY LookupConstants DEF CacheInv, CacheTyped
<1>2. ASSUME NEW c \in Client, Admit(c) PROVE CacheInv'
  <2>1. arrived < Requests /\ arrived' = arrived + 1 /\ waiting' = waiting + 1 /\ UNCHANGED <<clock, entries, evicted, others, lookup>>
    BY <1>2 DEF Admit, Come, cache
  <2>2. /\ arrived' \in 0 .. Requests /\ waiting' \in 0 .. arrived'
        /\ \A n \in Nat : n + waiting <= arrived => n + waiting' <= arrived'
    BY <1>1, <2>1
  <2> QED
    BY <2>1, <2>2, QueueKeepsCache
<1>3. ASSUME NEW c \in Client, Refuse(c) PROVE CacheInv'
  <2>1. arrived < Requests /\ arrived' = arrived + 1 /\ waiting' = waiting /\ UNCHANGED <<clock, entries, evicted, others, lookup>>
    BY <1>3 DEF Refuse, Come, cache
  <2>2. /\ arrived' \in 0 .. Requests /\ waiting' \in 0 .. arrived'
        /\ \A n \in Nat : n + waiting <= arrived => n + waiting' <= arrived'
    BY <1>1, <2>1
  <2> QED
    BY <2>1, <2>2, QueueKeepsCache
<1>4. ASSUME FindElsewhere PROVE CacheInv'
  <2>1. waiting > 0 /\ waiting' = waiting - 1 /\ arrived' = arrived /\ UNCHANGED <<clock, entries, evicted, others, lookup>>
    BY <1>4 DEF FindElsewhere, LeaveQueue, cache, throttle
  <2>2. /\ arrived' \in 0 .. Requests /\ waiting' \in 0 .. arrived'
        /\ \A n \in Nat : n + waiting <= arrived => n + waiting' <= arrived'
    BY <1>1, <2>1
  <2> QED
    BY <2>1, <2>2, QueueKeepsCache
<1>5. CASE UNCHANGED lookupVars
  <2>1. UNCHANGED <<clock, arrived, waiting, entries, evicted, others, lookup>>
    BY <1>5 DEF lookupVars
  <2> QED
    BY <1>1, <2>1, QueueKeepsCache
<1> QED
  BY <1>2, <1>3, <1>4, <1>5, ShareKeepsCache, CreateKeepsCache, SettleKeepsCache, DropKeepsCache, TickKeepsCache DEF LookupNext

LEMMA CacheFirst == LookupInit => CacheInv
<1> SUFFICES ASSUME LookupInit PROVE CacheInv
  OBVIOUS
<1>1. /\ clock = 0 /\ entries = <<>> /\ arrived = 0 /\ waiting = 0 /\ evicted = {}
      /\ lookup = [l \in Lookups |-> NoLookup] /\ others = [s \in Slug |-> {}]
  BY DEF LookupInit
<1>2. Requests \in Nat /\ MaxEntries \in Nat /\ LastTick \in Nat
  BY LookupConstants
<1>3. NoLookup \in Lookup /\ NoLookup.state = "none"
  BY <1>2 DEF NoLookup, Lookup, Ticks
<1>4. Started = {}
  BY <1>1, <1>3 DEF Started
<1>5. Numbered
  <2>1. 1 .. 0 = {} /\ 0 + 0 <= 0
    OBVIOUS
  <2> QED
    BY <1>1, <1>4, <2>1 DEF Numbered
<1>6. Found
  BY <1>1, <1>3 DEF Found, Live
<1>7. Proper(entries, others, lookup)
  BY <1>1 DEF Proper
<1>8. CacheTyped
  BY <1>1, <1>2, <1>3 DEF CacheTyped, Ticks
<1> QED
  BY <1>1, <1>5, <1>6, <1>7, <1>8, FS_EmptySet DEF CacheInv

LEMMA CacheHolds == LookupSpec => []CacheInv
BY CacheFirst, NextKeepsCache, PTL DEF LookupSpec
\* A lookup makes room only for the one that starts, and at the head of a full table.
LEMMA RoomIsMadeLast ==
  ASSUME CacheInv, NEW s \in Slug, Create(s),
         NEW l \in evicted' \ evicted
  PROVE  Cardinality(others'[lookup[l].slug]) >= MaxEntries
<1> DEFINE F == Fresh
           kept == MakeRoom(F)
           n == Len(F)
           t == lookup[l].slug
<1>1. /\ Asked(s) /\ ~Holds(F, s)
      /\ evicted' = evicted \cup {x.lookup : x \in ToSet(F) \ ToSet(kept)}
  BY DEF Create
<1>2. /\ Proper(F, others, lookup) /\ n <= MaxEntries /\ n \in Nat /\ DOMAIN F = 1 .. n
      /\ \A i \in DOMAIN F : F[i] \in Entry
  BY FreshIs DEF Proper
<1>3. /\ others' \in [Slug -> SUBSET Slug] /\ \A u \in Slug : IsFiniteSet(others'[u])
      /\ others' = [u \in Slug |-> IF u = s THEN {} ELSE others[u] \cup {s}]
  BY <1>1, AskedIs
<1>4. \A i \in DOMAIN F : F[i].slug # s /\ F[i].slug \in Slug
  BY <1>1, <1>2, EntryFields DEF Holds
<1>5. \A i \in DOMAIN F : \/ \E j \in DOMAIN kept : kept[j] = F[i]
                          \/ i = 1 /\ n >= MaxEntries
  BY RoomIs
<1> HIDE DEF F, kept
<1>6. 1 \in DOMAIN F /\ F[1].lookup = l /\ n >= MaxEntries
  <2>1. PICK i \in DOMAIN F : F[i].lookup = l /\ F[i] \notin ToSet(kept)
    BY <1>1 DEF ToSet
  <2>2. ~\E j \in DOMAIN kept : kept[j] = F[i]
    BY <2>1 DEF ToSet
  <2> QED
    BY <1>5, <2>1, <2>2
<1>7. t = F[1].slug /\ t \in Slug /\ others'[t] = others[t] \cup {s}
  <2>1. t = F[1].slug
    BY <1>2, <1>6 DEF Proper, Fits
  <2> QED
    BY <1>3, <1>4, <1>6, <2>1
<1> DEFINE f == [i \in 1 .. n |-> IF i = 1 THEN s ELSE F[i].slug]
<1>8. \A i \in 1 .. n : i # 1 => F[i].slug \in others[t] /\ F[i].slug # s
  <2> SUFFICES ASSUME NEW i \in 1 .. n, i # 1 PROVE F[i].slug \in others[t] /\ F[i].slug # s
    OBVIOUS
  <2>1. 1 < i /\ i \in DOMAIN F
    BY <1>2
  <2>2. F[i].slug \in others[F[1].slug]
    BY <1>2, <1>6, <2>1 DEF Proper
  <2> QED
    BY <1>4, <1>7, <2>1, <2>2
<1>9. f \in [1 .. n -> others'[t]]
  BY <1>7, <1>8
<1>10. \A i, j \in 1 .. n : f[i] = f[j] => i = j
  <2> SUFFICES ASSUME NEW i \in 1 .. n, NEW j \in 1 .. n, f[i] = f[j] PROVE i = j
    OBVIOUS
  <2>1. CASE i = 1 \/ j = 1
    BY <1>8, <2>1
  <2>2. CASE i # 1 /\ j # 1
    <3>1. F[i].slug = F[j].slug
      BY <2>2
    <3> QED
      BY <1>2, <3>1 DEF Proper
  <2> QED
    BY <2>1, <2>2
<1> HIDE DEF f, t, n
<1>11. f \in Injection(1 .. n, others'[t])
  BY <1>9, <1>10 DEF Injection, IsInjective
<1>12. IsFiniteSet(others'[t]) /\ Cardinality(1 .. n) = n
  <2>1. n \in Nat /\ IsFiniteSet(others'[t])
    BY <1>2, <1>3, <1>7
  <2> QED
    BY <2>1, FS_Interval
<1>13. n <= Cardinality(others'[t]) /\ Cardinality(others'[t]) \in Nat
  BY <1>11, <1>12, FS_Injection, FS_CardinalityType
<1>14. MaxEntries \in Nat /\ Cardinality(others'[t]) = Cardinality(others'[t])
  BY LookupConstants
<1>15. Cardinality(others'[t]) >= MaxEntries
  BY <1>2, <1>6, <1>13, <1>14
<1> QED
  BY <1>14, <1>15 DEF t

\* Nothing else makes room.
LEMMA OnlyCreateEvicts ==
  ASSUME LookupNext, \A s \in Slug : ~Create(s)
  PROVE  evicted' = evicted
<1>1. ASSUME NEW c \in Client, Admit(c) \/ Refuse(c) PROVE evicted' = evicted
  BY <1>1 DEF Admit, Refuse, cache
<1>2. ASSUME NEW l \in Lookups, Settle(l) \/ Drop(l) PROVE evicted' = evicted
  BY <1>2 DEF Settle, Drop, cache
<1>3. ASSUME NEW s \in Slug, Share(s) PROVE evicted' = evicted
  BY <1>3 DEF Share
<1>4. ASSUME FindElsewhere \/ ClockTick PROVE evicted' = evicted
  BY <1>4 DEF FindElsewhere, ClockTick, cache
<1> QED
  BY <1>1, <1>2, <1>3, <1>4 DEF LookupNext

LEMMA LookupsShared == CacheInv => LookupsAreShared
<1> SUFFICES ASSUME CacheInv, NEW l \in Lookups, NEW k \in Lookups,
                    l # k, Live(l), Live(k), lookup[l].slug = lookup[k].slug, evicted \cap {l, k} = {}
             PROVE  FALSE
  BY DEF LookupsAreShared
<1>1. PICK i \in DOMAIN entries : entries[i].lookup = l
  BY DEF CacheInv, Found
<1>2. PICK j \in DOMAIN entries : entries[j].lookup = k
  BY DEF CacheInv, Found
<1>3. entries[i].slug = lookup[l].slug /\ entries[j].slug = lookup[k].slug
  BY <1>1, <1>2 DEF CacheInv, Proper, Fits
<1>4. i = j
  BY <1>3 DEF CacheInv, Proper
<1> QED
  BY <1>1, <1>2, <1>4

(***************************************************************************)
(* A lookup is started for a slug whose last one is pending or answered    *)
(* and in its time only if that one had to make room, for every number of  *)
(* requests, slugs and entries; the failure of a lookup removes no other.  *)
(***************************************************************************)
THEOREM SharedLookups == LookupSpec => []LookupsAreShared
BY LookupsShared, CacheHolds, PTL

(***************************************************************************)
(* A slug makes room only when maxEntries other slugs were asked for since *)
(* it was.                                                                 *)
(***************************************************************************)
THEOREM LeastRecentlyUsedMakesRoom == LookupSpec => LeastRecentlyUsedGoes
<1> DEFINE Bought == \A l \in evicted' \ evicted : Cardinality(others'[lookup[l].slug]) >= MaxEntries
<1>1. CacheInv /\ [LookupNext]_lookupVars => [Bought]_lookupVars
  BY RoomIsMadeLast, OnlyCreateEvicts
<1> QED
  BY <1>1, CacheHolds, PTL DEF LookupSpec, LeastRecentlyUsedGoes

(***************************************************************************)
(* No request is given a lookup that started ttlMs ago, however often it   *)
(* was asked for in between.                                               *)
(***************************************************************************)
THEOREM SharedAnswersAreFresh == LookupSpec => AnswersAreFresh
<1> DEFINE InTime == \A s \in Slug :
              Share(s) \/ Create(s) => clock < lookup'[Last(entries').lookup].started + Ttl
<1>1. CacheInv /\ [LookupNext]_lookupVars => [InTime]_lookupVars
  BY ShareKeepsCache, CreateKeepsCache
<1> QED
  BY <1>1, CacheHolds, PTL DEF LookupSpec, AnswersAreFresh
-----------------------------------------------------------------------------
(******************************** More sums ********************************)

LEMMA SumsEach ==
  ASSUME NEW f, NEW S, IsFiniteSet(S)
  PROVE  \A T \in SUBSET S : Sums(f, S)[T] = IF T = {} THEN 0 ELSE f[Some(T)] + Sums(f, S)[T \ {Some(T)}]
<1> DEFINE g == Sums(f, S)
<1>1. IsSums(g, f, SUBSET S)
  BY SumsExist
<1> HIDE DEF g
<1>2. \A T \in SUBSET S : g[T] = IF T = {} THEN 0 ELSE f[Some(T)] + g[T \ {Some(T)}]
  BY ONLY <1>1 DEF IsSums
<1> QED
  BY ONLY <1>2 DEF g

\* Two families of sums of the same values are the same.
LEMMA SumsUnique ==
  ASSUME NEW S, IsFiniteSet(S), NEW f, NEW g, IsSums(g, f, SUBSET S)
  PROVE  g[S] = Sum(f, S)
<1> DEFINE F == {T \in SUBSET S : g[T] = Sums(f, S)[T]}
<1>1. \A T \in SUBSET S : g[T] = IF T = {} THEN 0 ELSE f[Some(T)] + g[T \ {Some(T)}]
  BY DEF IsSums
<1>4. \A T \in SUBSET S : Sums(f, S)[T] = IF T = {} THEN 0 ELSE f[Some(T)] + Sums(f, S)[T \ {Some(T)}]
  BY SumsEach
<1>2. ASSUME NEW T \in SUBSET S, \A x \in T : T \ {x} \in F PROVE T \in F
  <2>2. T # {} => g[T \ {Some(T)}] = Sums(f, S)[T \ {Some(T)}]
    BY <1>2, SomeIs
  <2> QED
    BY <1>1, <1>4, <2>2
<1> HIDE DEF F
<1>3. \A T \in SUBSET S : T \in F
  BY <1>2, AllSubsets
<1> QED
  BY <1>3 DEF F, Sum

\* Smaller values, smaller sum.
LEMMA SumLess ==
  ASSUME NEW S, IsFiniteSet(S), NEW f, NEW g,
         \A x \in S : f[x] \in Nat /\ g[x] \in Nat /\ f[x] <= g[x]
  PROVE  Sum(f, S) <= Sum(g, S)
<1> DEFINE F == {T \in SUBSET S : Sums(f, S)[T] <= Sums(g, S)[T]}
<1>1. \A T \in SUBSET S : Sums(f, S)[T] \in Nat /\ Sums(g, S)[T] \in Nat
  BY SumNat
<1>4. \A T \in SUBSET S :
        /\ Sums(f, S)[T] = IF T = {} THEN 0 ELSE f[Some(T)] + Sums(f, S)[T \ {Some(T)}]
        /\ Sums(g, S)[T] = IF T = {} THEN 0 ELSE g[Some(T)] + Sums(g, S)[T \ {Some(T)}]
  <2>1. \A T \in SUBSET S : Sums(f, S)[T] = IF T = {} THEN 0 ELSE f[Some(T)] + Sums(f, S)[T \ {Some(T)}]
    BY SumsEach
  <2>2. \A T \in SUBSET S : Sums(g, S)[T] = IF T = {} THEN 0 ELSE g[Some(T)] + Sums(g, S)[T \ {Some(T)}]
    BY SumsEach
  <2> QED
    BY <2>1, <2>2
<1>2. ASSUME NEW T \in SUBSET S, \A x \in T : T \ {x} \in F PROVE T \in F
  <2> DEFINE x == Some(T)
             rest == T \ {x}
  <2>1. CASE T = {}
    <3>1. Sums(f, S)[T] = 0 /\ Sums(g, S)[T] = 0
      BY <1>4, <2>1
    <3> QED
      BY <3>1
  <2>2. CASE T # {}
    <3>1. x \in T
      BY <2>2, SomeIs
    <3>2. Sums(f, S)[T] = f[x] + Sums(f, S)[rest] /\ Sums(g, S)[T] = g[x] + Sums(g, S)[rest]
      BY <1>4, <2>2
    <3>3. Sums(f, S)[rest] <= Sums(g, S)[rest] /\ rest \in SUBSET S
      BY <1>2, <3>1
    <3> HIDE DEF x, rest
    <3>4. f[x] \in Nat /\ g[x] \in Nat /\ f[x] <= g[x]
      BY <3>1
    <3>5. Sums(f, S)[rest] \in Nat /\ Sums(g, S)[rest] \in Nat
      BY <1>1, <3>3
    <3> QED
      BY <3>2, <3>3, <3>4, <3>5
  <2> QED
    BY <2>1, <2>2
<1> HIDE DEF F
<1>3. \A T \in SUBSET S : T \in F
  BY <1>2, AllSubsets
<1> QED
  BY <1>3 DEF F, Sum

LEMMA Products ==
  /\ \A a, k \in Nat : a * k \in Nat /\ (a + 1) * k = a * k + k
  /\ \A a, b, k \in Nat : a <= b => a * k <= b * k
  /\ \A a \in Nat, k \in Nat \ {0} : a * (k - 1) + a * k = a * (2 * k - 1)
<1>1. \A a, k \in Nat : a * k \in Nat /\ (a + 1) * k = a * k + k
  OBVIOUS
<1>2. ASSUME NEW a \in Nat, NEW b \in Nat, NEW k \in Nat, a <= b PROVE a * k <= b * k
  BY <1>2
<1>3. ASSUME NEW a \in Nat, NEW k \in Nat \ {0} PROVE a * (k - 1) + a * k = a * (2 * k - 1)
  BY <1>3
<1> QED
  BY <1>1, <1>2, <1>3

\* No more than k for each element of H, and nothing elsewhere.
LEMMA SumFits ==
  ASSUME NEW S, IsFiniteSet(S), NEW f, NEW k \in Nat, NEW H,
         \A x \in S : f[x] \in Nat /\ f[x] <= k /\ (x \notin H => f[x] = 0)
  PROVE  Sum(f, S) <= Cardinality(S \cap H) * k
<1> DEFINE F == {T \in SUBSET S : Sums(f, S)[T] <= Cardinality(T \cap H) * k}
<1>1. \A T \in SUBSET S : Sums(f, S)[T] \in Nat /\ IsFiniteSet(T \cap H) /\ Cardinality(T \cap H) \in Nat
  <2> SUFFICES ASSUME NEW T \in SUBSET S
               PROVE  Sums(f, S)[T] \in Nat /\ IsFiniteSet(T \cap H) /\ Cardinality(T \cap H) \in Nat
    OBVIOUS
  <2>1. IsFiniteSet(T \cap H)
    BY FS_Subset
  <2> QED
    BY <2>1, SumNat, FS_CardinalityType
<1>4. \A T \in SUBSET S : Sums(f, S)[T] = IF T = {} THEN 0 ELSE f[Some(T)] + Sums(f, S)[T \ {Some(T)}]
  BY ONLY IsFiniteSet(S), SumsEach
<1>2. ASSUME NEW T \in SUBSET S, \A x \in T : T \ {x} \in F PROVE T \in F
  <2> DEFINE x == Some(T)
             rest == T \ {x}
             n == Cardinality(rest \cap H)
  <2>1. CASE T = {}
    <3>1. Sums(f, S)[T] = 0 /\ T \cap H = {}
      BY <1>4, <2>1
    <3>2. Cardinality(T \cap H) * k = 0
      <4>1. Cardinality(T \cap H) = 0 /\ 0 * k = 0
        BY <3>1, FS_EmptySet
      <4> QED
        BY <4>1
    <3> QED
      BY <3>1, <3>2
  <2>2. CASE T # {}
    <3>1. x \in T
      BY <2>2, SomeIs
    <3>2. Sums(f, S)[T] = f[x] + Sums(f, S)[rest]
      BY <1>4, <2>2
    <3>3. Sums(f, S)[rest] <= n * k /\ rest \in SUBSET S
      BY <1>2, <3>1
    <3>4. rest \cap H = (T \cap H) \ {x}
      OBVIOUS
    <3>5. Cardinality(T \cap H) = IF x \in H THEN n + 1 ELSE n
      <4>1. n = IF x \in T \cap H THEN Cardinality(T \cap H) - 1 ELSE Cardinality(T \cap H)
        BY <1>1, <3>4, FS_RemoveElement
      <4>2. Cardinality(T \cap H) \in Nat
        BY <1>1
      <4> HIDE DEF n
      <4> QED
        BY <3>1, <4>1, <4>2
    <3>6. Sums(f, S)[rest] \in Nat /\ n \in Nat
      BY <1>1, <3>3
    <3> HIDE DEF x, rest, n
    <3>7. f[x] \in Nat /\ f[x] <= k /\ (x \notin H => f[x] = 0)
      BY <3>1
    <3>8. n * k \in Nat /\ (n + 1) * k = n * k + k
      BY <3>6, Products
    <3>9. x \in H => Sums(f, S)[T] <= (n + 1) * k
      BY <3>2, <3>3, <3>6, <3>7, <3>8
    <3>10. x \notin H => Sums(f, S)[T] <= n * k
      BY <3>2, <3>3, <3>6, <3>7, <3>8
    <3>11. x \in H => Cardinality(T \cap H) = n + 1
      BY <3>5
    <3>12. x \notin H => Cardinality(T \cap H) = n
      BY <3>5
    <3> QED
      BY <3>9, <3>10, <3>11, <3>12
  <2> QED
    BY <2>1, <2>2
<1> HIDE DEF F
<1>3. \A T \in SUBSET S : T \in F
  BY <1>2, AllSubsets
<1> QED
  BY <1>3 DEF F, Sum
-----------------------------------------------------------------------------
(************************ The throttle of lookups ************************)

HavingBucket(table) == {c \in Client : table[c].count > 0}

ThrottleFits ==
  /\ clock \in Ticks
  /\ buckets \in [Client -> RequestState] /\ Cardinality(HavingBucket(buckets)) <= LookupBuckets
  /\ admitted \in [Client -> [Ticks -> Nat]]
  /\ \A c \in Client, t \in Ticks : t > clock => admitted[c][t] = 0

\* Requests of a client that were let through from tick t on.
Passed(f, t) == Sum(f, t .. LastTick)

\* A bucket counts the requests since its window began, and holds one more than
\* a stretch can that began before; without a bucket there is no window.
Counted(b, f, n) ==
  /\ b.count > 0 =>
       /\ b.resetAt <= n + LookupWindow
       /\ \A t \in Ticks :
            /\ t + LookupWindow > b.resetAt => Passed(f, t) + 1 <= b.count
            /\ t + LookupWindow > n => Passed(f, t) + 1 <= MaxRequests + b.count
  /\ b.count = 0 =>
       \A t \in Ticks : t + LookupWindow > n => Passed(f, t) + 1 <= MaxRequests

LEMMA TicksAreNat ==
  /\ \A t \in Ticks : t \in Nat /\ t <= LastTick
  /\ LastTick \in Ticks /\ 0 \in Ticks /\ LastTick \in Nat
  /\ \A t \in Nat : t <= LastTick => t \in Ticks
BY LookupConstants DEF Ticks

LEMMA LookupBucket ==
  /\ \A b \in RequestState : b.count \in Nat /\ b.count <= MaxRequests /\ b.resetAt \in Nat
  /\ \A n, m \in Nat : n <= MaxRequests /\ m <= LastTick + LookupWindow =>
       [count |-> n, resetAt |-> m] \in RequestState
  /\ NoRequestState \in RequestState /\ NoRequestState.count = 0
<1>1. MaxRequests \in Nat /\ LastTick \in Nat /\ LookupWindow \in Nat
  BY LookupConstants
<1>2. \A n \in Nat : n <= MaxRequests => n \in 0 .. MaxRequests
  BY <1>1
<1>3. \A m \in Nat : m <= LastTick + LookupWindow => m \in 0 .. LastTick + LookupWindow
  BY <1>1
<1>4. 0 \in 0 .. MaxRequests /\ 0 \in 0 .. LastTick + LookupWindow
  BY <1>1
<1>5. NoRequestState \in RequestState /\ NoRequestState.count = 0
  BY <1>4 DEF RequestState, NoRequestState
<1>6. \A b \in RequestState : b.count \in Nat /\ b.count <= MaxRequests /\ b.resetAt \in Nat
  BY <1>1 DEF RequestState
<1> QED
  BY <1>2, <1>3, <1>5, <1>6 DEF RequestState

LEMMA TickSums ==
  ASSUME NEW f \in [Ticks -> Nat], NEW t \in Ticks, NEW e \in Ticks
  PROVE  /\ IsFiniteSet(t .. e) /\ Sum(f, t .. e) \in Nat /\ \A u \in t .. e : u \in Ticks /\ f[u] \in Nat
         /\ Sum(f, t .. e) <= Passed(f, t) /\ Passed(f, t) \in Nat
<1>1. t \in Nat /\ e \in Nat /\ LastTick \in Nat /\ e <= LastTick /\ t <= LastTick
  BY TicksAreNat
<1>2. IsFiniteSet(t .. e) /\ IsFiniteSet(t .. LastTick)
  BY <1>1, FS_Interval
<1>3. \A u \in t .. LastTick : u \in Ticks /\ f[u] \in Nat
  <2>1. \A u \in t .. LastTick : u \in Ticks
    BY <1>1, TicksAreNat
  <2> QED
    BY <2>1
<1>4. t .. e \subseteq t .. LastTick
  BY <1>1
<1> QED
  BY <1>2, <1>3, <1>4, SumParts, SumGrows DEF Passed

\* One more request at tick n.
OneMoreAt(f, n) == [f EXCEPT ![n] = @ + 1]

LEMMA OneMoreInside ==
  ASSUME NEW f \in [Ticks -> Nat], NEW n \in Ticks, NEW t \in Ticks, NEW e \in Ticks,
         n \in t .. e
  PROVE  Sum(OneMoreAt(f, n), t .. e) = Sum(f, t .. e) + 1
<1> DEFINE g == OneMoreAt(f, n)
<1>1. IsFiniteSet(t .. e) /\ \A u \in t .. e : u \in Ticks /\ f[u] \in Nat
  BY TickSums
<1>2. g[n] = f[n] + 1 /\ \A u \in Ticks : u # n => g[u] = f[u]
  BY DEF OneMoreAt
<1> HIDE DEF g
<1>4. \A u \in t .. e : f[u] \in Nat /\ g[u] \in Nat
  BY <1>1, <1>2
<1>5. (\A u \in (t .. e) \ {n} : g[u] = f[u]) /\ g[n] = f[n] + 1
  BY <1>1, <1>2
<1>6. Sum(g, t .. e) = Sum(f, t .. e) + 1
  BY ONLY <1>1, n \in t .. e, <1>4, <1>5, SumChanges
<1> QED
  BY ONLY <1>6 DEF g

Outside(n, t, e) == n \notin t .. e

LEMMA SameOutside ==
  ASSUME NEW f \in [Ticks -> Nat], NEW n \in Ticks, NEW t \in Ticks, NEW e \in Ticks,
         Outside(n, t, e)
  PROVE  Sum(OneMoreAt(f, n), t .. e) = Sum(f, t .. e)
<1> DEFINE g == OneMoreAt(f, n)
<1>1. IsFiniteSet(t .. e) /\ \A u \in t .. e : u \in Ticks /\ f[u] \in Nat
  BY TickSums
<1>2. g[n] = f[n] + 1 /\ \A u \in Ticks : u # n => g[u] = f[u]
  BY DEF OneMoreAt
<1> HIDE DEF g
<1>4. \A u \in t .. e : g[u] = f[u]
  BY <1>1, <1>2 DEF Outside
<1>5. Sum(g, t .. e) = Sum(f, t .. e)
  BY ONLY <1>1, <1>4, SumSame
<1> QED
  BY ONLY <1>5 DEF g

LEMMA PassedOneMore ==
  ASSUME NEW f \in [Ticks -> Nat], NEW n \in Ticks, NEW t \in Ticks
  PROVE  /\ t <= n => Passed(OneMoreAt(f, n), t) = Passed(f, t) + 1
         /\ ~(t <= n) => Passed(OneMoreAt(f, n), t) = Passed(f, t)
<1>1. LastTick \in Ticks /\ (n \in t .. LastTick <=> t <= n)
  BY TicksAreNat
<1>2. ASSUME t <= n PROVE Sum(OneMoreAt(f, n), t .. LastTick) = Sum(f, t .. LastTick) + 1
  <2>1. LastTick \in Ticks
    BY <1>1
  <2>2. n \in t .. LastTick
    BY <1>1, <1>2
  <2> QED
    BY <2>1, <2>2, OneMoreInside
<1>3. ASSUME ~(t <= n) PROVE Sum(OneMoreAt(f, n), t .. LastTick) = Sum(f, t .. LastTick)
  <2>1. LastTick \in Ticks
    BY <1>1
  <2>2. Outside(n, t, LastTick)
    BY <1>1, <1>3 DEF Outside
  <2> QED
    BY <2>1, <2>2, SameOutside
<1> QED
  BY <1>2, <1>3 DEF Passed

\* Nothing has passed at ticks to come.
LEMMA NonePassed ==
  ASSUME NEW f \in [Ticks -> Nat], NEW n \in Ticks,
         \A t \in Ticks : t > n => f[t] = 0, NEW t \in Ticks, t > n
  PROVE  \A e \in Ticks : Sum(f, t .. e) = 0
<1> SUFFICES ASSUME NEW e \in Ticks PROVE Sum(f, t .. e) = 0
  OBVIOUS
<1>1. IsFiniteSet(t .. e) /\ \A u \in t .. e : u \in Ticks
  BY TickSums
<1>2. \A u \in t .. e : f[u] = 0
  <2> SUFFICES ASSUME NEW u \in t .. e PROVE f[u] = 0
    OBVIOUS
  <2>1. u \in Ticks /\ u > n
    BY <1>1, TicksAreNat
  <2> QED
    BY <2>1
<1> QED
  BY <1>1, <1>2, SumZero

LEMMA PrunedCounted ==
  ASSUME NEW b \in RequestState, NEW f \in [Ticks -> Nat], clock \in Ticks,
         Counted(b, f, clock), ~Open(b)
  PROVE  Counted(NoRequestState, f, clock)
<1>1. /\ b.count \in Nat /\ b.count <= MaxRequests /\ b.resetAt \in Nat /\ NoRequestState.count = 0
      /\ clock \in Nat /\ MaxRequests \in Nat /\ LookupWindow \in Nat
  BY LookupBucket, TicksAreNat, LookupConstants
<1> SUFFICES ASSUME NEW t \in Ticks, t + LookupWindow > clock PROVE Passed(f, t) + 1 <= MaxRequests
  BY <1>1 DEF Counted
<1>2. Passed(f, t) \in Nat /\ t \in Nat
  BY TickSums, TicksAreNat
<1>3. CASE b.count = 0
  BY <1>3 DEF Counted
<1>4. CASE b.count > 0
  <2>1. b.resetAt <= clock
    BY <1>1, <1>4 DEF Open
  <2>2. t + LookupWindow > b.resetAt
    BY <1>1, <1>2, <2>1
  <2>3. Passed(f, t) + 1 <= b.count
    BY <1>4, <2>2 DEF Counted
  <2> QED
    BY <1>1, <1>2, <2>3
<1> QED
  BY <1>1, <1>3, <1>4

LEMMA ChargedCounted ==
  ASSUME NEW b \in RequestState, NEW f \in [Ticks -> Nat], clock \in Ticks,
         Counted(b, f, clock), \A t \in Ticks : t > clock => f[t] = 0,
         b = NoRequestState \/ (Open(b) /\ b.count < MaxRequests),
         NEW g, g = OneMoreAt(f, clock)
  PROVE  Counted(ChargeRequest(b), g, clock) /\ ChargeRequest(b) \in RequestState /\ ChargeRequest(b).count > 0
<1>1. /\ b.count \in Nat /\ b.count <= MaxRequests /\ b.resetAt \in Nat /\ NoRequestState.count = 0
      /\ clock \in Nat /\ clock <= LastTick /\ LastTick \in Nat /\ MaxRequests \in Nat \ {0} /\ LookupWindow \in Nat \ {0}
  BY LookupBucket, TicksAreNat, LookupConstants
<1>2. ASSUME NEW t \in Ticks
      PROVE  /\ t \in Nat /\ Passed(f, t) \in Nat
             /\ t <= clock => Passed(g, t) = Passed(f, t) + 1
             /\ t > clock => Passed(g, t) = 0
  <2>1. t \in Nat /\ Passed(f, t) \in Nat /\ LastTick \in Ticks
    BY TickSums, TicksAreNat
  <2>2. /\ t <= clock => Passed(g, t) = Passed(f, t) + 1
        /\ ~(t <= clock) => Passed(g, t) = Passed(f, t)
    BY PassedOneMore
  <2>3. t > clock => Passed(f, t) = 0
    BY <2>1, NonePassed DEF Passed
  <2>4. t > clock => ~(t <= clock)
    BY <1>1, <2>1
  <2> QED
    BY <1>1, <2>1, <2>2, <2>3, <2>4
<1>3. CASE b = NoRequestState
  <2>1. ~Open(b)
    BY <1>1, <1>3 DEF Open
  <2>2. ChargeRequest(b) = [count |-> 1, resetAt |-> clock + LookupWindow]
    BY <2>1 DEF ChargeRequest
  <2>3. ChargeRequest(b) \in RequestState
    <3>1. 1 <= MaxRequests /\ clock + LookupWindow \in Nat /\ clock + LookupWindow <= LastTick + LookupWindow
      BY <1>1
    <3> QED
      BY <2>2, <3>1, LookupBucket
  <2>4. ASSUME NEW t \in Ticks
        PROVE  /\ t + LookupWindow > clock + LookupWindow => Passed(g, t) + 1 <= 1
               /\ t + LookupWindow > clock => Passed(g, t) + 1 <= MaxRequests + 1
    <3>1. t + LookupWindow > clock => Passed(f, t) + 1 <= MaxRequests
      BY <1>1, <1>3 DEF Counted
    <3>2. t \in Nat /\ Passed(f, t) \in Nat
      BY <1>2
    <3>3. CASE t <= clock
      <4>1. Passed(g, t) = Passed(f, t) + 1
        BY <1>2, <3>3
      <4> QED
        BY <1>1, <3>1, <3>2, <3>3, <4>1
    <3>4. CASE t > clock
      <4>1. Passed(g, t) = 0
        BY <1>2, <3>4
      <4> QED
        BY <1>1, <4>1
    <3> QED
      BY <1>1, <3>2, <3>3, <3>4
  <2>5. clock + LookupWindow <= clock + LookupWindow /\ 1 > 0 /\ 1 # 0
    BY <1>1
  <2>6. ChargeRequest(b).count = 1 /\ ChargeRequest(b).resetAt = clock + LookupWindow
    BY <2>2
  <2> QED
    BY <2>3, <2>4, <2>5, <2>6 DEF Counted
<1>4. CASE Open(b) /\ b.count < MaxRequests
  <2>1. ChargeRequest(b) = [b EXCEPT !.count = @ + 1] /\ b.count > 0
    BY <1>4 DEF ChargeRequest, Open
  <2>2. ChargeRequest(b).count = b.count + 1 /\ ChargeRequest(b).resetAt = b.resetAt
    BY <2>1 DEF RequestState
  <2>3. ChargeRequest(b) \in RequestState
    <3>1. b.count + 1 \in 0 .. MaxRequests
      BY <1>1, <1>4
    <3> QED
      BY <2>1, <3>1 DEF RequestState
  <2>4. ASSUME NEW t \in Ticks
        PROVE  /\ t + LookupWindow > b.resetAt => Passed(g, t) + 1 <= b.count + 1
               /\ t + LookupWindow > clock => Passed(g, t) + 1 <= MaxRequests + (b.count + 1)
    <3>1. /\ t + LookupWindow > b.resetAt => Passed(f, t) + 1 <= b.count
          /\ t + LookupWindow > clock => Passed(f, t) + 1 <= MaxRequests + b.count
      BY <2>1 DEF Counted
    <3>2. t \in Nat /\ Passed(f, t) \in Nat
      BY <1>2
    <3>3. CASE t <= clock
      <4>1. Passed(g, t) = Passed(f, t) + 1
        BY <1>2, <3>3
      <4> QED
        BY <1>1, <3>1, <3>2, <4>1
    <3>4. CASE t > clock
      <4>1. Passed(g, t) = 0
        BY <1>2, <3>4
      <4> QED
        BY <1>1, <4>1
    <3> QED
      BY <1>1, <3>2, <3>3, <3>4
  <2>5. b.resetAt <= clock + LookupWindow /\ b.count + 1 > 0 /\ b.count + 1 # 0
    BY <1>1, <2>1 DEF Counted
  <2> QED
    BY <2>2, <2>3, <2>4, <2>5 DEF Counted
<1> QED
  BY <1>3, <1>4

LEMMA LaterCounted ==
  ASSUME NEW b \in RequestState, NEW f, NEW n \in Ticks, Counted(b, f, n)
  PROVE  Counted(b, f, n + 1)
<1>1. b.resetAt \in Nat /\ n \in Nat /\ LookupWindow \in Nat
  BY LookupBucket, TicksAreNat, LookupConstants
<1>2. \A t \in Ticks : t + LookupWindow > n + 1 => t + LookupWindow > n
  BY <1>1, TicksAreNat
<1>3. b.resetAt <= n + LookupWindow => b.resetAt <= (n + 1) + LookupWindow
  BY <1>1
<1> QED
  BY <1>2, <1>3 DEF Counted
-----------------------------------------------------------------------------
(************************** All clients together *************************)

\* What the bucket leaves of its limit, if its window began before tick t, and
\* what it counts, if its window began later.
LeftOf(b, t) == IF b.count > 0 /\ b.resetAt < t + LookupWindow THEN MaxRequests - b.count ELSE 0
LaterIn(b, t) == IF b.count > 0 /\ b.resetAt >= t + LookupWindow THEN b.count ELSE 0

\* What was let through from tick t on and may still be in the windows of then.
Spent(table, adm, t) == [c \in Client |-> Passed(adm[c], t) + LeftOf(table[c], t)]
Later(table, t) == [c \in Client |-> LaterIn(table[c], t)]

\* The windows that were open at tick t let all but the request that opened
\* them through, the rest of the table is in windows that began since.
Budget(table, adm, t) ==
  Sum(Spent(table, adm, t), Client) <= LookupBuckets * (MaxRequests - 1) + Sum(Later(table, t), Client)

LEMMA SpentTypes ==
  ASSUME NEW table \in [Client -> RequestState],
         NEW adm \in [Client -> [Ticks -> Nat]], NEW t \in Ticks
  PROVE  /\ \A c \in Client : /\ Spent(table, adm, t)[c] = Passed(adm[c], t) + LeftOf(table[c], t)
                              /\ Later(table, t)[c] = LaterIn(table[c], t)
                              /\ Passed(adm[c], t) \in Nat /\ LeftOf(table[c], t) \in Nat
                              /\ LaterIn(table[c], t) \in Nat /\ LaterIn(table[c], t) <= MaxRequests
                              /\ Spent(table, adm, t)[c] \in Nat /\ Later(table, t)[c] \in Nat
         /\ Sum(Spent(table, adm, t), Client) \in Nat /\ Sum(Later(table, t), Client) \in Nat
         /\ IsFiniteSet(Client) /\ MaxRequests \in Nat \ {0} /\ LookupBuckets \in Nat
         /\ LookupBuckets * (MaxRequests - 1) \in Nat
<1>1. IsFiniteSet(Client) /\ MaxRequests \in Nat \ {0} /\ LookupBuckets \in Nat /\ LookupWindow \in Nat
  BY LookupConstants
<1>2. ASSUME NEW c \in Client
      PROVE  /\ Spent(table, adm, t)[c] = Passed(adm[c], t) + LeftOf(table[c], t)
             /\ Later(table, t)[c] = LaterIn(table[c], t)
             /\ Passed(adm[c], t) \in Nat /\ LeftOf(table[c], t) \in Nat
             /\ LaterIn(table[c], t) \in Nat /\ LaterIn(table[c], t) <= MaxRequests
             /\ Spent(table, adm, t)[c] \in Nat /\ Later(table, t)[c] \in Nat
  <2>1. adm[c] \in [Ticks -> Nat] /\ table[c] \in RequestState
    OBVIOUS
  <2>2. Passed(adm[c], t) \in Nat
    BY <2>1, TickSums
  <2>3. table[c].count \in Nat /\ table[c].count <= MaxRequests
    BY <2>1, LookupBucket
  <2>4. LeftOf(table[c], t) \in Nat /\ LaterIn(table[c], t) \in Nat /\ LaterIn(table[c], t) <= MaxRequests
    BY <1>1, <2>3 DEF LeftOf, LaterIn
  <2>5. /\ Spent(table, adm, t)[c] = Passed(adm[c], t) + LeftOf(table[c], t)
        /\ Later(table, t)[c] = LaterIn(table[c], t)
    BY DEF Spent, Later
  <2> QED
    BY <2>2, <2>4, <2>5
<1>3. Sum(Spent(table, adm, t), Client) \in Nat
  BY <1>1, <1>2, SumParts
<1>4. Sum(Later(table, t), Client) \in Nat
  BY <1>1, <1>2, SumParts
<1>5. LookupBuckets * (MaxRequests - 1) \in Nat
  <2>1. MaxRequests - 1 \in Nat
    BY <1>1
  <2> QED
    BY <1>1, <2>1, Products
<1> QED
  BY <1>1, <1>2, <1>3, <1>4, <1>5

\* A window that is over and began before tick t leaves less.
LEMMA PrunedBudget ==
  ASSUME NEW table \in [Client -> RequestState],
         NEW adm \in [Client -> [Ticks -> Nat]], NEW t \in Ticks,
         Budget(table, adm, t), clock \in Ticks, clock < t + LookupWindow,
         NEW pruned \in [Client -> RequestState],
         \A c \in Client : \/ pruned[c] = table[c]
                           \/ pruned[c] = NoRequestState /\ ~Open(table[c])
  PROVE  Budget(pruned, adm, t)
<1>1. ASSUME NEW c \in Client
      PROVE  /\ LeftOf(pruned[c], t) <= LeftOf(table[c], t)
             /\ LaterIn(pruned[c], t) = LaterIn(table[c], t)
  <2>1. CASE pruned[c] = table[c]
    <3>1. LeftOf(table[c], t) \in Nat
      BY SpentTypes
    <3> QED
      BY <2>1, <3>1
  <2>2. CASE pruned[c] = NoRequestState /\ ~Open(table[c])
    <3>1. /\ table[c].count \in Nat /\ table[c].count <= MaxRequests /\ table[c].resetAt \in Nat
          /\ NoRequestState.count = 0 /\ clock \in Nat /\ t \in Nat /\ LookupWindow \in Nat
      BY LookupBucket, TicksAreNat, LookupConstants
    <3>2. LeftOf(pruned[c], t) = 0 /\ LaterIn(pruned[c], t) = 0
      BY <2>2, <3>1 DEF LeftOf, LaterIn
    <3>3. LaterIn(table[c], t) = 0
      <4> SUFFICES ASSUME table[c].count > 0, table[c].resetAt >= t + LookupWindow PROVE FALSE
        BY DEF LaterIn
      <4>1. table[c].resetAt > clock
        BY <3>1
      <4> QED
        BY <2>2, <4>1 DEF Open
    <3>4. LeftOf(table[c], t) \in Nat
      BY SpentTypes
    <3> QED
      BY <3>2, <3>3, <3>4
  <2> QED
    BY <2>1, <2>2
<1> DEFINE f == Spent(pruned, adm, t)
           g == Spent(table, adm, t)
           h == Later(pruned, t)
           k == Later(table, t)
<1>2. \A c \in Client : f[c] \in Nat /\ g[c] \in Nat /\ f[c] <= g[c]
  <2> SUFFICES ASSUME NEW c \in Client PROVE f[c] \in Nat /\ g[c] \in Nat /\ f[c] <= g[c]
    OBVIOUS
  <2>1. /\ f[c] = Passed(adm[c], t) + LeftOf(pruned[c], t) /\ f[c] \in Nat
        /\ Passed(adm[c], t) \in Nat /\ LeftOf(pruned[c], t) \in Nat
    BY SpentTypes
  <2>2. g[c] = Passed(adm[c], t) + LeftOf(table[c], t) /\ g[c] \in Nat /\ LeftOf(table[c], t) \in Nat
    BY SpentTypes
  <2> HIDE DEF f, g
  <2>3. LeftOf(pruned[c], t) <= LeftOf(table[c], t)
    BY <1>1
  <2> QED
    BY <2>1, <2>2, <2>3
<1>3. \A c \in Client : h[c] = k[c]
  BY <1>1 DEF Later
<1>4. Sum(f, Client) \in Nat /\ Sum(h, Client) \in Nat
  BY SpentTypes
<1>5. Sum(g, Client) \in Nat /\ Sum(k, Client) \in Nat /\ IsFiniteSet(Client) /\ LookupBuckets * (MaxRequests - 1) \in Nat
  BY SpentTypes
<1>6. Sum(g, Client) <= LookupBuckets * (MaxRequests - 1) + Sum(k, Client)
  BY DEF Budget
<1> HIDE DEF f, g, h, k
<1>7. Sum(f, Client) <= Sum(g, Client)
  BY <1>2, <1>5, SumLess
<1>8. Sum(h, Client) = Sum(k, Client)
  BY <1>3, <1>5, SumSame
<1>9. Sum(f, Client) <= LookupBuckets * (MaxRequests - 1) + Sum(h, Client)
  BY <1>4, <1>5, <1>6, <1>7, <1>8
<1> QED
  BY <1>9 DEF Budget, f, h

\* Both sums move together.
LEMMA BudgetMoves ==
  ASSUME NEW S, IsFiniteSet(S), NEW m \in Nat, NEW f, NEW g, NEW h, NEW k,
         \A d \in S : f[d] \in Nat /\ g[d] \in Nat /\ h[d] \in Nat /\ k[d] \in Nat,
         Sum(f, S) <= m + Sum(h, S), NEW c \in S,
         \A d \in S \ {c} : g[d] = f[d] /\ k[d] = h[d],
         (g[c] = f[c] /\ k[c] = h[c]) \/ (g[c] = f[c] + 1 /\ k[c] = h[c] + 1)
  PROVE  Sum(g, S) <= m + Sum(k, S)
<1>1. Sum(f, S) \in Nat /\ Sum(h, S) \in Nat
  <2>1. \A d \in S : f[d] \in Nat
    OBVIOUS
  <2>2. \A d \in S : h[d] \in Nat
    OBVIOUS
  <2> QED
    BY <2>1, <2>2, SumParts
<1>2. CASE g[c] = f[c] /\ k[c] = h[c]
  <2>1. \A d \in S : g[d] = f[d]
    BY <1>2
  <2>2. \A d \in S : k[d] = h[d]
    BY <1>2
  <2>3. Sum(g, S) = Sum(f, S)
    BY <2>1, SumSame
  <2>4. Sum(k, S) = Sum(h, S)
    BY <2>2, SumSame
  <2> QED
    BY <2>3, <2>4
<1>3. CASE g[c] = f[c] + 1 /\ k[c] = h[c] + 1
  <2>1. /\ \A d \in S : f[d] \in Nat /\ g[d] \in Nat
        /\ \A d \in S \ {c} : g[d] = f[d]
        /\ g[c] = f[c] + 1
    BY <1>3
  <2>2. /\ \A d \in S : h[d] \in Nat /\ k[d] \in Nat
        /\ \A d \in S \ {c} : k[d] = h[d]
        /\ k[c] = h[c] + 1
    BY <1>3
  <2>3. Sum(g, S) = Sum(f, S) + 1
    BY ONLY <2>1, c \in S, IsFiniteSet(S), SumChanges
  <2>4. Sum(k, S) = Sum(h, S) + 1
    BY ONLY <2>2, c \in S, IsFiniteSet(S), SumChanges
  <2> QED
    BY <1>1, <2>3, <2>4
<1> QED
  BY <1>2, <1>3

\* A request that is let through is left by a window of then or counted in a later one.
LEMMA ChargedBudget ==
  ASSUME NEW table \in [Client -> RequestState],
         NEW adm \in [Client -> [Ticks -> Nat]], NEW t \in Ticks,
         Budget(table, adm, t), clock \in Ticks, t <= clock, NEW c \in Client,
         table[c] = NoRequestState \/ (Open(table[c]) /\ table[c].count < MaxRequests),
         NEW charged \in [Client -> RequestState], charged[c] = ChargeRequest(table[c]),
         \A d \in Client \ {c} : charged[d] = table[d],
         NEW new \in [Client -> [Ticks -> Nat]], new[c] = OneMoreAt(adm[c], clock),
         \A d \in Client \ {c} : new[d] = adm[d]
  PROVE  Budget(charged, new, t)
<1> DEFINE f == Spent(table, adm, t)
           g == Spent(charged, new, t)
           h == Later(table, t)
           k == Later(charged, t)
           b == table[c]
<1>1. /\ b \in RequestState /\ b.count \in Nat /\ b.count <= MaxRequests /\ b.resetAt \in Nat
      /\ NoRequestState.count = 0 /\ clock \in Nat /\ clock <= LastTick /\ t \in Nat /\ LookupWindow \in Nat \ {0} /\ MaxRequests \in Nat \ {0}
  BY LookupBucket, TicksAreNat, LookupConstants
<1>2. Passed(new[c], t) = Passed(adm[c], t) + 1 /\ Passed(adm[c], t) \in Nat
  <2>1. adm[c] \in [Ticks -> Nat] /\ LastTick \in Ticks
    BY TicksAreNat
  <2>2. Passed(OneMoreAt(adm[c], clock), t) = Passed(adm[c], t) + 1
    BY ONLY <2>1, PassedOneMore, clock \in Ticks, t \in Ticks, t <= clock
  <2>3. Passed(adm[c], t) \in Nat
    BY <2>1, TickSums
  <2> QED
    BY <2>2, <2>3
<1>3. \/ LeftOf(charged[c], t) + 1 = LeftOf(b, t) /\ LaterIn(charged[c], t) = LaterIn(b, t)
      \/ LeftOf(charged[c], t) = LeftOf(b, t) /\ LaterIn(charged[c], t) = LaterIn(b, t) + 1
  <2>1. CASE b = NoRequestState
    <3>1. charged[c] = [count |-> 1, resetAt |-> clock + LookupWindow]
      BY <1>1, <2>1 DEF ChargeRequest, Open
    <3>2. LeftOf(b, t) = 0 /\ LaterIn(b, t) = 0
      BY <1>1, <2>1 DEF LeftOf, LaterIn
    <3>3. charged[c].count = 1 /\ charged[c].resetAt >= t + LookupWindow /\ ~(charged[c].resetAt < t + LookupWindow)
      BY <1>1, <3>1
    <3> QED
      BY <3>2, <3>3 DEF LeftOf, LaterIn
  <2>2. CASE Open(b) /\ b.count < MaxRequests
    <3>1. charged[c] = [b EXCEPT !.count = @ + 1] /\ b.count > 0
      BY <2>2 DEF ChargeRequest, Open
    <3>2. charged[c].count = b.count + 1 /\ charged[c].resetAt = b.resetAt
      BY <1>1, <3>1 DEF RequestState
    <3>3. CASE b.resetAt < t + LookupWindow
      <4>1. LeftOf(b, t) = MaxRequests - b.count /\ LeftOf(charged[c], t) = MaxRequests - (b.count + 1)
        BY <1>1, <3>1, <3>2, <3>3 DEF LeftOf
      <4>2. LaterIn(b, t) = 0 /\ LaterIn(charged[c], t) = 0
        BY <1>1, <3>2, <3>3 DEF LaterIn
      <4> QED
        BY <1>1, <4>1, <4>2
    <3>4. CASE b.resetAt >= t + LookupWindow
      <4>1. LeftOf(b, t) = 0 /\ LeftOf(charged[c], t) = 0
        BY <1>1, <3>2, <3>4 DEF LeftOf
      <4>2. LaterIn(b, t) = b.count /\ LaterIn(charged[c], t) = b.count + 1
        BY <1>1, <3>1, <3>2, <3>4 DEF LaterIn
      <4> QED
        BY <4>1, <4>2
    <3> QED
      BY <1>1, <3>3, <3>4
  <2> QED
    BY <2>1, <2>2
<1>4. \A d \in Client \ {c} : g[d] = f[d] /\ k[d] = h[d]
  BY DEF Spent, Later
<1>5. /\ f[c] = Passed(adm[c], t) + LeftOf(b, t) /\ h[c] = LaterIn(b, t)
      /\ LeftOf(b, t) \in Nat /\ LaterIn(b, t) \in Nat
      /\ \A d \in Client : f[d] \in Nat /\ h[d] \in Nat
      /\ IsFiniteSet(Client) /\ LookupBuckets * (MaxRequests - 1) \in Nat
  <2>1. /\ \A d \in Client : /\ f[d] = Passed(adm[d], t) + LeftOf(table[d], t) /\ h[d] = LaterIn(table[d], t)
                             /\ LeftOf(table[d], t) \in Nat /\ LaterIn(table[d], t) \in Nat
                             /\ f[d] \in Nat /\ h[d] \in Nat
        /\ IsFiniteSet(Client) /\ LookupBuckets * (MaxRequests - 1) \in Nat
    BY ONLY SpentTypes, t \in Ticks, table \in [Client -> RequestState],
            adm \in [Client -> [Ticks -> Nat]]
  <2> HIDE DEF f, h
  <2> QED
    BY <2>1
<1>6. /\ g[c] = Passed(new[c], t) + LeftOf(charged[c], t) /\ k[c] = LaterIn(charged[c], t)
      /\ LeftOf(charged[c], t) \in Nat /\ LaterIn(charged[c], t) \in Nat
      /\ \A d \in Client : g[d] \in Nat /\ k[d] \in Nat
  <2>1. \A d \in Client : /\ g[d] = Passed(new[d], t) + LeftOf(charged[d], t) /\ k[d] = LaterIn(charged[d], t)
                          /\ LeftOf(charged[d], t) \in Nat /\ LaterIn(charged[d], t) \in Nat
                          /\ g[d] \in Nat /\ k[d] \in Nat
    BY ONLY SpentTypes, t \in Ticks, charged \in [Client -> RequestState],
            new \in [Client -> [Ticks -> Nat]]
  <2> HIDE DEF g, k
  <2> QED
    BY <2>1
<1>7. Sum(f, Client) <= LookupBuckets * (MaxRequests - 1) + Sum(h, Client)
  BY DEF Budget
<1>8. (g[c] = f[c] /\ k[c] = h[c]) \/ (g[c] = f[c] + 1 /\ k[c] = h[c] + 1)
  <2> HIDE DEF f, g, h, k, b
  <2>1. /\ f[c] = Passed(adm[c], t) + LeftOf(b, t) /\ h[c] = LaterIn(b, t)
        /\ LeftOf(b, t) \in Nat /\ LaterIn(b, t) \in Nat
    BY <1>5
  <2>2. /\ g[c] = (Passed(adm[c], t) + 1) + LeftOf(charged[c], t) /\ k[c] = LaterIn(charged[c], t)
        /\ LeftOf(charged[c], t) \in Nat /\ LaterIn(charged[c], t) \in Nat /\ Passed(adm[c], t) \in Nat
    BY <1>2, <1>6
  <2> QED
    BY ONLY <1>3, <2>1, <2>2
<1> HIDE DEF f, g, h, k, b
<1>9. \A d \in Client : f[d] \in Nat /\ g[d] \in Nat /\ h[d] \in Nat /\ k[d] \in Nat
  BY <1>5, <1>6
<1> DEFINE m == LookupBuckets * (MaxRequests - 1)
<1>10. m \in Nat /\ Sum(f, Client) <= m + Sum(h, Client) /\ IsFiniteSet(Client)
  BY <1>5, <1>7
<1> HIDE DEF m
<1>11. m \in Nat
  BY <1>10
<1>12. Sum(f, Client) <= m + Sum(h, Client)
  BY <1>10
<1>13. IsFiniteSet(Client)
  BY <1>10
<1>14. Sum(g, Client) <= m + Sum(k, Client)
  BY ONLY <1>4, <1>8, <1>9, <1>11, <1>12, <1>13, c \in Client, BudgetMoves
<1> QED
  BY <1>14 DEF Budget, g, k, m

\* At tick t all that counts is what the windows of then leave.
LEMMA FreshBudget ==
  ASSUME NEW table \in [Client -> RequestState],
         NEW adm \in [Client -> [Ticks -> Nat]], NEW t \in Ticks,
         \A c \in Client : Passed(adm[c], t) = 0,
         \A c \in Client : table[c].count > 0 => table[c].resetAt < t + LookupWindow,
         Cardinality(HavingBucket(table)) <= LookupBuckets
  PROVE  Budget(table, adm, t)
<1> DEFINE f == Spent(table, adm, t)
           H == HavingBucket(table)
           h == Later(table, t)
<1>1. /\ IsFiniteSet(Client) /\ MaxRequests \in Nat \ {0} /\ LookupBuckets \in Nat
      /\ LookupBuckets * (MaxRequests - 1) \in Nat /\ Sum(h, Client) \in Nat /\ Sum(f, Client) \in Nat
  BY SpentTypes
<1>2. \A c \in Client : f[c] \in Nat /\ f[c] <= MaxRequests - 1 /\ (c \notin H => f[c] = 0)
  <2> SUFFICES ASSUME NEW c \in Client
               PROVE  f[c] \in Nat /\ f[c] <= MaxRequests - 1 /\ (c \notin H => f[c] = 0)
    OBVIOUS
  <2>1. f[c] = LeftOf(table[c], t)
    <3>1. f[c] = Passed(adm[c], t) + LeftOf(table[c], t) /\ LeftOf(table[c], t) \in Nat
      BY SpentTypes
    <3> QED
      BY <3>1
  <2>2. table[c].count \in Nat /\ table[c].count <= MaxRequests
    BY LookupBucket
  <2>3. c \in H <=> table[c].count > 0
    BY DEF HavingBucket
  <2> HIDE DEF f, H
  <2>4. CASE c \in H
    <3>1. f[c] = MaxRequests - table[c].count /\ table[c].count > 0
      BY <2>1, <2>3, <2>4 DEF LeftOf
    <3> QED
      BY <1>1, <2>2, <2>4, <3>1
  <2>5. CASE c \notin H
    <3>1. f[c] = 0
      BY <2>1, <2>3, <2>5 DEF LeftOf
    <3> QED
      BY <1>1, <3>1
  <2> QED
    BY <2>4, <2>5
<1>3. H \subseteq Client /\ Client \cap H = H
  BY DEF HavingBucket
<1>4. IsFiniteSet(H) /\ Cardinality(H) \in Nat /\ Cardinality(H) <= LookupBuckets
  BY <1>1, <1>3, FS_Subset, FS_CardinalityType
<1> HIDE DEF f, H, h
<1>5. MaxRequests - 1 \in Nat
  BY <1>1
<1>6. Sum(f, Client) <= Cardinality(Client \cap H) * (MaxRequests - 1)
  BY ONLY <1>1, <1>2, <1>5, SumFits
<1>7. /\ Cardinality(H) * (MaxRequests - 1) <= LookupBuckets * (MaxRequests - 1)
      /\ Cardinality(H) * (MaxRequests - 1) \in Nat
  BY ONLY <1>1, <1>4, <1>5, Products
<1>8. Sum(f, Client) <= LookupBuckets * (MaxRequests - 1) + Sum(h, Client)
  <2> DEFINE p == Cardinality(H) * (MaxRequests - 1)
             m == LookupBuckets * (MaxRequests - 1)
  <2>1. Sum(f, Client) <= p /\ p <= m /\ p \in Nat /\ m \in Nat
    BY <1>1, <1>3, <1>6, <1>7
  <2> HIDE DEF p, m
  <2>2. Sum(f, Client) <= m + Sum(h, Client)
    BY <1>1, <2>1
  <2> QED
    BY <2>2 DEF m
<1> QED
  BY <1>8 DEF Budget, f, h
-----------------------------------------------------------------------------
(************************* The throttle step by step *************************)

Recounted == \A c \in Client : Counted(buckets[c], admitted[c], clock)
Budgeted == \A t \in Ticks : t <= clock /\ clock < t + LookupWindow => Budget(buckets, admitted, t)

ThrottleInv == ThrottleFits /\ Recounted /\ Budgeted

LEMMA PrunedFits ==
  ASSUME ThrottleInv
  PROVE  /\ PruneRequests \in [Client -> RequestState]
         /\ \A c \in Client : /\ \/ PruneRequests[c] = NoRequestState /\ ~Open(PruneRequests[c])
                                 \/ Open(PruneRequests[c])
                              /\ Open(PruneRequests[c]) <=> PruneRequests[c].count > 0
                              /\ Counted(PruneRequests[c], admitted[c], clock)
         /\ Cardinality(HavingBucket(PruneRequests)) <= LookupBuckets
         /\ IsFiniteSet(HavingBucket(PruneRequests)) /\ Cardinality(HavingBucket(PruneRequests)) \in Nat
         /\ \A t \in Ticks : t <= clock /\ clock < t + LookupWindow => Budget(PruneRequests, admitted, t)
<1>1. /\ clock \in Ticks /\ buckets \in [Client -> RequestState]
      /\ admitted \in [Client -> [Ticks -> Nat]] /\ Cardinality(HavingBucket(buckets)) <= LookupBuckets
  BY DEF ThrottleInv, ThrottleFits
<1>2. NoRequestState \in RequestState /\ NoRequestState.count = 0 /\ ~Open(NoRequestState)
  <2>1. NoRequestState \in RequestState /\ NoRequestState.count = 0
    BY LookupBucket
  <2> QED
    BY <2>1 DEF Open
<1> DEFINE P == PruneRequests
<1>3. /\ P \in [Client -> RequestState]
      /\ \A c \in Client : \/ P[c] = buckets[c] /\ Open(buckets[c])
                           \/ P[c] = NoRequestState /\ ~Open(buckets[c])
  BY <1>1, <1>2 DEF PruneRequests
<1> HIDE DEF P
<1>4. \A c \in Client : /\ (P[c] = NoRequestState /\ ~Open(P[c])) \/ Open(P[c])
                        /\ Open(P[c]) <=> P[c].count > 0
                        /\ Open(P[c]) => P[c] = buckets[c] /\ buckets[c].count > 0
  <2> SUFFICES ASSUME NEW c \in Client
               PROVE  /\ (P[c] = NoRequestState /\ ~Open(P[c])) \/ Open(P[c])
                      /\ Open(P[c]) <=> P[c].count > 0
                      /\ Open(P[c]) => P[c] = buckets[c] /\ buckets[c].count > 0
    OBVIOUS
  <2>1. CASE P[c] = buckets[c] /\ Open(buckets[c])
    <3>1. buckets[c].count > 0
      BY <2>1 DEF Open
    <3> QED
      BY <2>1, <3>1
  <2>2. CASE P[c] = NoRequestState /\ ~Open(buckets[c])
    BY <1>2, <2>2
  <2> QED
    BY <1>3, <2>1, <2>2
<1>5. \A c \in Client : Counted(P[c], admitted[c], clock)
  <2> SUFFICES ASSUME NEW c \in Client PROVE Counted(P[c], admitted[c], clock)
    OBVIOUS
  <2>1. buckets[c] \in RequestState /\ admitted[c] \in [Ticks -> Nat] /\ Counted(buckets[c], admitted[c], clock)
    BY <1>1 DEF ThrottleInv, Recounted
  <2>2. ~Open(buckets[c]) => Counted(NoRequestState, admitted[c], clock)
    BY ONLY <1>1, <2>1, PrunedCounted
  <2> QED
    BY <1>3, <2>1, <2>2
<1>6. HavingBucket(P) \subseteq HavingBucket(buckets) /\ HavingBucket(buckets) \subseteq Client
  BY <1>4 DEF HavingBucket
<1>7. /\ IsFiniteSet(HavingBucket(P)) /\ Cardinality(HavingBucket(P)) \in Nat
      /\ Cardinality(HavingBucket(P)) <= LookupBuckets
  <2>1. IsFiniteSet(HavingBucket(buckets)) /\ LookupBuckets \in Nat
    BY <1>6, LookupConstants, FS_Subset
  <2>2. /\ IsFiniteSet(HavingBucket(P)) /\ Cardinality(HavingBucket(P)) <= Cardinality(HavingBucket(buckets))
        /\ Cardinality(HavingBucket(P)) \in Nat /\ Cardinality(HavingBucket(buckets)) \in Nat
    BY <1>6, <2>1, FS_Subset, FS_CardinalityType
  <2> QED
    BY <1>1, <2>1, <2>2
<1>8. ASSUME NEW t \in Ticks, t <= clock, clock < t + LookupWindow PROVE Budget(P, admitted, t)
  <2>1. Budget(buckets, admitted, t)
    BY <1>8 DEF ThrottleInv, Budgeted
  <2>2. \A c \in Client : P[c] = buckets[c] \/ (P[c] = NoRequestState /\ ~Open(buckets[c]))
    BY <1>3
  <2> QED
    BY ONLY <1>1, <1>3, <1>8, <2>1, <2>2, t \in Ticks, PrunedBudget
<1> QED
  BY <1>3, <1>4, <1>5, <1>7, <1>8 DEF P

LEMMA RefuseKeepsThrottle ==
  ASSUME ThrottleInv, buckets' = PruneRequests, admitted' = admitted, clock' = clock
  PROVE  ThrottleInv'
<1>1. ThrottleFits'
  BY PrunedFits DEF ThrottleInv, ThrottleFits, HavingBucket
<1>2. Recounted'
  BY PrunedFits DEF Recounted, Counted
<1>3. Budgeted'
  BY PrunedFits DEF Budgeted
<1> QED
  BY <1>1, <1>2, <1>3 DEF ThrottleInv

LEMMA AdmitKeepsThrottle ==
  ASSUME ThrottleInv, NEW c \in Client, Admit(c)
  PROVE  ThrottleInv'
<1> DEFINE P == PruneRequests
           b == P[c]
           fs == OneMoreAt(admitted[c], clock)
<1>1. /\ clock \in Ticks /\ admitted \in [Client -> [Ticks -> Nat]]
      /\ \A d \in Client, t \in Ticks : t > clock => admitted[d][t] = 0
  BY DEF ThrottleInv, ThrottleFits
<1>2. /\ P \in [Client -> RequestState]
      /\ \A d \in Client : Counted(P[d], admitted[d], clock) /\ (Open(P[d]) <=> P[d].count > 0)
      /\ (b = NoRequestState /\ ~Open(b)) \/ Open(b)
      /\ Cardinality(HavingBucket(P)) <= LookupBuckets
      /\ IsFiniteSet(HavingBucket(P)) /\ Cardinality(HavingBucket(P)) \in Nat
      /\ \A t \in Ticks : t <= clock /\ clock < t + LookupWindow => Budget(P, admitted, t)
  BY PrunedFits
<1>3. /\ MayPass(P, c) /\ clock' = clock
      /\ buckets' = [P EXCEPT ![c] = ChargeRequest(b)]
      /\ admitted' = [admitted EXCEPT ![c] = fs]
  BY <1>1 DEF Admit, OneMoreAt
<1> HIDE DEF P
<1>4. /\ Open(b) => b.count < MaxRequests
      /\ ~Open(b) => Cardinality(HavingBucket(P)) < LookupBuckets
  <2>1. HavingBucket(P) = {d \in Client : Open(P[d])}
    BY <1>2 DEF HavingBucket
  <2> QED
    BY <1>3, <2>1 DEF MayPass
<1>5. /\ b \in RequestState /\ admitted[c] \in [Ticks -> Nat] /\ Counted(b, admitted[c], clock)
      /\ \A t \in Ticks : t > clock => admitted[c][t] = 0
      /\ b = NoRequestState \/ (Open(b) /\ b.count < MaxRequests)
  BY <1>1, <1>2, <1>4
<1> HIDE DEF b
<1>6. Counted(ChargeRequest(b), fs, clock) /\ ChargeRequest(b) \in RequestState /\ ChargeRequest(b).count > 0
  BY ONLY <1>1, <1>5, ChargedCounted
<1>7. /\ fs \in [Ticks -> Nat] /\ fs[clock] = admitted[c][clock] + 1
      /\ \A t \in Ticks : t # clock => fs[t] = admitted[c][t]
  <2>1. admitted[c][clock] + 1 \in Nat
    BY <1>1, <1>5
  <2> QED
    BY <1>1, <1>5, <2>1 DEF OneMoreAt
<1> HIDE DEF fs
<1>8. /\ buckets' \in [Client -> RequestState] /\ buckets'[c] = ChargeRequest(b)
      /\ \A d \in Client \ {c} : buckets'[d] = P[d]
  BY <1>2, <1>3, <1>6
<1>9. /\ admitted' \in [Client -> [Ticks -> Nat]] /\ admitted'[c] = fs
      /\ \A d \in Client \ {c} : admitted'[d] = admitted[d]
  BY <1>1, <1>3, <1>7
<1>10. HavingBucket(buckets') = HavingBucket(P) \cup {c}
  <2>1. \A d \in Client : buckets'[d].count > 0 <=> d = c \/ P[d].count > 0
    BY <1>6, <1>8
  <2> QED
    BY <2>1 DEF HavingBucket
<1>11. Cardinality(HavingBucket(buckets')) <= LookupBuckets
  <2>1. CASE c \in HavingBucket(P)
    <3>1. HavingBucket(buckets') = HavingBucket(P)
      BY <1>10, <2>1
    <3> QED
      BY <1>2, <3>1
  <2>2. CASE c \notin HavingBucket(P)
    <3>1. ~Open(b)
      BY <1>2, <2>2 DEF HavingBucket, b
    <3>2. Cardinality(HavingBucket(P) \cup {c}) = Cardinality(HavingBucket(P)) + 1
      BY <1>2, <2>2, FS_AddElement
    <3>3. LookupBuckets \in Nat
      BY LookupConstants
    <3> QED
      BY <1>2, <1>4, <1>10, <3>1, <3>2, <3>3
  <2> QED
    BY <2>1, <2>2
<1>12. \A d \in Client, t \in Ticks : t > clock => admitted'[d][t] = 0
  <2> SUFFICES ASSUME NEW d \in Client, NEW t \in Ticks, t > clock PROVE admitted'[d][t] = 0
    OBVIOUS
  <2>1. t # clock /\ admitted[d][t] = 0
    BY <1>1, TicksAreNat
  <2> QED
    BY <1>7, <1>9, <2>1
<1>13. ThrottleFits'
  BY <1>1, <1>3, <1>8, <1>9, <1>11, <1>12 DEF ThrottleFits, HavingBucket
<1>14. \A d \in Client : Counted(buckets'[d], admitted'[d], clock)
  BY <1>2, <1>6, <1>8, <1>9
<1>15. ASSUME NEW t \in Ticks, t <= clock, clock < t + LookupWindow
       PROVE  Budget(buckets', admitted', t)
  <2>1. Budget(P, admitted, t)
    BY <1>2, <1>15
  <2>2. P[c] = NoRequestState \/ (Open(P[c]) /\ P[c].count < MaxRequests)
    BY <1>5 DEF b
  <2>3. buckets'[c] = ChargeRequest(P[c]) /\ admitted'[c] = OneMoreAt(admitted[c], clock)
    BY <1>8, <1>9 DEF b, fs
  <2>4. /\ P \in [Client -> RequestState] /\ admitted \in [Client -> [Ticks -> Nat]]
        /\ clock \in Ticks /\ t <= clock
        /\ buckets' \in [Client -> RequestState] /\ admitted' \in [Client -> [Ticks -> Nat]]
        /\ \A d \in Client \ {c} : buckets'[d] = P[d]
        /\ \A d \in Client \ {c} : admitted'[d] = admitted[d]
    BY <1>1, <1>2, <1>8, <1>9, <1>15
  <2> QED
    BY ONLY <2>1, <2>2, <2>3, <2>4, c \in Client, t \in Ticks, ChargedBudget
<1>16. Recounted'
  BY <1>3, <1>14 DEF Recounted, Counted
<1>17. Budgeted'
  BY <1>3, <1>15 DEF Budgeted
<1> QED
  BY <1>13, <1>16, <1>17 DEF ThrottleInv

LEMMA TickKeepsThrottle ==
  ASSUME ThrottleInv, ClockTick
  PROVE  ThrottleInv'
<1> DEFINE n == clock + 1
<1>1. /\ clock \in Ticks /\ admitted \in [Client -> [Ticks -> Nat]] /\ buckets \in [Client -> RequestState]
      /\ \A d \in Client, t \in Ticks : t > clock => admitted[d][t] = 0
      /\ Cardinality(HavingBucket(buckets)) <= LookupBuckets
  BY DEF ThrottleInv, ThrottleFits
<1>2. clock < LastTick /\ clock' = n /\ buckets' = buckets /\ admitted' = admitted
  BY DEF ClockTick, throttle
<1>3. n \in Ticks /\ n > clock /\ n \in Nat /\ clock \in Nat /\ LookupWindow \in Nat
  BY <1>1, <1>2, TicksAreNat, LookupConstants
<1>4. \A c \in Client : Counted(buckets[c], admitted[c], n)
  <2> SUFFICES ASSUME NEW c \in Client PROVE Counted(buckets[c], admitted[c], n)
    OBVIOUS
  <2>1. buckets[c] \in RequestState /\ Counted(buckets[c], admitted[c], clock)
    BY <1>1 DEF ThrottleInv, Recounted
  <2> QED
    BY ONLY <1>1, <2>1, LaterCounted
<1>5. Budget(buckets, admitted, n)
  <2>1. \A c \in Client : Passed(admitted[c], n) = 0
    <3> SUFFICES ASSUME NEW c \in Client PROVE Passed(admitted[c], n) = 0
      OBVIOUS
    <3>1. admitted[c] \in [Ticks -> Nat] /\ LastTick \in Ticks /\ \A t \in Ticks : t > clock => admitted[c][t] = 0
      BY <1>1, TicksAreNat
    <3>2. \A e \in Ticks : Sum(admitted[c], n .. e) = 0
      BY ONLY <1>1, <1>3, <3>1, NonePassed
    <3> QED
      BY <3>1, <3>2 DEF Passed
  <2>2. \A c \in Client : buckets[c].count > 0 => buckets[c].resetAt < n + LookupWindow
    <3> SUFFICES ASSUME NEW c \in Client, buckets[c].count > 0 PROVE buckets[c].resetAt < n + LookupWindow
      OBVIOUS
    <3>1. buckets[c].resetAt <= clock + LookupWindow /\ buckets[c].resetAt \in Nat
      BY <1>1, LookupBucket DEF ThrottleInv, Recounted, Counted
    <3> QED
      BY <1>3, <3>1
  <2> HIDE DEF n
  <2> QED
    BY ONLY <1>1, <1>3, <2>1, <2>2, FreshBudget
<1>6. ASSUME NEW t \in Ticks, t <= n, n < t + LookupWindow PROVE Budget(buckets, admitted, t)
  <2>1. CASE t = n
    BY <1>5, <2>1
  <2>2. CASE t # n
    <3>1. t <= clock /\ clock < t + LookupWindow
      BY <1>3, <1>6, <2>2, TicksAreNat
    <3> QED
      BY <3>1 DEF ThrottleInv, Budgeted
  <2> QED
    BY <2>1, <2>2
<1> HIDE DEF n
<1>7. ThrottleFits'
  <2>1. \A d \in Client, t \in Ticks : t > n => admitted[d][t] = 0
    <3>1. \A t \in Ticks : t > n => t > clock
      BY <1>3, TicksAreNat
    <3> QED
      BY <1>1, <3>1
  <2> QED
    BY <1>1, <1>2, <1>3, <2>1 DEF ThrottleFits, HavingBucket
<1>8. Recounted'
  BY <1>2, <1>4 DEF Recounted, Counted
<1>9. Budgeted'
  BY <1>2, <1>6 DEF Budgeted
<1> QED
  BY <1>7, <1>8, <1>9 DEF ThrottleInv

LEMMA ThrottleStays ==
  ASSUME ThrottleInv, UNCHANGED <<clock, buckets, admitted>>
  PROVE  ThrottleInv'
BY DEF ThrottleInv, ThrottleFits, HavingBucket, Recounted, Counted, Budgeted

LEMMA NextKeepsThrottle ==
  ThrottleInv /\ [LookupNext]_lookupVars => ThrottleInv'
<1> SUFFICES ASSUME ThrottleInv, [LookupNext]_lookupVars PROVE ThrottleInv'
  OBVIOUS
<1>1. ASSUME NEW c \in Client, Refuse(c) PROVE ThrottleInv'
  BY <1>1, RefuseKeepsThrottle DEF Refuse
<1>2. ASSUME FindElsewhere PROVE ThrottleInv'
  BY <1>2, ThrottleStays DEF FindElsewhere, throttle
<1>3. ASSUME NEW s \in Slug, Share(s) \/ Create(s) PROVE ThrottleInv'
  BY <1>3, ThrottleStays DEF Share, Create, throttle
<1>4. ASSUME NEW l \in Lookups, Settle(l) \/ Drop(l) PROVE ThrottleInv'
  BY <1>4, ThrottleStays DEF Settle, Drop, throttle
<1>5. CASE UNCHANGED lookupVars
  BY <1>5, ThrottleStays DEF lookupVars
<1> QED
  BY <1>1, <1>2, <1>3, <1>4, <1>5, AdmitKeepsThrottle, TickKeepsThrottle DEF LookupNext

LEMMA ThrottleFirst == LookupInit => ThrottleInv
<1> SUFFICES ASSUME LookupInit PROVE ThrottleInv
  OBVIOUS
<1>1. /\ clock = 0 /\ buckets = [c \in Client |-> NoRequestState]
      /\ admitted = [c \in Client |-> [t \in Ticks |-> 0]]
  BY DEF LookupInit
<1>2. NoRequestState \in RequestState /\ NoRequestState.count = 0 /\ 0 \in Ticks /\ LastTick \in Ticks
  BY LookupBucket, TicksAreNat
<1>3. LookupBuckets \in Nat /\ MaxRequests \in Nat \ {0} /\ LookupWindow \in Nat \ {0}
  BY LookupConstants
<1>4. HavingBucket(buckets) = {}
  BY <1>1, <1>2 DEF HavingBucket
<1>5. Cardinality(HavingBucket(buckets)) <= LookupBuckets
  BY <1>3, <1>4, FS_EmptySet
<1>6. ThrottleFits
  <2>1. admitted \in [Client -> [Ticks -> Nat]] /\ \A c \in Client, t \in Ticks : admitted[c][t] = 0
    BY <1>1
  <2> QED
    BY <1>1, <1>2, <1>5, <2>1 DEF ThrottleFits
<1>7. \A c \in Client, t \in Ticks : Passed(admitted[c], t) = 0
  <2> SUFFICES ASSUME NEW c \in Client, NEW t \in Ticks PROVE Passed(admitted[c], t) = 0
    OBVIOUS
  <2>1. admitted[c] \in [Ticks -> Nat] /\ \A u \in Ticks : admitted[c][u] = 0
    BY <1>1
  <2>2. IsFiniteSet(t .. LastTick) /\ \A u \in t .. LastTick : u \in Ticks
    BY ONLY <1>2, <2>1, t \in Ticks, TickSums
  <2> QED
    BY <2>1, <2>2, SumZero DEF Passed
<1>8. Recounted
  <2>1. 0 + 1 <= MaxRequests
    BY <1>3
  <2>2. \A c \in Client : buckets[c].count = 0
    BY <1>1, <1>2
  <2> QED
    BY <1>7, <2>1, <2>2 DEF Recounted, Counted
<1>9. Budgeted
  <2> SUFFICES ASSUME NEW t \in Ticks, t <= clock PROVE Budget(buckets, admitted, t)
    BY DEF Budgeted
  <2>4. buckets \in [Client -> RequestState] /\ admitted \in [Client -> [Ticks -> Nat]]
    BY <1>6 DEF ThrottleFits
  <2>3. \A c \in Client : buckets[c].count > 0 => buckets[c].resetAt < t + LookupWindow
    <3>1. \A c \in Client : ~(buckets[c].count > 0)
      BY <1>1, <1>2
    <3> QED
      BY <3>1
  <2>1. /\ buckets \in [Client -> RequestState] /\ admitted \in [Client -> [Ticks -> Nat]]
        /\ \A c \in Client : Passed(admitted[c], t) = 0
        /\ \A c \in Client : buckets[c].count > 0 => buckets[c].resetAt < t + LookupWindow
    BY <1>7, <2>4, <2>3
  <2> QED
    BY ONLY <1>5, <2>1, t \in Ticks, FreshBudget
<1> QED
  BY <1>6, <1>8, <1>9 DEF ThrottleInv

LEMMA ThrottleHolds == LookupSpec => []ThrottleInv
BY ThrottleFirst, NextKeepsThrottle, PTL DEF LookupSpec
-----------------------------------------------------------------------------
(*************************** A stretch of windowMs **************************)

LastOf(t) == IF t + LookupWindow - 1 < LastTick THEN t + LookupWindow - 1 ELSE LastTick

\* Requests of each client that were let through from tick t on, for a window.
Through(adm, t) == [c \in Client |-> Sum(adm[c], t .. LastOf(t))]

Limited(adm, t) ==
  /\ \A c \in Client : Through(adm, t)[c] <= 2 * MaxRequests - 1
  /\ Sum(Through(adm, t), Client) <= LookupBuckets * (2 * MaxRequests - 1)

LEMMA LastOfIs ==
  ASSUME NEW t \in Ticks
  PROVE  /\ LastOf(t) \in Ticks /\ LastOf(t) < t + LookupWindow
         /\ Min({t + LookupWindow - 1, LastTick}) = LastOf(t)
<1>1. /\ t \in Nat /\ t <= LastTick /\ LastTick \in Nat /\ LookupWindow \in Nat \ {0}
  BY TicksAreNat, LookupConstants
<1> DEFINE e == t + LookupWindow - 1
<1>2. e \in Nat /\ e < t + LookupWindow
  BY <1>1
<1> HIDE DEF e
<1>3. Min({e, LastTick}) = IF e < LastTick THEN e ELSE LastTick
  <2>1. \A y \in {e, LastTick} : e < LastTick => e <= y
    BY <1>1, <1>2
  <2>2. \A y \in {e, LastTick} : ~(e < LastTick) => LastTick <= y
    BY <1>1, <1>2
  <2>3. CASE e < LastTick
    <3>1. \A x \in {e, LastTick} : (\A y \in {e, LastTick} : x <= y) => x = e
      BY <1>1, <1>2, <2>3
    <3> QED
      BY <2>1, <2>3, <3>1 DEF Min
  <2>4. CASE ~(e < LastTick)
    <3>1. \A x \in {e, LastTick} : (\A y \in {e, LastTick} : x <= y) => x = LastTick
      BY <1>1, <1>2, <2>4
    <3> QED
      BY <2>2, <2>4, <3>1 DEF Min
  <2> QED
    BY <2>3, <2>4
<1>4. LastOf(t) = IF e < LastTick THEN e ELSE LastTick
  BY DEF LastOf, e
<1>5. LastOf(t) \in Nat /\ LastOf(t) <= LastTick /\ LastOf(t) < t + LookupWindow
  BY <1>1, <1>2, <1>4
<1> QED
  BY <1>3, <1>4, <1>5, TicksAreNat DEF e

LEMMA VolumeIs ==
  ASSUME NEW c \in Client, NEW t \in Ticks
  PROVE  Volume(c, t) = Through(admitted, t)[c]
<1>1. Min({t + LookupWindow - 1, LastTick}) = LastOf(t)
  BY LastOfIs
<1>2. MapThenSumSet(LAMBDA u : admitted[c][u], t .. LastOf(t)) = Sum(admitted[c], t .. LastOf(t))
  BY SumIs
<1>3. Volume(c, t) = Sum(admitted[c], t .. LastOf(t))
  BY <1>1, <1>2 DEF Volume
<1> QED
  BY <1>3 DEF Through

VolumeSums(g, t) ==
  g = [s \in SUBSET Client |-> IF s = {} THEN 0 ELSE Volume(Some(s), t) + g[s \ {Some(s)}]]

LEMMA VolumesAre ==
  ASSUME NEW t \in Ticks
  PROVE  MapThenSumSet(LAMBDA c : Volume(c, t), Client) = Sum(Through(admitted, t), Client)
<1> DEFINE f == Through(admitted, t)
<1>1. \A g : VolumeSums(g, t) <=> IsSums(g, f, SUBSET Client)
  <2> SUFFICES ASSUME NEW g PROVE VolumeSums(g, t) <=> IsSums(g, f, SUBSET Client)
    OBVIOUS
  <2>1. \A s \in SUBSET Client : s # {} => Volume(Some(s), t) = f[Some(s)]
    BY SomeIs, VolumeIs
  <2> HIDE DEF f
  <2> DEFINE left == [s \in SUBSET Client |-> IF s = {} THEN 0 ELSE Volume(Some(s), t) + g[s \ {Some(s)}]]
             right == [s \in SUBSET Client |-> IF s = {} THEN 0 ELSE f[Some(s)] + g[s \ {Some(s)}]]
  <2>2. left = right
    BY <2>1
  <2> QED
    BY <2>2 DEF VolumeSums, IsSums
<1> HIDE DEF f
<1>2. IsFiniteSet(Client)
  BY LookupConstants
<1>3. \E g : VolumeSums(g, t)
  BY <1>1, <1>2, SumsExist
<1>4. VolumeSums(CHOOSE g : VolumeSums(g, t), t)
  BY <1>3
<1>5. (CHOOSE g : VolumeSums(g, t))[Client] = Sum(f, Client)
  <2> DEFINE g == CHOOSE g : VolumeSums(g, t)
  <2>1. IsSums(g, f, SUBSET Client)
    BY <1>1, <1>4
  <2> HIDE DEF g
  <2>2. g[Client] = Sum(f, Client)
    BY ONLY <1>2, <2>1, SumsUnique
  <2> QED
    BY <2>2 DEF g
<1>6. MapThenSumSet(LAMBDA c : Volume(c, t), Client) = (CHOOSE g : VolumeSums(g, t))[Client]
  BY DEF MapThenSumSet, MapThenFoldSet, VolumeSums, Some
<1> QED
  BY <1>5, <1>6 DEF f

LEMMA LimitedIs ==
  VolumeIsLimited <=> \A t \in Ticks : Limited(admitted, t)
<1>1. ASSUME NEW t \in Ticks
      PROVE  /\ MapThenSumSet(LAMBDA c : Volume(c, t), Client) = Sum(Through(admitted, t), Client)
             /\ \A c \in Client : Volume(c, t) = Through(admitted, t)[c]
  BY VolumesAre, VolumeIs
<1> QED
  BY <1>1 DEF VolumeIsLimited, Limited

\* The limit of a stretch that is not over follows from the buckets.
LEMMA RecentLimited ==
  ASSUME ThrottleInv, NEW t \in Ticks, clock < t + LookupWindow
  PROVE  Limited(admitted, t)
<1>1. /\ clock \in Ticks /\ admitted \in [Client -> [Ticks -> Nat]] /\ buckets \in [Client -> RequestState]
      /\ \A c \in Client, u \in Ticks : u > clock => admitted[c][u] = 0
      /\ Cardinality(HavingBucket(buckets)) <= LookupBuckets
  BY DEF ThrottleInv, ThrottleFits
<1>2. /\ clock \in Nat /\ t \in Nat /\ LastOf(t) \in Ticks
      /\ MaxRequests \in Nat \ {0} /\ LookupBuckets \in Nat /\ IsFiniteSet(Client)
  BY <1>1, TicksAreNat, LastOfIs, LookupConstants
<1> DEFINE f == Through(admitted, t)
           M == MaxRequests
           K == LookupBuckets
<1>3. /\ K * M \in Nat /\ K * (M - 1) \in Nat /\ K * (2 * M - 1) \in Nat
      /\ K * (M - 1) + K * M = K * (2 * M - 1)
  <2>1. M - 1 \in Nat /\ M \in Nat /\ 2 * M - 1 \in Nat
    BY <1>2
  <2> QED
    BY <1>2, <2>1, Products
<1>4. \A c \in Client : /\ f[c] = Sum(admitted[c], t .. LastOf(t)) /\ f[c] \in Nat
                        /\ f[c] <= Passed(admitted[c], t) /\ Passed(admitted[c], t) \in Nat
  <2> SUFFICES ASSUME NEW c \in Client
               PROVE  /\ f[c] = Sum(admitted[c], t .. LastOf(t)) /\ f[c] \in Nat
                      /\ f[c] <= Passed(admitted[c], t) /\ Passed(admitted[c], t) \in Nat
    OBVIOUS
  <2>1. admitted[c] \in [Ticks -> Nat] /\ f[c] = Sum(admitted[c], t .. LastOf(t))
    BY <1>1 DEF Through
  <2>2. /\ Sum(admitted[c], t .. LastOf(t)) \in Nat
        /\ Sum(admitted[c], t .. LastOf(t)) <= Passed(admitted[c], t) /\ Passed(admitted[c], t) \in Nat
    BY ONLY <1>2, <2>1, t \in Ticks, TickSums
  <2> HIDE DEF f
  <2> QED
    BY <2>1, <2>2
<1>5. CASE t > clock
  <2>1. \A c \in Client : f[c] = 0
    <3> SUFFICES ASSUME NEW c \in Client PROVE f[c] = 0
      OBVIOUS
    <3>1. admitted[c] \in [Ticks -> Nat] /\ \A u \in Ticks : u > clock => admitted[c][u] = 0
      BY <1>1
    <3>2. \A e \in Ticks : Sum(admitted[c], t .. e) = 0
      BY ONLY <1>1, <1>5, <3>1, t \in Ticks, NonePassed
    <3> QED
      BY <1>2, <1>4, <3>2
  <2> HIDE DEF f
  <2>2. Sum(f, Client) = 0
    BY <1>2, <2>1, SumZero
  <2>3. 0 <= 2 * M - 1 /\ 0 <= K * (2 * M - 1)
    BY <1>2, <1>3
  <2>4. (\A c \in Client : f[c] <= 2 * M - 1) /\ Sum(f, Client) <= K * (2 * M - 1)
    BY <2>1, <2>2, <2>3
  <2> QED
    BY <2>4 DEF Limited, f
<1>6. CASE t <= clock
  <2>1. \A c \in Client : f[c] <= 2 * M - 1
    <3> SUFFICES ASSUME NEW c \in Client PROVE f[c] <= 2 * M - 1
      OBVIOUS
    <3> HIDE DEF f
    <3>1. /\ f[c] \in Nat /\ f[c] <= Passed(admitted[c], t) /\ Passed(admitted[c], t) \in Nat
          /\ buckets[c].count \in Nat /\ buckets[c].count <= M
      BY <1>1, <1>4, LookupBucket
    <3>2. Counted(buckets[c], admitted[c], clock) /\ t + LookupWindow > clock
      <4>1. LookupWindow \in Nat
        BY LookupConstants
      <4> QED
        BY <1>2, <4>1 DEF ThrottleInv, Recounted
    <3>3. /\ buckets[c].count > 0 => Passed(admitted[c], t) + 1 <= M + buckets[c].count
          /\ buckets[c].count = 0 => Passed(admitted[c], t) + 1 <= M
      BY <3>2 DEF Counted
    <3> QED
      BY <1>2, <3>1, <3>3
  <2> DEFINE g == Spent(buckets, admitted, t)
             h == Later(buckets, t)
             H == HavingBucket(buckets)
  <2>2. Budget(buckets, admitted, t)
    BY <1>6 DEF ThrottleInv, Budgeted
  <2>3. Sum(g, Client) <= K * (M - 1) + Sum(h, Client)
    BY <2>2 DEF Budget
  <2>4. /\ Sum(g, Client) \in Nat /\ Sum(h, Client) \in Nat
        /\ \A c \in Client : /\ g[c] = Passed(admitted[c], t) + LeftOf(buckets[c], t)
                             /\ LeftOf(buckets[c], t) \in Nat /\ g[c] \in Nat
                             /\ h[c] = LaterIn(buckets[c], t) /\ h[c] \in Nat /\ h[c] <= M
    <3>1. /\ Sum(g, Client) \in Nat /\ Sum(h, Client) \in Nat
          /\ \A c \in Client : /\ g[c] = Passed(admitted[c], t) + LeftOf(buckets[c], t)
                               /\ h[c] = LaterIn(buckets[c], t)
                               /\ LeftOf(buckets[c], t) \in Nat
                               /\ LaterIn(buckets[c], t) <= M
                               /\ g[c] \in Nat /\ h[c] \in Nat
      BY <1>1, SpentTypes
    <3> HIDE DEF g, h
    <3> QED
      BY <3>1
  <2>5. \A c \in Client : c \notin H => h[c] = 0
    BY <2>4 DEF HavingBucket, LaterIn
  <2>6. H \subseteq Client /\ Client \cap H = H
    BY DEF HavingBucket
  <2>7. IsFiniteSet(H) /\ Cardinality(H) \in Nat /\ Cardinality(H) <= K
    BY <1>1, <1>2, <2>6, FS_Subset, FS_CardinalityType
  <2> HIDE DEF f, g, h, H
  <2>8. Sum(f, Client) <= Sum(g, Client) /\ Sum(f, Client) \in Nat
    <3>1. \A c \in Client : f[c] \in Nat /\ g[c] \in Nat /\ f[c] <= g[c]
      BY <1>4, <2>4
    <3> QED
      BY <1>2, <3>1, SumLess, SumParts
  <2>9. Sum(h, Client) <= Cardinality(Client \cap H) * M
    <3>1. \A c \in Client : h[c] \in Nat /\ h[c] <= M /\ (c \notin H => h[c] = 0)
      BY <2>4, <2>5
    <3>2. M \in Nat
      BY <1>2
    <3> HIDE DEF M
    <3> QED
      BY ONLY <1>2, <3>1, <3>2, SumFits
  <2>10. Cardinality(H) * M <= K * M /\ Cardinality(H) * M \in Nat
    <3>1. M \in Nat
      BY <1>2
    <3> QED
      BY ONLY <1>2, <2>7, <3>1, Products
  <2>11. Sum(f, Client) <= K * (2 * M - 1)
    <3> DEFINE p == Cardinality(H) * M
               q == K * M
               r == K * (M - 1)
               s == K * (2 * M - 1)
    <3>1. /\ Sum(h, Client) <= p /\ p <= q /\ r + q = s /\ p \in Nat /\ q \in Nat /\ r \in Nat /\ s \in Nat
          /\ Sum(g, Client) <= r + Sum(h, Client)
      BY <1>3, <2>3, <2>6, <2>9, <2>10
    <3> HIDE DEF p, q, r, s
    <3>2. Sum(f, Client) <= s
      BY <2>4, <2>8, <3>1
    <3> QED
      BY <3>2 DEF s
  <2> QED
    BY <2>1, <2>11 DEF Limited, f
<1> QED
  BY <1>2, <1>5, <1>6

Recently == \A t \in Ticks : clock < t + LookupWindow => Limited(admitted, t)
Rates == \A t \in Ticks : Limited(admitted, t)

\* A stretch that is over stays as it is.
LEMMA NextKeepsRates ==
  ThrottleInv /\ Recently' /\ Rates /\ [LookupNext]_lookupVars => Rates'
<1> SUFFICES ASSUME ThrottleInv, Recently', Rates, [LookupNext]_lookupVars PROVE Rates'
  OBVIOUS
<1>1. CASE admitted' = admitted
  BY <1>1 DEF Rates, Limited, Through
<1>2. ASSUME NEW c \in Client, Admit(c) PROVE Rates'
  <2>1. /\ clock \in Ticks /\ admitted \in [Client -> [Ticks -> Nat]]
    BY DEF ThrottleInv, ThrottleFits
  <2>2. clock' = clock /\ admitted' = [admitted EXCEPT ![c][clock] = @ + 1]
    BY <1>2 DEF Admit
  <2>3. ASSUME NEW t \in Ticks, ~(clock < t + LookupWindow) PROVE Limited(admitted', t)
    <3>1. LastOf(t) \in Ticks /\ clock \notin t .. LastOf(t)
      <4>1. LastOf(t) \in Ticks /\ LastOf(t) < t + LookupWindow
        BY LastOfIs
      <4>2. LastOf(t) \in Nat /\ clock \in Nat /\ t \in Nat /\ LookupWindow \in Nat
        BY <2>1, <4>1, TicksAreNat, LookupConstants
      <4> QED
        BY <2>3, <4>1, <4>2
    <3>2. \A d \in Client : Sum(admitted'[d], t .. LastOf(t)) = Sum(admitted[d], t .. LastOf(t))
      <4> SUFFICES ASSUME NEW d \in Client
                   PROVE  Sum(admitted'[d], t .. LastOf(t)) = Sum(admitted[d], t .. LastOf(t))
        OBVIOUS
      <4>1. CASE d # c
        <5>1. admitted'[d] = admitted[d]
          BY <2>1, <2>2, <4>1
        <5> QED
          BY <5>1
      <4>2. CASE d = c
        <5>1. admitted[c] \in [Ticks -> Nat] /\ admitted'[c] = OneMoreAt(admitted[c], clock)
          BY <2>1, <2>2 DEF OneMoreAt
        <5>2. Sum(OneMoreAt(admitted[c], clock), t .. LastOf(t)) = Sum(admitted[c], t .. LastOf(t))
          <6>1. admitted[c] \in [Ticks -> Nat]
            BY <5>1
          <6>2. LastOf(t) \in Ticks
            BY <3>1
          <6>3. Outside(clock, t, LastOf(t))
            BY <3>1 DEF Outside
          <6>4. clock \in Ticks
            BY <2>1
          <6> QED
            BY ONLY <6>1, <6>2, <6>3, <6>4, t \in Ticks, SameOutside
        <5> QED
          BY <4>2, <5>1, <5>2
      <4> QED
        BY <4>1, <4>2
    <3>3. Through(admitted', t) = Through(admitted, t)
      BY <3>2 DEF Through
    <3> QED
      BY <3>3 DEF Rates, Limited
  <2>4. ASSUME NEW t \in Ticks, clock < t + LookupWindow PROVE Limited(admitted', t)
    BY <2>2, <2>4 DEF Recently, Limited, Through, LastOf
  <2>5. \A t \in Ticks : Limited(admitted', t)
    BY <2>3, <2>4
  <2> QED
    BY <2>5 DEF Rates, Limited, Through, LastOf
<1>3. ASSUME NEW c \in Client, Refuse(c) PROVE Rates'
  BY <1>1, <1>3 DEF Refuse
<1>4. ASSUME FindElsewhere \/ ClockTick PROVE Rates'
  BY <1>1, <1>4 DEF FindElsewhere, ClockTick, throttle
<1>5. ASSUME NEW s \in Slug, Share(s) \/ Create(s) PROVE Rates'
  BY <1>1, <1>5 DEF Share, Create, throttle
<1>6. ASSUME NEW l \in Lookups, Settle(l) \/ Drop(l) PROVE Rates'
  BY <1>1, <1>6 DEF Settle, Drop, throttle
<1>7. CASE UNCHANGED lookupVars
  BY <1>1, <1>7 DEF lookupVars
<1> QED
  BY <1>2, <1>3, <1>4, <1>5, <1>6, <1>7 DEF LookupNext

LEMMA RecentRates == ThrottleInv => Recently
BY RecentLimited DEF Recently

LEMMA RatesFirst == LookupInit /\ Recently => Rates
<1> SUFFICES ASSUME LookupInit, Recently PROVE Rates
  OBVIOUS
<1>1. \A t \in Ticks : clock < t + LookupWindow
  <2>1. clock = 0 /\ LookupWindow \in Nat \ {0}
    BY LookupConstants DEF LookupInit
  <2>2. \A t \in Ticks : t \in Nat
    BY TicksAreNat
  <2> QED
    BY <2>1, <2>2
<1> QED
  BY <1>1 DEF Recently, Rates

(***************************************************************************)
(* The throttle of lookups lets at most two windows of requests, but for   *)
(* the one that opened the first, through in any stretch of windowMs: for  *)
(* each client and, with maxBuckets of them at a time, in all.             *)
(***************************************************************************)
THEOREM LookupVolume == LookupSpec => []VolumeIsLimited
<1>1. Rates => VolumeIsLimited
  BY LimitedIs DEF Rates
<1> QED
  BY <1>1, ThrottleHolds, RecentRates, RatesFirst, NextKeepsRates, PTL DEF LookupSpec

LEMMA LookupTypes == CacheInv /\ ThrottleInv => LookupTypeOK
<1> SUFFICES ASSUME CacheInv, ThrottleInv PROVE LookupTypeOK
  OBVIOUS
<1>1. Cardinality({c \in Client : buckets[c].count > 0}) <= LookupBuckets
  BY DEF ThrottleInv, ThrottleFits, HavingBucket
<1>2. /\ entries \in Seq(Entry) /\ Len(entries) <= MaxEntries
      /\ \A i, j \in DOMAIN entries : entries[i].slug = entries[j].slug => i = j
  BY DEF CacheInv, CacheTyped, Proper
<1>3. clock \in Ticks /\ buckets \in [Client -> RequestState] /\ admitted \in [Client -> [Ticks -> Nat]]
  BY DEF ThrottleInv, ThrottleFits
<1>4. /\ lookup \in [Lookups -> Lookup] /\ arrived \in 0 .. Requests /\ waiting \in 0 .. arrived
      /\ evicted \subseteq Lookups /\ others \in [Slug -> SUBSET Slug]
  BY DEF CacheInv, CacheTyped
<1> QED
  BY <1>1, <1>2, <1>3, <1>4 DEF LookupTypeOK

(***************************************************************************)
(* The throttle keeps at most maxBuckets clients and the cache at most     *)
(* maxEntries lookups, one for a slug.                                     *)
(***************************************************************************)
THEOREM LookupsTyped == LookupSpec => []LookupTypeOK
BY CacheHolds, ThrottleHolds, LookupTypes, PTL
=============================================================================
