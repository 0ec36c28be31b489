---------------------------- MODULE LoginThrottle ----------------------------
(***************************************************************************)
(* The throttle of admin verifications (createAdminLoginThrottle) and the  *)
(* requests that ask it: login, password change, MFA enable and disable.   *)
(*                                                                         *)
(* A request is checked, then awaits the repository, then records its      *)
(* failure: requests that were checked together are all let through, and   *)
(* what one of them records may find the table changed since its check.    *)
(* The clock moves by ticks, the milliseconds of Date.now.                 *)
(***************************************************************************)
EXTENDS Naturals, FiniteSets, FiniteSetsExt

CONSTANTS
  Account, Ip,   \* the keys, account:<username> and ip:<address>
  Request,       \* verifications at a time; HTTP_MAX_CONNECTIONS bounds them
  AccountMax,    \* accountMaxAttempts
  IpMax,         \* ipMaxAttempts
  Window,        \* windowMs
  Lockout,       \* lockoutMs
  MaxBuckets,    \* maxBuckets
  MaxTime,       \* bound: the last tick
  MaxAttempts,   \* bound: verifications that are let through
  None

ASSUME ThrottleAssumption ==
  /\ Account \cap Ip = {} /\ None \notin Account \X Ip
  /\ IsFiniteSet(Account) /\ IsFiniteSet(Ip) /\ IsFiniteSet(Request)
  /\ {AccountMax, IpMax, Window, Lockout, MaxBuckets} \subseteq Nat \ {0}
  /\ MaxTime \in Nat /\ MaxAttempts \in Nat

Key == Account \cup Ip

Time == 0 .. MaxTime

\* count 0: the key has no bucket.
Bucket == [count : Nat, first : Time, lockedUntil : 0 .. MaxTime + Lockout]

NoBucket == [count |-> 0, first |-> 0, lockedUntil |-> 0]

VARIABLES
  now,        \* Date.now()
  attempts,   \* the buckets
  pair,       \* pair[q]: the account and address request q verifies, or None
  begun,      \* verifications let through so far
  failed,     \* history: failed[k][t], failed answers at tick t
  uncounted   \* history: failures of the key that found no room

vars == <<now, attempts, pair, begun, failed, uncounted>>

TypeOK ==
  /\ now \in Time
  /\ attempts \in [Key -> Bucket]
  /\ \A k \in Key : attempts[k].count > 0 => attempts[k].first <= now
  /\ pair \in [Request -> (Account \X Ip) \cup {None}]
  /\ begun \in 0 .. MaxAttempts
  /\ failed \in [Key -> [Time -> Nat]]
  /\ uncounted \in [Key -> Nat]

Never == [t \in Time |-> 0]

Init ==
  /\ now = 0
  /\ attempts = [k \in Key |-> NoBucket]
  /\ pair = [q \in Request |-> None]
  /\ begun = 0
  /\ failed = [k \in Key |-> Never]
  /\ uncounted = [k \in Key |-> 0]
-----------------------------------------------------------------------------
Buckets(table) == {k \in Key : table[k].count > 0}

Locks(bucket) == bucket.count > 0 /\ bucket.lockedUntil > now

Over(bucket) == now - bucket.first > Window

\* Mutant: a lock does not keep its bucket.
PruneLocked(table) ==
  [k \in Key |-> IF table[k].count > 0 /\ Over(table[k]) THEN NoBucket ELSE table[k]]

Prune(table) ==
  [k \in Key |-> IF table[k].count > 0 /\ ~Locks(table[k]) /\ Over(table[k]) THEN NoBucket ELSE table[k]]

\* Neither key is locked, and the buckets the pair would need fit.
Allowed(table, keys) ==
  /\ \A k \in keys : ~Locks(table[k])
  /\ Cardinality(Buckets(table) \cup keys) <= MaxBuckets

MaximumAttempts(k) == IF k \in Ip THEN IpMax ELSE AccountMax

\* Mutant: a key is locked by one failure more.
LockUntilLate(k, count) == IF count > MaximumAttempts(k) THEN now + Lockout ELSE 0

\* Mutant: only the failure that reaches the limit locks.
LockUntilOnce(k, count) == IF count = MaximumAttempts(k) THEN now + Lockout ELSE 0

LockUntil(k, count) == IF count >= MaximumAttempts(k) THEN now + Lockout ELSE 0

\* A bucket of an old window starts again; the first failure locks nobody.
Charge(bucket, k) ==
  IF bucket.count = 0 \/ Over(bucket)
  THEN [count |-> 1, first |-> now, lockedUntil |-> 0]
  ELSE [bucket EXCEPT !.count = @ + 1, !.lockedUntil = LockUntil(k, bucket.count + 1)]

\* Mutant: a failure always gets a bucket.
RecordUnbounded(table, k) == [table EXCEPT ![k] = Charge(@, k)]

Record(table, k) ==
  IF table[k].count = 0 /\ Cardinality(Buckets(table)) >= MaxBuckets
  THEN table
  ELSE [table EXCEPT ![k] = Charge(@, k)]
-----------------------------------------------------------------------------
\* The check, which prunes; a request that is refused is answered 429.
Begin(q, a, i) ==
  /\ pair[q] = None /\ begun < MaxAttempts
  /\ attempts' = Prune(attempts)
  /\ IF Allowed(attempts', {a, i})
     THEN pair' = [pair EXCEPT ![q] = <<a, i>>] /\ begun' = begun + 1
     ELSE UNCHANGED <<pair, begun>>
  /\ UNCHANGED <<now, failed, uncounted>>

End(q) == pair[q] # None /\ pair' = [pair EXCEPT ![q] = None]

\* The credentials or the code were wrong: recordFailure for both keys.
Fail(q) ==
  /\ End(q)
  /\ LET a == pair[q][1]
         i == pair[q][2]
         table == Record(attempts, a)
     IN /\ attempts' = Record(table, i)
        /\ failed' = [k \in Key |-> IF k \in {a, i} THEN [failed[k] EXCEPT ![now] = @ + 1] ELSE failed[k]]
        /\ uncounted' = [k \in Key |-> IF k \in {a, i} /\ attempts'[k].count = 0
                                       THEN uncounted[k] + 1 ELSE uncounted[k]]
  /\ UNCHANGED <<now, begun>>

\* They were right: the account starts afresh, the address does not.
Succeed(q) ==
  /\ End(q)
  /\ LET a == pair[q][1] IN
     /\ attempts' = [attempts EXCEPT ![a] = NoBucket]
     /\ failed' = [failed EXCEPT ![a] = Never]
     /\ uncounted' = [uncounted EXCEPT ![a] = 0]
  /\ UNCHANGED <<now, begun>>

\* A password without its code, or an error that is not about credentials.
Leave(q) == End(q) /\ UNCHANGED <<now, attempts, begun, failed, uncounted>>

Tick ==
  /\ now < MaxTime
  /\ now' = now + 1
  /\ UNCHANGED <<attempts, pair, begun, failed, uncounted>>

Next ==
  \/ \E q \in Request : (\E a \in Account, i \in Ip : Begin(q, a, i)) \/ Fail(q) \/ Succeed(q) \/ Leave(q)
  \/ Tick

Spec == Init /\ [][Next]_vars
-----------------------------------------------------------------------------
(****************************** Properties ******************************)

\* The requests that verify an account or come from an address.
Verifying(k) == {q \in Request : pair[q] # None /\ k \in {pair[q][1], pair[q][2]}}

(***************************************************************************)
(* README.md: "the bucket cap bounds memory", whatever was let through     *)
(* before the table was full.                                              *)
(***************************************************************************)
WithinBuckets == Cardinality(Buckets(attempts)) <= MaxBuckets

\* The first failure locks nobody: a limit of one is a limit of two.
Limit(k) == IF MaximumAttempts(k) = 1 THEN 2 ELSE MaximumAttempts(k)

(***************************************************************************)
(* Requests that were checked together overshoot the limit, but by no more *)
(* than their number: what a key has been charged and what may still be    *)
(* charged to it stay below the limit plus the requests of one moment.     *)
(***************************************************************************)
OvershootBounded ==
  Lockout > Window =>
    \A k \in Key : attempts[k].count + Cardinality(Verifying(k)) <= Limit(k) - 1 + Cardinality(Request)

(***************************************************************************)
(* What the two limits come to: in any stretch of windowMs, an account or  *)
(* an address gets no more failed answers than two windows hold, each with *)
(* the requests of one moment on top, less the failure that opened the     *)
(* first window, which is too old, and the late one that closes it.        *)
(* Failures that found the table full come on top.                         *)
(***************************************************************************)
GuessRate ==
  Lockout > Window =>
    \A k \in Key, t \in Time :
      MapThenSumSet(LAMBDA u : failed[k][u], t .. Min({t + Window, MaxTime}))
        <= 2 * (Limit(k) - 1 + Cardinality(Request)) - 2 + uncounted[k]

(***************************************************************************)
(* A lock lasts until its time, unless a verification that was let through *)
(* before it ends well, or fails after the window of the bucket is over:   *)
(* that failure starts the bucket again and lifts the lock.                *)
(***************************************************************************)
LocksHold ==
  [][\A k \in Key :
       Locks(attempts[k]) /\ attempts[k].lockedUntil > now' =>
         \/ attempts'[k].lockedUntil > now'
         \/ \E q \in Verifying(k) : \/ Fail(q) /\ Over(attempts[k])
                                    \/ Succeed(q) /\ k \in Account]_vars
=============================================================================
