------------------------- MODULE RateLimiterProofs --------------------------
(***************************************************************************)
(* The limiter for every set of origins, burst, cost and idle time.  The   *)
(* argument: a bucket's balance, taken at the present clock, never exceeds *)
(* what a window brought in less what it granted (Balance), and a key that *)
(* was denied lacks exactly the time until it should return (Deficit).     *)
(* Dropping a bucket changes no balance, because it is full by then.       *)
(***************************************************************************)
EXTENDS RateLimiter, TLAPS

\* A balance lies between nothing and a full bucket.
LEMMA RefilledInRange ==
    ASSUME TypeOK, ClocksInOrder, NEW k \in Keys
    PROVE  Refilled(k) \in 0..CAPACITY
BY RateAssumption DEF TypeOK, ClocksInOrder, Refilled, Capped

\* A bucket that was just written holds what was written into it.
LEMMA SetBucketBalance ==
    ASSUME TypeOK, NEW k \in Keys, NEW n \in 0..CAPACITY, SetBucket(k, n), now' = now
    PROVE  /\ Refilled(k)' = n
           /\ \A j \in Keys : j # k => Refilled(j)' = Refilled(j)
BY RateAssumption DEF TypeOK, SetBucket, Refilled, Capped

\* Pruning changes no balance: the bucket it drops is full.
LEMMA PruneKeepsBalances ==
    ASSUME TypeOK, Prune, NEW k \in Keys
    PROVE  Refilled(k)' = Refilled(k)
BY RateAssumption, PruneAssumption DEF TypeOK, Prune, IdleTooLong, Refilled, Capped

\* A millisecond adds one to a balance that is not full.
LEMMA TickRefills ==
    ASSUME TypeOK, ClocksInOrder, Tick, NEW k \in Keys
    PROVE  \/ Refilled(k)' = Refilled(k) + 1
           \/ Refilled(k)' = CAPACITY /\ Refilled(k) = CAPACITY
BY RateAssumption DEF TypeOK, ClocksInOrder, Tick, bucketVars, Refilled, Capped

LEMMA InitLimiterInv == Init => LimiterInv
BY RateAssumption
DEF Init, LimiterInv, TypeOK, ClocksInOrder, Balance, Deficit, Refilled

\* Every take, tick, pruning and new window keeps the books balanced.
LEMMA NextLimiterInv == LimiterInv /\ [Next]_vars => LimiterInv'
<1> SUFFICES ASSUME LimiterInv, [Next]_vars PROVE LimiterInv'
  OBVIOUS
<1>0. TypeOK /\ ClocksInOrder /\ Balance /\ Deficit
  BY DEF LimiterInv
<1>r. \A k \in Keys : Refilled(k) \in 0..CAPACITY
  BY <1>0, RefilledInRange
<1>1. ASSUME NEW k \in Keys, Allow(k) PROVE LimiterInv'
  <2>1. Refilled(k) - COST \in 0..CAPACITY
    BY <1>1, <1>r, RateAssumption DEF Allow
  <2>2. SetBucket(k, Refilled(k) - COST) /\ now' = now
    BY <1>1 DEF Allow
  <2>3. /\ Refilled(k)' = Refilled(k) - COST
        /\ \A j \in Keys : j # k => Refilled(j)' = Refilled(j)
    BY <1>0, <2>1, <2>2, SetBucketBalance
  <2>4. TypeOK'
    BY <1>0, <1>1, <2>1, RateAssumption DEF TypeOK, Allow, SetBucket
  <2>5. ClocksInOrder'
    BY <1>0, <1>1 DEF TypeOK, ClocksInOrder, Allow, SetBucket
  <2>6. Balance'
    BY <1>0, <1>1, <1>r, <2>3, RateAssumption DEF TypeOK, ClocksInOrder, Balance, Allow
  <2>7. Deficit'
    BY <1>0, <1>1, <2>3 DEF TypeOK, Deficit, Allow
  <2> QED BY <2>4, <2>5, <2>6, <2>7 DEF LimiterInv
<1>2. ASSUME NEW k \in Keys, Deny(k) PROVE LimiterInv'
  <2>1. Refilled(k) \in 0..CAPACITY
    BY <1>r
  <2>2. SetBucket(k, Refilled(k)) /\ now' = now
    BY <1>2 DEF Deny
  <2>3. \A j \in Keys : Refilled(j)' = Refilled(j)
    BY <1>0, <2>1, <2>2, SetBucketBalance
  <2>4. TypeOK'
    BY <1>0, <1>2, <2>1, RateAssumption DEF TypeOK, Deny, SetBucket
  <2>5. ClocksInOrder'
    BY <1>0, <1>2 DEF TypeOK, ClocksInOrder, Deny, SetBucket
  <2>6. Balance'
    BY <1>0, <1>2, <2>3 DEF Balance, Deny
  <2>7. Deficit'
    BY <1>0, <1>2, <2>3 DEF TypeOK, Deficit, Deny
  <2> QED BY <2>4, <2>5, <2>6, <2>7 DEF LimiterInv
<1>3. CASE Prune
  <2>1. \A k \in Keys : Refilled(k)' = Refilled(k)
    BY <1>0, <1>3, PruneKeepsBalances
  <2>2. TypeOK' /\ ClocksInOrder'
    BY <1>0, <1>3 DEF TypeOK, ClocksInOrder, Prune
  <2>3. Balance' /\ Deficit'
    BY <1>0, <1>3, <2>1 DEF TypeOK, Balance, Deficit, Prune
  <2> QED BY <2>2, <2>3 DEF LimiterInv
<1>4. CASE Tick
  <2>1. \A k \in Keys : \/ Refilled(k)' = Refilled(k) + 1
                        \/ Refilled(k)' = CAPACITY /\ Refilled(k) = CAPACITY
    BY <1>0, <1>4, TickRefills
  <2>2. TypeOK' /\ ClocksInOrder'
    BY <1>0, <1>4 DEF TypeOK, ClocksInOrder, Tick, bucketVars
  <2>3. Balance'
    BY <1>0, <1>4, <1>r, <2>1, RateAssumption DEF TypeOK, ClocksInOrder, Balance, Tick
  <2>4. Deficit'
    BY <1>0, <1>4, <1>r, <2>1, RateAssumption DEF TypeOK, Deficit, Tick
  <2> QED BY <2>2, <2>3, <2>4 DEF LimiterInv
<1>5. CASE OpenWindow
  <2>1. \A k \in Keys : Refilled(k)' = Refilled(k)
    BY <1>5 DEF OpenWindow, bucketVars, Refilled
  <2>2. TypeOK' /\ ClocksInOrder'
    BY <1>0, <1>5 DEF TypeOK, ClocksInOrder, OpenWindow, bucketVars
  <2>3. Balance'
    BY <1>0, <1>5, <1>r, <2>1, RateAssumption DEF TypeOK, Balance, OpenWindow
  <2>4. Deficit'
    BY <1>0, <1>5, <2>1 DEF TypeOK, Deficit, OpenWindow
  <2> QED BY <2>2, <2>3, <2>4 DEF LimiterInv
<1>6. CASE UNCHANGED vars
  BY <1>0, <1>6
  DEF vars, bucketVars, LimiterInv, TypeOK, ClocksInOrder, Balance, Deficit, Refilled
<1> QED BY <1>1, <1>2, <1>3, <1>4, <1>5, <1>6 DEF Next

THEOREM LimiterInvHolds == Spec => []LimiterInv
<1>1. Init => LimiterInv
  BY InitLimiterInv
<1>2. LimiterInv /\ [Next]_vars => LimiterInv'
  BY NextLimiterInv
<1> QED BY <1>1, <1>2, PTL DEF Spec

\* No origin is granted more than a burst and what time refills, in any window
\* and whatever is pruned: the ceiling take() of rate-limit.ts promises.
THEOREM GrantsAlwaysBounded == Spec => []GrantsAreBounded
<1>1. LimiterInv => GrantsAreBounded
  <2> SUFFICES ASSUME LimiterInv, NEW k \in Keys
               PROVE  windowSpent[k] <= CAPACITY + (now - windowStart)
    BY DEF GrantsAreBounded
  <2>1. Refilled(k) \in 0..CAPACITY
    BY RefilledInRange DEF LimiterInv
  <2> QED BY <2>1, RateAssumption DEF LimiterInv, TypeOK, Balance
<1> QED BY <1>1, LimiterInvHolds, PTL

\* The delay that a refusal names is enough, however often the client asks in
\* between: retryAfterMs of rate-limit.ts.
THEOREM RetryAlwaysHonest == Spec => []RetryIsHonest
<1>1. LimiterInv => RetryIsHonest
  <2> SUFFICES ASSUME LimiterInv, NEW k \in told, now >= retryAt[k]
               PROVE  Refilled(k) >= COST
    BY DEF RetryIsHonest
  <2>1. k \in Keys
    BY DEF LimiterInv, TypeOK
  <2>2. Refilled(k) \in 0..CAPACITY
    BY <2>1, RefilledInRange DEF LimiterInv
  <2>3. Refilled(k) >= COST \/ retryAt[k] = now + (COST - Refilled(k))
    BY DEF LimiterInv, Deficit
  <2>4. now \in Nat /\ retryAt[k] \in Nat
    BY <2>1 DEF LimiterInv, TypeOK
  <2> QED BY <2>2, <2>3, <2>4, RateAssumption
<1> QED BY <1>1, LimiterInvHolds, PTL
=============================================================================
