---------------------------- MODULE RateLimiter -----------------------------
(***************************************************************************)
(* The token bucket in front of the web API (apps/api/src/web/rate-limit), *)
(* as one warm container runs it: one bucket for each origin, pruned when  *)
(* idle.  The handler takes before its first await, so a take is atomic.   *)
(*                                                                         *)
(* Tokens are counted in what one millisecond refills: CAPACITY and COST   *)
(* are the burst and one request in that unit, and a bucket refills by the *)
(* time that has passed.  The clock (Date.now) is not set back.            *)
(***************************************************************************)
EXTENDS Integers

CONSTANTS
    Keys,      \* origins (source IP)
    CAPACITY,  \* a full bucket
    COST,      \* one request
    MAX_IDLE,  \* PRUNE_IDLE_MS
    MAX_TIME   \* bound of the model: the clock

ASSUME RateAssumption ==
    /\ CAPACITY \in Nat /\ COST \in Nat \ {0} /\ MAX_IDLE \in Nat /\ MAX_TIME \in Nat
    /\ COST <= CAPACITY

\* An idle bucket is full before it is pruned: 20 s for the write limiter,
\* 6 s for the read limiter, against ten minutes.
ASSUME PruneAssumption == CAPACITY <= MAX_IDLE

VARIABLES
    now,           \* the clock
    live,          \* keys that have a bucket
    tokens,        \* of a live key
    updatedAt,     \* of a live key
    told,          \* history: keys denied since they were last allowed
    retryAt,       \* history: when a told key was asked to come back
    windowStart,   \* history: any moment from which grants are counted
    windowSpent    \* history: tokens granted to a key since then

bucketVars == <<live, tokens, updatedAt>>
vars == <<now, bucketVars, told, retryAt, windowStart, windowSpent>>

Init ==
    /\ now = 0
    /\ live = {}
    /\ tokens = [k \in Keys |-> CAPACITY]
    /\ updatedAt = [k \in Keys |-> 0]
    /\ told = {}
    /\ retryAt = [k \in Keys |-> 0]
    /\ windowStart = 0
    /\ windowSpent = [k \in Keys |-> 0]

Capped(n) == IF n <= CAPACITY THEN n ELSE CAPACITY

\* The balance of a key now; a new bucket is full.
Refilled(k) == IF k \in live THEN Capped(tokens[k] + (now - updatedAt[k])) ELSE CAPACITY

SetBucket(k, balance) ==
    /\ live' = live \cup {k}
    /\ tokens' = [tokens EXCEPT ![k] = balance]
    /\ updatedAt' = [updatedAt EXCEPT ![k] = now]

Allow(k) ==
    /\ Refilled(k) >= COST
    /\ SetBucket(k, Refilled(k) - COST)
    /\ told' = told \ {k}
    /\ windowSpent' = [windowSpent EXCEPT ![k] = @ + COST]
    /\ UNCHANGED <<now, retryAt, windowStart>>

\* Mutant: the clock of the bucket moves, its balance does not.
DenyForgettingRefill(k) ==
    /\ Refilled(k) < COST
    /\ SetBucket(k, tokens[k])
    /\ told' = told \cup {k}
    /\ retryAt' = [retryAt EXCEPT ![k] = now + (COST - Refilled(k))]
    /\ UNCHANGED <<now, windowStart, windowSpent>>

\* Nothing is consumed; the answer says when to come back.
Deny(k) ==
    /\ Refilled(k) < COST
    /\ SetBucket(k, Refilled(k))
    /\ told' = told \cup {k}
    /\ retryAt' = [retryAt EXCEPT ![k] = now + (COST - Refilled(k))]
    /\ UNCHANGED <<now, windowStart, windowSpent>>

\* Mutant: buckets in use are dropped, too.
IdleAlways(k) == now > updatedAt[k]

IdleTooLong(k) == now - updatedAt[k] > MAX_IDLE

Prune ==
    /\ live' = {k \in live : ~IdleTooLong(k)}
    /\ UNCHANGED <<now, tokens, updatedAt, told, retryAt, windowStart, windowSpent>>

Tick ==
    /\ now < MAX_TIME
    /\ now' = now + 1
    /\ UNCHANGED <<bucketVars, told, retryAt, windowStart, windowSpent>>

\* Counting starts afresh, at any moment.
OpenWindow ==
    /\ windowStart' = now
    /\ windowSpent' = [k \in Keys |-> 0]
    /\ UNCHANGED <<now, bucketVars, told, retryAt>>

Next ==
    \/ \E k \in Keys : Allow(k) \/ Deny(k)
    \/ Prune
    \/ Tick
    \/ OpenWindow

Spec == Init /\ [][Next]_vars

-----------------------------------------------------------------------------
(* Properties *)

TypeOK ==
    /\ now \in Nat
    /\ live \subseteq Keys
    /\ tokens \in [Keys -> 0..CAPACITY]
    /\ updatedAt \in [Keys -> Nat]
    /\ told \subseteq Keys
    /\ retryAt \in [Keys -> Nat]
    /\ windowStart \in Nat
    /\ windowSpent \in [Keys -> Nat]

\* From any moment on, an origin is granted no more than one burst plus what
\* the time refills, though its bucket is pruned and made anew on the way.
GrantsAreBounded == \A k \in Keys : windowSpent[k] <= CAPACITY + (now - windowStart)

\* A client that was denied and comes back when it was told is served: other
\* denied requests in between do not put it off, nor does pruning.
RetryIsHonest == \A k \in told : now >= retryAt[k] => Refilled(k) >= COST

-----------------------------------------------------------------------------
(* What the two follow from *)

ClocksInOrder ==
    /\ windowStart <= now
    /\ \A k \in Keys : updatedAt[k] <= now

\* What was granted and what is left is what was there and what came in.
Balance == \A k \in Keys : windowSpent[k] + Refilled(k) <= CAPACITY + (now - windowStart)

\* A denied key lacks exactly the time until it was told to come back.
Deficit == \A k \in told : Refilled(k) >= COST \/ retryAt[k] = now + (COST - Refilled(k))

LimiterInv == TypeOK /\ ClocksInOrder /\ Balance /\ Deficit
=============================================================================
