----------------------------- MODULE RateLimiter -----------------------------
(***************************************************************************)
(* internal/middleware/rate_limiter.go: one bucket of tokens per client    *)
(* address, in front of POST /auth/register and POST /auth/login.  Limit   *)
(* holds its mutex from the lookup of the bucket to the answer, so a       *)
(* request is one step.                                                    *)
(*                                                                         *)
(* Time is counted in ticks, Minute of them to a minute.  A bucket's       *)
(* lastFill is kept as its age, and ages stop at Minute: perMin is also    *)
(* the capacity, so one whole minute fills a bucket and more add nothing.  *)
(***************************************************************************)
EXTENDS Integers

CONSTANTS
    Addresses,  \* client addresses
    Capacity,   \* perMin and capacity: RATE_LIMIT_PER_MINUTE
    Minute,     \* ticks in a minute
    Pause,      \* Pause[ip]: ticks a refused client waits before it asks again
    None        \* no bucket

ASSUME LimiterAssumption ==
    /\ Capacity \in Nat \ {0}
    /\ Minute \in Nat \ {0}
    /\ Pause \in [Addresses -> 0 .. Minute]

VARIABLES
    buckets,  \* the map of buckets
    refused,  \* addresses whose last request was refused
    quiet,    \* ticks since the last request of an address, up to Minute
    passed    \* requests let through since an address was last quiet for a minute

vars == <<buckets, refused, quiet, passed>>

Bucket == [tokens : 0 .. Capacity, age : 0 .. Minute]

ASSUME NoBucketAssumption == None \notin Bucket

NewBucket == [tokens |-> Capacity, age |-> 0]

Smaller(m, n) == IF m < n THEN m ELSE n

Init ==
    /\ buckets = [ip \in Addresses |-> None]
    /\ refused = {}
    /\ quiet = [ip \in Addresses |-> Minute]
    /\ passed = [ip \in Addresses |-> 0]

BucketOf(ip) == IF buckets[ip] = None THEN NewBucket ELSE buckets[ip]

\* Fault variant: a started minute counts as a whole one.
RefilledRoundedUp(b) ==
    Smaller(b.tokens + ((b.age + Minute - 1) \div Minute) * Capacity, Capacity)

\* Fault variant: no capacity.
RefilledUncapped(b) == b.tokens + (b.age \div Minute) * Capacity

\* Whole minutes only, and never above the capacity.
Refilled(b) == Smaller(b.tokens + (b.age \div Minute) * Capacity, Capacity)

\* Fault variant: the tokens are taken and never refilled.
LimitNeverRefills(ip) ==
    LET tokens == BucketOf(ip).tokens IN
    /\ ip \in refused => quiet[ip] >= Pause[ip]
    /\ buckets' = [buckets EXCEPT ![ip] =
         [tokens |-> IF tokens > 0 THEN tokens - 1 ELSE 0, age |-> 0]]
    /\ refused' = IF tokens > 0 THEN refused \ {ip} ELSE refused \cup {ip}
    /\ quiet' = [quiet EXCEPT ![ip] = 0]
    /\ passed' = [passed EXCEPT ![ip] =
         (IF quiet[ip] = Minute THEN 0 ELSE @) + (IF tokens > 0 THEN 1 ELSE 0)]

\* Limit: the refill is taken and lastFill becomes now, whatever the answer.
Limit(ip) ==
    LET tokens == Refilled(BucketOf(ip)) IN
    /\ ip \in refused => quiet[ip] >= Pause[ip]
    /\ buckets' = [buckets EXCEPT ![ip] =
         [tokens |-> IF tokens > 0 THEN tokens - 1 ELSE 0, age |-> 0]]
    /\ refused' = IF tokens > 0 THEN refused \ {ip} ELSE refused \cup {ip}
    /\ quiet' = [quiet EXCEPT ![ip] = 0]
    /\ passed' = [passed EXCEPT ![ip] =
         (IF quiet[ip] = Minute THEN 0 ELSE @) + (IF tokens > 0 THEN 1 ELSE 0)]

Tick ==
    /\ buckets' = [ip \in Addresses |->
         IF buckets[ip] = None
         THEN None
         ELSE [buckets[ip] EXCEPT !.age = Smaller(@ + 1, Minute)]]
    /\ quiet' = [ip \in Addresses |-> Smaller(quiet[ip] + 1, Minute)]
    /\ UNCHANGED <<refused, passed>>

Next == Tick \/ \E ip \in Addresses : Limit(ip)

Spec == Init /\ [][Next]_vars

\* Time passes, and a client that was refused asks again once its pause is over.
FairSpec ==
    /\ Spec
    /\ WF_vars(Tick)
    /\ \A ip \in Addresses : WF_vars(ip \in refused /\ Limit(ip))

-----------------------------------------------------------------------------
\* A bucket holds between none and Capacity tokens, and ages stop at Minute.
TypeOK ==
    /\ buckets \in [Addresses -> Bucket \cup {None}]
    /\ refused \subseteq Addresses
    /\ quiet \in [Addresses -> 0 .. Minute]
    /\ passed \in [Addresses -> Nat]

\* However a client spreads its requests, at most Capacity of them pass between
\* two pauses of a minute, hence in any minute: a refill is never taken twice
\* for the same minute, nor for a minute in which the client asked.
AtMostCapacityPerMinute == \A ip \in Addresses : passed[ip] <= Capacity

\* A client that was refused and asks again a whole minute later is served in
\* the end, whatever the other clients do meanwhile.
RefusedIsServedLater ==
    \A ip \in Addresses : Pause[ip] = Minute => (ip \in refused ~> ip \notin refused)
=============================================================================
