-------------------------- MODULE RateLimiterProofs --------------------------
(***************************************************************************)
(* The bound of the rate limiter for every capacity, minute and pause.     *)
(***************************************************************************)
EXTENDS RateLimiter, TLAPS

\* What the bound rests on.  A bucket is as old as its client is quiet, and
\* while that is less than a minute, the tokens left and the requests let
\* through share the capacity.
SharedCapacity(ip) ==
    /\ buckets[ip] = None => quiet[ip] = Minute /\ passed[ip] = 0
    /\ buckets[ip] # None =>
         /\ buckets[ip].age = quiet[ip]
         /\ buckets[ip].tokens + passed[ip] <= Capacity

IInv == TypeOK /\ \A ip \in Addresses : SharedCapacity(ip)

\* A refill is the old tokens or the whole capacity, nothing in between.
LEMMA RefillIsWhole ==
    ASSUME NEW b \in Bucket
    PROVE  Refilled(b) = IF b.age = Minute THEN Capacity ELSE b.tokens
<1>0. /\ Capacity \in Nat \ {0} /\ Minute \in Nat \ {0}
      /\ b.tokens \in 0 .. Capacity /\ b.age \in 0 .. Minute
  BY LimiterAssumption DEF Bucket
<1>1. CASE b.age = Minute
  <2>1. b.age \div Minute = 1
    BY <1>0, <1>1
  <2> QED BY <1>0, <1>1, <2>1 DEF Refilled, Smaller
<1>2. CASE b.age # Minute
  <2>1. b.age \div Minute = 0
    BY <1>0, <1>2
  <2> QED BY <1>0, <1>2, <2>1 DEF Refilled, Smaller
<1> QED BY <1>1, <1>2

LEMMA InitIInv == Init => IInv
<1>1. SUFFICES ASSUME Init PROVE IInv
  OBVIOUS
<1> QED BY <1>1, LimiterAssumption DEF Init, IInv, TypeOK, SharedCapacity

\* A request: what it takes from the bucket it adds to the count.
LEMMA LimitIInv ==
    ASSUME IInv, NEW ip \in Addresses, Limit(ip)
    PROVE  IInv'
<1> DEFINE b == BucketOf(ip)
           tokens == Refilled(b)
<1>0. Capacity \in Nat \ {0} /\ Minute \in Nat \ {0}
  BY LimiterAssumption
<1>1. b \in Bucket
  BY <1>0 DEF IInv, TypeOK, BucketOf, NewBucket, Bucket
<1>2. tokens = IF b.age = Minute THEN Capacity ELSE b.tokens
  BY <1>1, RefillIsWhole
<1>3. tokens \in 0 .. Capacity
  BY <1>0, <1>1, <1>2 DEF Bucket
<1> HIDE DEF tokens
<1>4. /\ buckets' = [buckets EXCEPT ![ip] =
           [tokens |-> IF tokens > 0 THEN tokens - 1 ELSE 0, age |-> 0]]
      /\ refused' = IF tokens > 0 THEN refused \ {ip} ELSE refused \cup {ip}
      /\ quiet' = [quiet EXCEPT ![ip] = 0]
      /\ passed' = [passed EXCEPT ![ip] =
           (IF quiet[ip] = Minute THEN 0 ELSE @) + (IF tokens > 0 THEN 1 ELSE 0)]
  BY DEF Limit, tokens
<1>5. TypeOK'
  <2>1. [tokens |-> IF tokens > 0 THEN tokens - 1 ELSE 0, age |-> 0] \in Bucket
    BY <1>0, <1>3 DEF Bucket
  <2>2. passed[ip] \in Nat
    BY DEF IInv, TypeOK
  <2> QED BY <1>0, <1>4, <2>1, <2>2 DEF IInv, TypeOK
<1>6. ASSUME NEW other \in Addresses
      PROVE  SharedCapacity(other)'
  <2>1. CASE other # ip
    BY <1>4, <2>1 DEF IInv, TypeOK, SharedCapacity
  <2>2. CASE other = ip
    <3>1. /\ buckets'[ip] = [tokens |-> IF tokens > 0 THEN tokens - 1 ELSE 0, age |-> 0]
          /\ quiet'[ip] = 0
          /\ passed'[ip] = (IF quiet[ip] = Minute THEN 0 ELSE passed[ip])
                             + (IF tokens > 0 THEN 1 ELSE 0)
      BY <1>4 DEF IInv, TypeOK
    <3>2. buckets'[ip] # None
      <4>1. [tokens |-> IF tokens > 0 THEN tokens - 1 ELSE 0, age |-> 0] \in Bucket
        BY <1>0, <1>3 DEF Bucket
      <4> QED BY <3>1, <4>1, NoBucketAssumption
    <3>3. tokens + (IF quiet[ip] = Minute THEN 0 ELSE passed[ip]) <= Capacity
      <4>0. passed[ip] \in Nat /\ quiet[ip] \in 0 .. Minute
        BY DEF IInv, TypeOK
      <4>1. CASE quiet[ip] = Minute
        BY <1>0, <1>3, <4>1
      <4>2. CASE quiet[ip] # Minute
        <5>1. buckets[ip] # None /\ b = buckets[ip]
          BY <4>2 DEF IInv, SharedCapacity, BucketOf
        <5>2. b.age = quiet[ip] /\ b.tokens + passed[ip] <= Capacity
          BY <5>1 DEF IInv, SharedCapacity
        <5> QED BY <1>2, <4>2, <5>2
      <4> QED BY <4>1, <4>2
    <3>4. buckets'[ip].age = 0 /\ buckets'[ip].tokens = IF tokens > 0 THEN tokens - 1 ELSE 0
      BY <3>1
    <3>5. passed[ip] \in Nat
      BY DEF IInv, TypeOK
    <3>6. buckets'[ip].tokens + passed'[ip] <= Capacity
      BY <1>0, <1>3, <3>1, <3>3, <3>4, <3>5
    <3> QED BY <2>2, <3>1, <3>2, <3>4, <3>6 DEF SharedCapacity
  <2> QED BY <2>1, <2>2
<1> QED BY <1>5, <1>6 DEF IInv

\* Time makes buckets and pauses older together.
LEMMA TickIInv == ASSUME IInv, Tick PROVE IInv'
<1>0. Capacity \in Nat \ {0} /\ Minute \in Nat \ {0}
  BY LimiterAssumption
<1>1. ASSUME NEW ip \in Addresses, buckets[ip] # None
      PROVE  /\ [buckets[ip] EXCEPT !.age = Smaller(@ + 1, Minute)] \in Bucket
             /\ [buckets[ip] EXCEPT !.age = Smaller(@ + 1, Minute)].tokens = buckets[ip].tokens
             /\ [buckets[ip] EXCEPT !.age = Smaller(@ + 1, Minute)].age
                  = Smaller(buckets[ip].age + 1, Minute)
  <2>1. buckets[ip] \in Bucket
    BY <1>1 DEF IInv, TypeOK
  <2> QED BY <1>0, <2>1 DEF Bucket, Smaller
<1>2. TypeOK'
  BY <1>0, <1>1 DEF IInv, TypeOK, Tick, Smaller
<1>3. ASSUME NEW ip \in Addresses
      PROVE  SharedCapacity(ip)'
  <2>1. /\ buckets'[ip] = IF buckets[ip] = None THEN None
                          ELSE [buckets[ip] EXCEPT !.age = Smaller(@ + 1, Minute)]
        /\ quiet'[ip] = Smaller(quiet[ip] + 1, Minute)
        /\ passed'[ip] = passed[ip]
    BY DEF Tick
  <2>2. CASE buckets[ip] = None
    <3>1. quiet[ip] = Minute /\ passed[ip] = 0
      BY <2>2 DEF IInv, SharedCapacity
    <3> QED BY <1>0, <2>1, <2>2, <3>1 DEF SharedCapacity, Smaller
  <2>3. CASE buckets[ip] # None
    <3>1. buckets'[ip] # None
      BY <1>1, <2>1, <2>3, NoBucketAssumption
    <3> QED BY <1>1, <2>1, <2>3, <3>1 DEF IInv, SharedCapacity
  <2> QED BY <2>2, <2>3
<1> QED BY <1>2, <1>3 DEF IInv

\* The token buckets and the history stay in step.
THEOREM LimiterInductive == Spec => []IInv
<1>1. IInv /\ [Next]_vars => IInv'
  <2>1. SUFFICES ASSUME IInv, [Next]_vars PROVE IInv'
    OBVIOUS
  <2>2. CASE Tick
    BY <2>1, <2>2, TickIInv
  <2>3. CASE \E ip \in Addresses : Limit(ip)
    BY <2>1, <2>3, LimitIInv
  <2>4. CASE UNCHANGED vars
    BY <2>1, <2>4 DEF IInv, TypeOK, SharedCapacity, vars
  <2> QED BY <2>1, <2>2, <2>3, <2>4 DEF Next
<1> QED BY InitIInv, <1>1, PTL DEF Spec

\* Tokens never go below none or above the capacity, for any refill and drain.
THEOREM BucketsTyped == Spec => []TypeOK
  BY LimiterInductive, PTL DEF IInv

\* rate_limiter.go never lets more than its capacity of one address's requests
\* through between two pauses of a minute.
THEOREM CapacityKept == Spec => []AtMostCapacityPerMinute
<1>1. IInv => AtMostCapacityPerMinute
  <2>1. SUFFICES ASSUME IInv, NEW ip \in Addresses PROVE passed[ip] <= Capacity
    BY DEF AtMostCapacityPerMinute
  <2>2. /\ passed[ip] \in Nat
        /\ Capacity \in Nat
        /\ buckets[ip] # None => buckets[ip] \in Bucket
    BY <2>1, LimiterAssumption DEF IInv, TypeOK
  <2>3. CASE buckets[ip] = None
    BY <2>1, <2>2, <2>3 DEF IInv, SharedCapacity
  <2>4. CASE buckets[ip] # None
    BY <2>1, <2>2, <2>4 DEF IInv, SharedCapacity, Bucket
  <2> QED BY <2>3, <2>4
<1> QED BY LimiterInductive, <1>1, PTL
=============================================================================
