----------------------------- MODULE RateLimiter -----------------------------
(***************************************************************************)
(* The token buckets that bound how often one caller starts a stream: of a *)
(* chat, a diagnosis or a run (RateLimiter.allow behind                    *)
(* require_stream_rate_limit).  A bucket lives in one process; the         *)
(* dependency runs on its event loop, so a request takes its token in one  *)
(* step.  A token is Token units and a second brings `rpm` of them; the    *)
(* code's floats are exact here.                                           *)
(***************************************************************************)
EXTENDS Integers, Sequences, FiniteSets

CONSTANTS Senders,      \* requests' senders: records of a subject and a host
          LimitSettings,     \* the settings to consider: records of on, rpm and burst
          LastSecond,   \* bound: the clock
          MaxRequests,  \* bound: requests
          NoBucket

LocalDev == "local-dev"

ASSUME LimiterAssumption ==
  /\ LimitSettings \subseteq [on : BOOLEAN, rpm : Int, burst : Int]
  /\ NoBucket \notin [tokens : Nat, at : Nat]
  /\ LastSecond \in Nat /\ MaxRequests \in Nat

VARIABLES
  limit,     \* the settings of the process
  second,    \* the monotonic clock
  bucket,    \* key -> its tokens and when they were counted, or NoBucket
  requests   \* every request so far: its key, its time, the answer (history)

limiterVars == <<limit, second, bucket, requests>>

Token == 60

(* A key is a principal, or a host for everybody without one.              *)
KeyOf(c) == IF c.subject \notin {"", LocalDev} THEN c.subject ELSE c.host

Keys == {KeyOf(c) : c \in Senders}

AtLeastOne(n) == IF n < 1 THEN 1 ELSE n

Capacity == Token * AtLeastOne(limit.burst)
Refill(seconds) == AtLeastOne(limit.rpm) * seconds

LimiterInit ==
  /\ limit \in LimitSettings
  /\ second = 0
  /\ bucket = [k \in Keys |-> NoBucket]
  /\ requests = <<>>

(* Mutant: the bucket is filled again without its capacity.                *)
RefilledUncapped(b) == b.tokens + Refill(second - b.at)

Refilled(b) ==
  LET tokens == b.tokens + Refill(second - b.at)
  IN IF tokens > Capacity THEN Capacity ELSE tokens

Answered(k, served) ==
  requests' = Append(requests, [key |-> k, at |-> second, served |-> served])

(* With the limit off, every request passes and no bucket is looked at.    *)
PassUnlimited(c) ==
  /\ ~limit.on
  /\ Len(requests) < MaxRequests
  /\ Answered(KeyOf(c), TRUE)
  /\ UNCHANGED <<limit, second, bucket>>

(* A first request finds a full bucket.  A refused one takes nothing, but  *)
(* the tokens are counted anew.                                            *)
Request(c) ==
  LET k == KeyOf(c)
      tokens == IF bucket[k] = NoBucket THEN Capacity ELSE Refilled(bucket[k])
      served == tokens >= Token
  IN /\ limit.on
     /\ Len(requests) < MaxRequests
     /\ bucket' = [bucket EXCEPT
          ![k] = [tokens |-> IF served THEN tokens - Token ELSE tokens, at |-> second]]
     /\ Answered(k, served)
     /\ UNCHANGED <<limit, second>>

PassSecond ==
  /\ second < LastSecond
  /\ second' = second + 1
  /\ UNCHANGED <<limit, bucket, requests>>

LimiterNext == PassSecond \/ \E c \in Senders : Request(c) \/ PassUnlimited(c)

LimiterSpec == LimiterInit /\ [][LimiterNext]_limiterVars
----------------------------------------------------------------------------
LimiterTypeOK ==
  /\ limit \in LimitSettings
  /\ second \in 0 .. LastSecond
  /\ \A k \in Keys : bucket[k] # NoBucket =>
       bucket[k] \in [tokens : 0 .. Capacity, at : 0 .. second]

(* Between any two served requests of one key lie no more than the burst   *)
(* and what the time between them brings; and a request is refused only    *)
(* when one more would have been too many for some such span: the limit is *)
(* neither exceeded nor tighter than its settings say, whatever the others *)
(* send.                                                                   *)
RateIsExact ==
  limit.on => \A j \in DOMAIN requests :
    LET k == requests[j].key
        Spent(i) == Token * Cardinality({n \in i .. j - 1 : requests[n].key = k /\ requests[n].served})
        Allowed(i) == Capacity + Refill(requests[j].at - requests[i].at)
        before == {i \in 1 .. j : requests[i].key = k}
    IN IF requests[j].served
         THEN \A i \in before : Spent(i) + Token <= Allowed(i)
         ELSE \E i \in before : Spent(i) + Token > Allowed(i)
=============================================================================
