-------------------------- MODULE OperationsProofs --------------------------
(***************************************************************************)
(* Theorems about what surrounds the runs: RateLimiter, AgentOps,          *)
(* ToolCatalogue, DiagnosisSessions, DecisionRuntime, ProactiveMonitor,    *)
(* RunReports and ChatSessions, for any senders, runs, servers, loads,     *)
(* diagnoses, monitors, reports and exchanges, any settings and any        *)
(* bounds.  One module holds them, as MCOperations holds their runs; none  *)
(* depends on another.                                                     *)
(***************************************************************************)
EXTENDS RateLimiter, AgentOps, ToolCatalogue, DiagnosisSessions, DecisionRuntime,
        ProactiveMonitor, RunReports, OrderLemmas

(* Rate limits.                                                            *)

Rate == AtLeastOne(limit.rpm)
Entry == [key : Keys, at : Nat, served : BOOLEAN]
Buckets == [tokens : Nat, at : Nat]

(* The served requests of k among the i-th to the j-th of s.               *)
ServedIn(s, k, i, j) == {n \in i .. j : s[n].key = k /\ s[n].served}
SpentIn(s, k, i, j) == Token * Cardinality(ServedIn(s, k, i, j))

Of(s, k) == {i \in 1 .. Len(s) : s[i].key = k}

(* What a burst and a rate still allow k at time t, in the span that its   *)
(* i-th request begins.                                                    *)
Left(s, k, i, t, burst, rate) ==
  burst + rate * (t - s[i].at) - SpentIn(s, k, i, Len(s))

(* tokens is the least that any of these spans allows.                     *)
Least(s, k, t, tokens, burst, rate) ==
  /\ tokens <= burst
  /\ \A i \in Of(s, k) : s[i].at <= t /\ tokens <= Left(s, k, i, t, burst, rate)
  /\ \E i \in Of(s, k) : tokens = Left(s, k, i, t, burst, rate)

(* The answer to the j-th request is the one that burst and rate ask for.  *)
Fits(s, i, j, burst, rate) ==
  SpentIn(s, s[j].key, i, j - 1) + Token <= burst + rate * (s[j].at - s[i].at)

ExactAt(s, j, burst, rate) ==
  IF s[j].served THEN \A i \in 1 .. j : s[i].key = s[j].key => Fits(s, i, j, burst, rate)
  ELSE \E i \in 1 .. j : s[i].key = s[j].key /\ ~Fits(s, i, j, burst, rate)

LimiterTyped ==
  /\ limit \in LimitSettings
  /\ second \in 0 .. LastSecond
  /\ bucket \in [Keys -> Buckets \union {NoBucket}]
  /\ requests \in Seq(Entry)

BucketIsLeast(k) ==
  IF bucket[k] = NoBucket THEN Of(requests, k) = {}
  ELSE /\ bucket[k].at <= second
       /\ Least(requests, k, bucket[k].at, bucket[k].tokens, Capacity, Rate)

LimiterInv ==
  /\ LimiterTyped
  /\ \A k \in Keys : bucket[k] # NoBucket =>
       bucket[k].at <= second /\ bucket[k].tokens <= Capacity
  /\ limit.on => /\ \A k \in Keys : BucketIsLeast(k)
                 /\ \A j \in 1 .. Len(requests) : ExactAt(requests, j, Capacity, Rate)

LEMMA SettingsTyped ==
  ASSUME limit \in LimitSettings
  PROVE  Rate \in Nat \ {0} /\ Capacity \in Nat
  BY LimiterAssumption DEF Rate, AtLeastOne, Capacity, Token

LEMMA Distributes ==
  ASSUME NEW r \in Nat, NEW a \in Int, NEW b \in Int
  PROVE  r * (a + b) = r * a + r * b /\ r * a \in Int /\ r * 0 = 0
  OBVIOUS

LEMMA ProductTyped ==
  ASSUME NEW r \in Nat, NEW a \in Nat
  PROVE  r * a \in Nat
  OBVIOUS

LEMMA ServedCounted ==
  ASSUME NEW s \in Seq(Entry), NEW k, NEW i \in Int, NEW j \in Int
  PROVE  /\ IsFiniteSet(ServedIn(s, k, i, j))
         /\ Cardinality(ServedIn(s, k, i, j)) \in Nat
         /\ SpentIn(s, k, i, j) \in Nat
<1>1. IsFiniteSet(i .. j) /\ ServedIn(s, k, i, j) \in SUBSET (i .. j)
  BY FS_Interval DEF ServedIn
<1>2. IsFiniteSet(ServedIn(s, k, i, j)) /\ Cardinality(ServedIn(s, k, i, j)) \in Nat
  BY <1>1, FS_Subset, FS_CardinalityType
<1>. QED
  BY <1>2 DEF SpentIn, Token

LEMMA ServedAppended ==
  ASSUME NEW s \in Seq(Entry), NEW e \in Entry, NEW k, NEW i \in 1 .. Len(s) + 1
  PROVE  /\ \A j \in 0 .. Len(s) : SpentIn(Append(s, e), k, i, j) = SpentIn(s, k, i, j)
         /\ SpentIn(Append(s, e), k, i, Len(s) + 1) =
              SpentIn(s, k, i, Len(s)) + (IF e.key = k /\ e.served THEN Token ELSE 0)
         /\ SpentIn(s, k, Len(s) + 1, Len(s)) = 0
<1>. DEFINE a == Append(s, e)
            n == Len(s)
<1>1. /\ n \in Nat /\ a \in Seq(Entry) /\ a[n + 1] = e
      /\ \A m \in 1 .. n : a[m] = s[m]
  OBVIOUS
<1>2. \A j \in 0 .. n : ServedIn(a, k, i, j) = ServedIn(s, k, i, j)
  BY <1>1 DEF ServedIn
<1>. DEFINE grown == SpentIn(s, k, i, n) + (IF e.key = k /\ e.served THEN Token ELSE 0)
<1>3. ASSUME e.key = k /\ e.served
      PROVE  SpentIn(a, k, i, n + 1) = grown
  <2>1. ServedIn(a, k, i, n + 1) = ServedIn(s, k, i, n) \union {n + 1}
    BY <1>1, <1>3 DEF ServedIn
  <2>2. n + 1 \notin ServedIn(s, k, i, n)
    BY <1>1 DEF ServedIn
  <2>3. Cardinality(ServedIn(a, k, i, n + 1)) = Cardinality(ServedIn(s, k, i, n)) + 1
    <3>1. IsFiniteSet(ServedIn(s, k, i, n))
      BY <1>1, ServedCounted
    <3>. QED
      BY <2>1, <2>2, <3>1, FS_AddElement
  <2>4. Cardinality(ServedIn(s, k, i, n)) \in Nat
    BY <1>1, ServedCounted
  <2>5. SpentIn(a, k, i, n + 1) = SpentIn(s, k, i, n) + Token
    BY <2>3, <2>4 DEF SpentIn, Token
  <2>. QED
    BY <1>3, <2>5
<1>4. ASSUME ~(e.key = k /\ e.served)
      PROVE  SpentIn(a, k, i, n + 1) = grown
  <2>1. ServedIn(a, k, i, n + 1) = ServedIn(s, k, i, n)
    BY <1>1, <1>4 DEF ServedIn
  <2>2. SpentIn(a, k, i, n + 1) = SpentIn(s, k, i, n) + 0
    BY <1>1, <2>1, ServedCounted DEF SpentIn
  <2>. QED
    BY <1>4, <2>2
<1>5. SpentIn(s, k, n + 1, n) = 0
  <2>1. ServedIn(s, k, n + 1, n) = {}
    BY <1>1 DEF ServedIn
  <2>. QED
    BY <2>1, FS_EmptySet, 60 * 0 = 0 DEF SpentIn, Token
<1>6. \A j \in 0 .. n : SpentIn(a, k, i, j) = SpentIn(s, k, i, j)
  BY <1>2 DEF SpentIn
<1>. QED
  BY <1>3, <1>4, <1>5, <1>6

(* A bucket holds tokens when e asks: the first time all of them, later    *)
(* what the last request left it and the time since has brought.           *)
Refills(s, e, tokens, burst, rate) ==
  \/ Of(s, e.key) = {} /\ tokens = burst
  \/ \E u, x \in Nat :
       /\ u <= e.at /\ Least(s, e.key, u, x, burst, rate)
       /\ tokens = IF x + rate * (e.at - u) > burst THEN burst ELSE x + rate * (e.at - u)

(* What the i-th request's span allows e, of the requests before it.       *)
Room(s, e, i, burst, rate) ==
  burst + rate * (e.at - Append(s, e)[i].at) - SpentIn(s, e.key, i, Len(s))

(* The next request: what the spans allow at its time, its own included.   *)
LEMMA LeastRefilled ==
  ASSUME NEW s \in Seq(Entry), NEW e \in Entry, NEW burst \in Nat, NEW rate \in Nat,
         NEW tokens \in Nat, Refills(s, e, tokens, burst, rate)
  PROVE  /\ tokens <= burst
         /\ \A i \in Of(Append(s, e), e.key) :
              Append(s, e)[i].at <= e.at /\ tokens <= Room(s, e, i, burst, rate)
         /\ \E i \in Of(Append(s, e), e.key) : tokens = Room(s, e, i, burst, rate)
<1>. DEFINE k == e.key
            t == e.at
            n == Len(s)
            a == Append(s, e)
            Allowed(i) == burst + rate * (t - a[i].at) - SpentIn(s, k, i, n)
<1>1. /\ a \in Seq(Entry) /\ Len(a) = n + 1 /\ n \in Nat /\ a[n + 1] = e /\ t \in Nat
      /\ \A m \in 1 .. n : a[m] = s[m] /\ s[m] \in Entry
  <2>1. t \in Nat
    BY DEF Entry
  <2>. QED
    BY <2>1
<1>2. Of(a, k) = Of(s, k) \union {n + 1}
  BY <1>1 DEF Of
<1>3. a[n + 1].at = t /\ Allowed(n + 1) = burst
  <2>1. SpentIn(s, k, n + 1, n) = 0
    BY <1>1, ServedAppended
  <2>2. rate * (t - t) = 0
    BY <1>1
  <2>. QED
    BY <1>1, <2>1, <2>2
<1>4. ASSUME Of(s, k) = {} /\ tokens = burst
      PROVE  /\ tokens <= burst
             /\ \A i \in Of(a, k) : a[i].at <= t /\ tokens <= Allowed(i)
             /\ \E i \in Of(a, k) : tokens = Allowed(i)
  <2>. HIDE DEF Allowed, a
  <2>. QED
    BY <1>1, <1>2, <1>3, <1>4
<1>5. ASSUME NEW u \in Nat, NEW x \in Nat, u <= t, Least(s, k, u, x, burst, rate),
             tokens = IF x + rate * (t - u) > burst THEN burst ELSE x + rate * (t - u)
      PROVE  /\ tokens <= burst
             /\ \A i \in Of(a, k) : a[i].at <= t /\ tokens <= Allowed(i)
             /\ \E i \in Of(a, k) : tokens = Allowed(i)
  <2>. DEFINE more == rate * (t - u)
  <2>1. more \in Nat
    <3>1. t - u \in Nat
      BY <1>1, <1>5
    <3>. QED
      BY <3>1, ProductTyped
  <2>2. ASSUME NEW i \in Of(s, k)
        PROVE  /\ a[i].at <= t
               /\ Allowed(i) = Left(s, k, i, u, burst, rate) + more
               /\ Left(s, k, i, u, burst, rate) \in Int
    <3>1. i \in 1 .. n
      BY DEF Of
    <3>2. a[i] = s[i] /\ s[i].at \in Nat /\ s[i].at <= u
      BY <1>1, <1>5, <3>1 DEF Entry, Least
    <3>. DEFINE y == rate * (u - s[i].at)
                z == SpentIn(s, k, i, n)
    <3>3. z \in Nat
      BY <1>1, <3>1, ServedCounted
    <3>4. rate * ((u - s[i].at) + (t - u)) = y + more /\ y \in Int
      <4>1. u - s[i].at \in Int
        BY <3>2
      <4>2. t - u \in Int
        BY <1>1
      <4>. QED
        BY <4>1, <4>2, Distributes
    <3>5. (u - s[i].at) + (t - u) = t - s[i].at
      BY <1>1, <3>2
    <3>6. /\ Left(s, k, i, u, burst, rate) = burst + y - z
          /\ Allowed(i) = burst + (y + more) - z
      BY <3>2, <3>4, <3>5 DEF Left
    <3>7. y \in Int
      BY <3>4
    <3>8. a[i].at <= t
      BY <1>1, <1>5, <3>2
    <3>. HIDE DEF y, z, more, Allowed, a
    <3>. QED
      BY <2>1, <3>3, <3>6, <3>7, <3>8
  <2>. HIDE DEF Allowed, more, a
  <2>3. /\ \A i \in Of(s, k) : x <= Left(s, k, i, u, burst, rate)
        /\ \E i \in Of(s, k) : x = Left(s, k, i, u, burst, rate)
    BY <1>5 DEF Least
  <2>4. tokens = IF x + more > burst THEN burst ELSE x + more
    BY <1>5 DEF more
  <2>5. tokens <= burst /\ tokens <= x + more
    BY <2>1, <2>4
  <2>6. \A i \in Of(s, k) : a[i].at <= t /\ tokens <= Allowed(i)
    BY <1>5, <2>1, <2>2, <2>3, <2>5
  <2>7. \E i \in Of(a, k) : tokens = Allowed(i)
    <3>1. CASE tokens = burst
      BY <1>2, <1>3, <3>1
    <3>2. CASE tokens = x + more
      <4>1. PICK i \in Of(s, k) : x = Left(s, k, i, u, burst, rate)
        BY <2>3
      <4>2. tokens = Allowed(i)
        BY <2>2, <3>2, <4>1
      <4>. QED
        BY <1>2, <4>2
    <3>. QED
      BY <2>4, <3>1, <3>2
  <2>8. \A i \in Of(a, k) : a[i].at <= t /\ tokens <= Allowed(i)
    BY <1>1, <1>2, <1>3, <2>5, <2>6
  <2>. QED
    BY <2>5, <2>7, <2>8
<1>6. /\ tokens <= burst
      /\ \A i \in Of(a, k) : a[i].at <= t /\ tokens <= Allowed(i)
      /\ \E i \in Of(a, k) : tokens = Allowed(i)
  <2>. HIDE DEF Allowed, a
  <2>1. CASE \E u, x \in Nat :
               /\ u <= e.at /\ Least(s, e.key, u, x, burst, rate)
               /\ tokens = IF x + rate * (e.at - u) > burst THEN burst ELSE x + rate * (e.at - u)
    <3>1. PICK u, x \in Nat :
            /\ u <= e.at /\ Least(s, e.key, u, x, burst, rate)
            /\ tokens = IF x + rate * (e.at - u) > burst THEN burst ELSE x + rate * (e.at - u)
      BY <2>1
    <3>. QED
      BY <1>5, <3>1
  <2>. QED
    BY <1>4, <2>1 DEF Refills
<1>. QED
  BY <1>6 DEF Room

(* The answer the bucket gives is the exact one, and what it keeps is the  *)
(* least again.                                                            *)
LEMMA AnsweredExactly ==
  ASSUME NEW s \in Seq(Entry), NEW e \in Entry, NEW burst \in Nat, NEW rate \in Nat,
         NEW tokens \in Nat, Refills(s, e, tokens, burst, rate),
         e.served <=> tokens >= Token
  PROVE  /\ ExactAt(Append(s, e), Len(s) + 1, burst, rate)
         /\ Least(Append(s, e), e.key, e.at,
                  IF e.served THEN tokens - Token ELSE tokens, burst, rate)
<1>. DEFINE k == e.key
            t == e.at
            n == Len(s)
            a == Append(s, e)
            Spent(i) == SpentIn(s, k, i, n)
            Gain(i) == rate * (t - a[i].at)
            left == IF e.served THEN tokens - Token ELSE tokens
<1>1. /\ a \in Seq(Entry) /\ Len(a) = n + 1 /\ n \in Nat /\ a[n + 1] = e /\ t \in Nat
      /\ e.served \in BOOLEAN
      /\ \A m \in 1 .. n + 1 : a[m].at \in Nat
  <2>1. t \in Nat /\ e.served \in BOOLEAN
    BY DEF Entry
  <2>2. a \in Seq(Entry) /\ Len(a) = n + 1 /\ n \in Nat /\ a[n + 1] = e
    OBVIOUS
  <2>3. \A m \in 1 .. n + 1 : a[m] \in Entry
    BY <2>2
  <2>. QED
    BY <2>1, <2>2, <2>3 DEF Entry
<1>2. \A i \in Of(a, k) : i \in 1 .. n + 1 /\ a[i].key = k
  BY <1>1 DEF Of
<1>3. /\ tokens <= burst
      /\ \A i \in Of(a, k) : a[i].at <= t /\ tokens <= burst + Gain(i) - Spent(i)
      /\ \E i \in Of(a, k) : tokens = burst + Gain(i) - Spent(i)
  BY LeastRefilled DEF Room
<1>4. ASSUME NEW i \in Of(a, k)
      PROVE  /\ Gain(i) \in Int /\ Spent(i) \in Nat
             /\ SpentIn(a, k, i, n) = Spent(i)
             /\ SpentIn(a, k, i, n + 1) = Spent(i) + (IF e.served THEN Token ELSE 0)
  <2>1. i \in 1 .. n + 1
    BY <1>2
  <2>2. Spent(i) \in Nat
    BY <1>1, <2>1, ServedCounted
  <2>3. /\ SpentIn(a, k, i, n) = Spent(i)
        /\ SpentIn(a, k, i, n + 1) = Spent(i) + (IF e.served THEN Token ELSE 0)
    <3>1. n \in 0 .. n
      BY <1>1
    <3>. QED
      BY <2>1, <3>1, ServedAppended
  <2>4. t - a[i].at \in Int
    BY <1>1, <2>1
  <2>5. Gain(i) \in Int
    <3>. DEFINE d == t - a[i].at
    <3>1. d \in Int
      BY <2>4
    <3>. HIDE DEF d
    <3>2. rate * d \in Int
      BY <3>1
    <3>. QED
      BY <3>2 DEF d
  <2>. QED
    BY <2>2, <2>3, <2>5
<1>5. \A i \in Of(a, k) :
        /\ Left(a, k, i, t, burst, rate) =
             burst + Gain(i) - (Spent(i) + (IF e.served THEN Token ELSE 0))
        /\ Fits(a, i, n + 1, burst, rate) <=> Spent(i) + Token <= burst + Gain(i)
  <2>. TAKE i \in Of(a, k)
  <2>1. (n + 1) - 1 = n
    BY <1>1
  <2>2. /\ SpentIn(a, k, i, n) = Spent(i)
        /\ SpentIn(a, k, i, Len(a)) = Spent(i) + (IF e.served THEN Token ELSE 0)
    BY <1>1, <1>4
  <2>3. Left(a, k, i, t, burst, rate) = burst + Gain(i) - SpentIn(a, k, i, Len(a))
    BY DEF Left
  <2>4. Fits(a, i, n + 1, burst, rate) <=> SpentIn(a, k, i, n) + Token <= burst + Gain(i)
    BY <1>1, <2>1 DEF Fits
  <2>. QED
    BY <2>2, <2>3, <2>4
<1>6. ExactAt(a, n + 1, burst, rate)
  <2>. HIDE DEF Spent, Gain, a
  <2>1. CASE e.served
    <3>1. \A i \in Of(a, k) : Spent(i) + Token <= burst + Gain(i)
      BY <1>3, <1>4, <2>1 DEF Token
    <3>2. \A i \in 1 .. n + 1 : a[i].key = k => Fits(a, i, n + 1, burst, rate)
      BY <1>1, <1>5, <3>1 DEF Of
    <3>. QED
      BY <1>1, <2>1, <3>2 DEF ExactAt
  <2>2. CASE ~e.served
    <3>1. PICK i \in Of(a, k) : tokens = burst + Gain(i) - Spent(i)
      BY <1>3
    <3>2. ~(Spent(i) + Token <= burst + Gain(i))
      BY <1>4, <2>2, <3>1 DEF Token
    <3>3. \E m \in 1 .. n + 1 : a[m].key = k /\ ~Fits(a, m, n + 1, burst, rate)
      BY <1>2, <1>5, <3>2
    <3>. QED
      BY <1>1, <2>2, <3>3 DEF ExactAt
  <2>. QED
    BY <1>1, <2>1, <2>2
<1>7. Least(a, k, t, left, burst, rate)
  <2>. HIDE DEF Spent, Gain, a
  <2>1. left <= burst
    BY <1>1, <1>3 DEF Token
  <2>2. \A i \in Of(a, k) : a[i].at <= t /\ left <= Left(a, k, i, t, burst, rate)
    <3>. TAKE i \in Of(a, k)
    <3>1. a[i].at <= t /\ tokens <= burst + Gain(i) - Spent(i)
      BY <1>3
    <3>2. Left(a, k, i, t, burst, rate) =
            burst + Gain(i) - (Spent(i) + (IF e.served THEN Token ELSE 0))
      BY <1>5
    <3>3. Gain(i) \in Int /\ Spent(i) \in Nat
      BY <1>4
    <3>. QED
      BY <1>1, <3>1, <3>2, <3>3 DEF Token
  <2>3. \E i \in Of(a, k) : left = Left(a, k, i, t, burst, rate)
    <3>1. PICK i \in Of(a, k) : tokens = burst + Gain(i) - Spent(i)
      BY <1>3
    <3>2. left = Left(a, k, i, t, burst, rate)
      BY <1>1, <1>4, <1>5, <3>1 DEF Token
    <3>. QED
      BY <3>2
  <2>. QED
    BY <2>1, <2>2, <2>3 DEF Least
<1>. QED
  BY <1>6, <1>7

(* Earlier answers, and the other keys' buckets, do not see the request.   *)
LEMMA EarlierAnswers ==
  ASSUME NEW s \in Seq(Entry), NEW e \in Entry, NEW burst \in Nat, NEW rate \in Nat,
         NEW j \in 1 .. Len(s), ExactAt(s, j, burst, rate)
  PROVE  ExactAt(Append(s, e), j, burst, rate)
<1>. DEFINE a == Append(s, e)
<1>1. \A m \in 1 .. Len(s) : a[m] = s[m]
  OBVIOUS
<1>2. \A i \in 1 .. j : Fits(a, i, j, burst, rate) <=> Fits(s, i, j, burst, rate)
  <2>. TAKE i \in 1 .. j
  <2>1. i \in 1 .. Len(s) + 1 /\ i \in 1 .. Len(s) /\ j - 1 \in 0 .. Len(s)
    OBVIOUS
  <2>2. SpentIn(a, s[j].key, i, j - 1) = SpentIn(s, s[j].key, i, j - 1)
    BY <2>1, ServedAppended
  <2>3. a[i] = s[i] /\ a[j] = s[j]
    BY <1>1, <2>1
  <2>. HIDE DEF a
  <2>. QED
    BY <2>2, <2>3 DEF Fits
<1>3. /\ a[j] = s[j]
      /\ \A i \in 1 .. j : a[i] = s[i]
  BY <1>1
<1>. HIDE DEF a
<1>4. ExactAt(a, j, burst, rate)
  BY <1>2, <1>3 DEF ExactAt
<1>. QED
  BY <1>4 DEF a

LEMMA OtherBuckets ==
  ASSUME NEW s \in Seq(Entry), NEW e \in Entry, NEW k, k # e.key,
         NEW burst \in Nat, NEW rate \in Nat, NEW u \in Nat, NEW x \in Nat
  PROVE  /\ Of(Append(s, e), k) = Of(s, k)
         /\ Least(s, k, u, x, burst, rate) => Least(Append(s, e), k, u, x, burst, rate)
<1>. DEFINE a == Append(s, e)
            n == Len(s)
<1>1. /\ n \in Nat /\ Len(a) = n + 1 /\ a[n + 1] = e
      /\ \A m \in 1 .. n : a[m] = s[m]
  OBVIOUS
<1>2. Of(a, k) = Of(s, k)
  BY <1>1 DEF Of
<1>3. \A i \in Of(s, k) :
        /\ a[i] = s[i]
        /\ Left(a, k, i, u, burst, rate) = Left(s, k, i, u, burst, rate)
  <2>. TAKE i \in Of(s, k)
  <2>1. i \in 1 .. n /\ i \in 1 .. n + 1
    BY <1>1 DEF Of
  <2>2. a[i] = s[i]
    BY <1>1, <2>1
  <2>3. SpentIn(a, k, i, n + 1) = SpentIn(s, k, i, n)
    <3>1. SpentIn(a, k, i, n + 1) = SpentIn(s, k, i, n) + 0
      BY <2>1, ServedAppended
    <3>2. SpentIn(s, k, i, n) \in Nat
      BY <2>1, ServedCounted
    <3>. QED
      BY <3>1, <3>2
  <2>. HIDE DEF a
  <2>. QED
    BY <1>1, <2>2, <2>3 DEF Left
<1>. HIDE DEF a
<1>4. Least(s, k, u, x, burst, rate) => Least(a, k, u, x, burst, rate)
  BY <1>2, <1>3 DEF Least
<1>. QED
  BY <1>2, <1>4 DEF a
----------------------------------------------------------------------------
(* The limiter, step by step.                                              *)

LEMMA KeysOfSenders ==
  ASSUME NEW c \in Senders
  PROVE  KeyOf(c) \in Keys
  BY DEF Keys

LEMMA LimiterInvInitially ==
  ASSUME LimiterInit
  PROVE  LimiterInv
<1>1. LimiterTyped
  BY LimiterAssumption DEF LimiterInit, LimiterTyped
<1>2. \A k \in Keys : bucket[k] = NoBucket
  BY DEF LimiterInit
<1>3. requests = <<>> /\ Len(requests) = 0 /\ 1 .. 0 = {}
  BY DEF LimiterInit
<1>4. \A k \in Keys : Of(requests, k) = {}
  BY <1>3 DEF Of
<1>. QED
  BY <1>1, <1>2, <1>3, <1>4 DEF LimiterInv, BucketIsLeast

(* What a request finds in its bucket, and the entry that it leaves.       *)
Found(k) == IF bucket[k] = NoBucket THEN Capacity ELSE Refilled(bucket[k])
Asked(k) == [key |-> k, at |-> second, served |-> Found(k) >= Token]

LEMMA RequestRefills ==
  ASSUME LimiterInv, limit.on, NEW k \in Keys
  PROVE  /\ Found(k) \in Nat /\ Found(k) <= Capacity
         /\ Asked(k) \in Entry
         /\ Refills(requests, Asked(k), Found(k), Capacity, Rate)
<1>1. /\ Capacity \in Nat /\ Rate \in Nat /\ second \in Nat
      /\ bucket[k] \in Buckets \union {NoBucket} /\ BucketIsLeast(k)
      /\ bucket[k] # NoBucket => bucket[k].at <= second /\ bucket[k].tokens <= Capacity
  BY SettingsTyped, LimiterAssumption DEF LimiterInv, LimiterTyped
<1>2. Asked(k) \in Entry /\ Asked(k).key = k /\ Asked(k).at = second
  BY <1>1 DEF Asked, Entry
<1>3. ASSUME bucket[k] = NoBucket
      PROVE  Found(k) = Capacity /\ Refills(requests, Asked(k), Found(k), Capacity, Rate)
  <2>1. Of(requests, k) = {}
    BY <1>1, <1>3 DEF BucketIsLeast
  <2>. QED
    BY <1>2, <1>3, <2>1 DEF Found, Refills
<1>4. ASSUME bucket[k] # NoBucket
      PROVE  /\ Found(k) \in Nat /\ Found(k) <= Capacity
             /\ Refills(requests, Asked(k), Found(k), Capacity, Rate)
  <2>. DEFINE u == bucket[k].at
              x == bucket[k].tokens
              more == Rate * (second - u)
  <2>1. u \in Nat /\ x \in Nat /\ u <= second /\ second - u \in Nat
    BY <1>1, <1>4 DEF Buckets
  <2>2. more \in Nat
    BY <1>1, <2>1, ProductTyped
  <2>3. Least(requests, k, u, x, Capacity, Rate)
    BY <1>1, <1>4 DEF BucketIsLeast
  <2>4. Found(k) = IF x + more > Capacity THEN Capacity ELSE x + more
    BY <1>4 DEF Found, Refilled, Refill, Rate
  <2>5. Found(k) \in Nat /\ Found(k) <= Capacity
    <3>. HIDE DEF more
    <3>. QED
      BY <1>1, <2>1, <2>2, <2>4
  <2>6. \E v, y \in Nat :
          /\ v <= Asked(k).at /\ Least(requests, Asked(k).key, v, y, Capacity, Rate)
          /\ Found(k) = IF y + Rate * (Asked(k).at - v) > Capacity THEN Capacity
                        ELSE y + Rate * (Asked(k).at - v)
    <3>1. /\ u <= Asked(k).at /\ Least(requests, Asked(k).key, u, x, Capacity, Rate)
          /\ Found(k) = IF x + Rate * (Asked(k).at - u) > Capacity THEN Capacity
                        ELSE x + Rate * (Asked(k).at - u)
      BY <1>2, <2>1, <2>3, <2>4
    <3>. QED
      BY <2>1, <3>1
  <2>. QED
    BY <2>5, <2>6 DEF Refills
<1>. QED
  BY <1>1, <1>2, <1>3, <1>4

LEMMA RequestKeepsLimiterInv ==
  ASSUME LimiterInv, NEW c \in Senders, Request(c)
  PROVE  LimiterInv'
<1>. DEFINE k == KeyOf(c)
            e == Asked(k)
            t == Found(k)
            rest == IF e.served THEN t - Token ELSE t
<1>1. /\ k \in Keys /\ limit.on /\ limit \in LimitSettings /\ second \in 0 .. LastSecond
      /\ bucket \in [Keys -> Buckets \union {NoBucket}] /\ requests \in Seq(Entry)
      /\ Capacity \in Nat /\ Rate \in Nat
  BY KeysOfSenders, SettingsTyped DEF Request, LimiterInv, LimiterTyped
<1>2. /\ t \in Nat /\ t <= Capacity /\ e \in Entry
      /\ Refills(requests, e, t, Capacity, Rate)
  BY <1>1, RequestRefills
<1>3. e.key = k /\ e.at = second /\ (e.served <=> t >= Token)
  BY DEF Asked
<1>4. /\ bucket' = [bucket EXCEPT ![k] = [tokens |-> rest, at |-> second]]
      /\ requests' = Append(requests, e)
      /\ limit' = limit /\ second' = second /\ Capacity' = Capacity /\ Rate' = Rate
  BY <1>3 DEF Request, Answered, Found, Asked, Capacity, Rate
<1>5. rest \in Nat /\ rest <= Capacity /\ [tokens |-> rest, at |-> second] \in Buckets
  <2>1. rest \in Nat /\ rest <= Capacity
    BY <1>1, <1>2, <1>3 DEF Token
  <2>2. second \in Nat
    BY <1>1, LimiterAssumption
  <2>. QED
    BY <2>1, <2>2 DEF Buckets
<1>6. /\ ExactAt(Append(requests, e), Len(requests) + 1, Capacity, Rate)
      /\ Least(Append(requests, e), k, second, rest, Capacity, Rate)
  BY <1>1, <1>2, <1>3, AnsweredExactly
<1>. HIDE DEF k, e, t, rest
<1>7. LimiterTyped'
  BY <1>1, <1>2, <1>4, <1>5 DEF LimiterTyped
<1>8. /\ bucket'[k] = [tokens |-> rest, at |-> second]
      /\ bucket'[k] # NoBucket
      /\ \A o \in Keys : o # k => bucket'[o] = bucket[o]
  BY <1>1, <1>4, <1>5, LimiterAssumption DEF Buckets
<1>9. \A o \in Keys : bucket'[o] # NoBucket =>
        bucket'[o].at <= second' /\ bucket'[o].tokens <= Capacity'
  <2>. TAKE o \in Keys
  <2>1. CASE o = k
    <3>1. bucket'[o].at = second /\ bucket'[o].tokens = rest /\ second <= second
      BY <1>1, <1>8, <2>1
    <3>. QED
      BY <1>4, <1>5, <3>1
  <2>2. CASE o # k
    BY <1>4, <1>8, <2>2 DEF LimiterInv
  <2>. QED
    BY <2>1, <2>2
<1>10. \A o \in Keys : BucketIsLeast(o)'
  <2>. TAKE o \in Keys
  <2>1. CASE o = k
    <3>1. bucket'[o].at = second /\ bucket'[o].tokens = rest /\ second <= second
      BY <1>1, <1>8, <2>1
    <3>. QED
      BY <1>4, <1>6, <1>8, <2>1, <3>1 DEF BucketIsLeast
  <2>2. CASE o # k
    <3>1. BucketIsLeast(o)
      BY <1>1 DEF LimiterInv
    <3>2. /\ Of(Append(requests, e), o) = Of(requests, o)
          /\ \A u, x \in Nat : Least(requests, o, u, x, Capacity, Rate)
               => Least(Append(requests, e), o, u, x, Capacity, Rate)
      BY <1>1, <1>2, <1>3, <2>2, OtherBuckets DEF k
    <3>3. bucket[o] # NoBucket => bucket[o].at \in Nat /\ bucket[o].tokens \in Nat
      BY <1>1 DEF Buckets
    <3>. QED
      BY <1>4, <1>8, <2>2, <3>1, <3>2, <3>3 DEF BucketIsLeast
  <2>. QED
    BY <2>1, <2>2
<1>11. \A j \in 1 .. Len(requests') : ExactAt(requests', j, Capacity, Rate)
  <2>1. \A j \in 1 .. Len(requests) : ExactAt(Append(requests, e), j, Capacity, Rate)
    <3>. TAKE j \in 1 .. Len(requests)
    <3>1. ExactAt(requests, j, Capacity, Rate)
      BY <1>1 DEF LimiterInv
    <3>. QED
      BY <1>1, <1>2, <3>1, EarlierAnswers
  <2>2. Len(requests') = Len(requests) + 1 /\ Len(requests) \in Nat
    BY <1>1, <1>2, <1>4
  <2>3. \A j \in 1 .. Len(requests') : j \in 1 .. Len(requests) \/ j = Len(requests) + 1
    BY <2>2
  <2>. QED
    BY <1>4, <1>6, <2>1, <2>3
<1>12. \A j \in 1 .. Len(requests') : ExactAt(requests', j, Capacity', Rate')
  BY <1>4, <1>11
<1>. QED
  BY <1>7, <1>9, <1>10, <1>12 DEF LimiterInv

LEMMA PassUnlimitedKeepsLimiterInv ==
  ASSUME LimiterInv, NEW c \in Senders, PassUnlimited(c)
  PROVE  LimiterInv'
<1>1. /\ ~limit.on /\ limit' = limit /\ second' = second /\ bucket' = bucket
      /\ requests' = Append(requests, [key |-> KeyOf(c), at |-> second, served |-> TRUE])
      /\ Capacity' = Capacity
  BY DEF PassUnlimited, Answered, Capacity
<1>2. [key |-> KeyOf(c), at |-> second, served |-> TRUE] \in Entry
  BY KeysOfSenders, LimiterAssumption DEF LimiterInv, LimiterTyped, Entry
<1>3. LimiterTyped'
  BY <1>1, <1>2 DEF LimiterInv, LimiterTyped
<1>. QED
  BY <1>1, <1>3 DEF LimiterInv

LEMMA PassSecondKeepsLimiterInv ==
  ASSUME LimiterInv, PassSecond
  PROVE  LimiterInv'
<1>1. /\ limit' = limit /\ second' = second + 1 /\ bucket' = bucket /\ requests' = requests
      /\ Capacity' = Capacity /\ Rate' = Rate /\ second < LastSecond
  BY DEF PassSecond, Capacity, Rate
<1>2. LimiterTyped'
  BY <1>1, LimiterAssumption DEF LimiterInv, LimiterTyped
<1>3. \A k \in Keys : bucket[k] # NoBucket => bucket[k].at \in Nat /\ bucket[k].at <= second
  BY DEF LimiterInv, LimiterTyped, Buckets
<1>4. \A k \in Keys : bucket[k] # NoBucket => bucket[k].at <= second + 1
  BY <1>3, LimiterAssumption DEF LimiterInv, LimiterTyped
<1>5. \A k \in Keys : BucketIsLeast(k) => BucketIsLeast(k)'
  BY <1>1, <1>4 DEF BucketIsLeast
<1>. QED
  BY <1>1, <1>2, <1>4, <1>5 DEF LimiterInv

LEMMA LimiterInvStutters ==
  ASSUME LimiterInv, UNCHANGED limiterVars
  PROVE  LimiterInv'
  BY DEF limiterVars, LimiterInv, LimiterTyped, BucketIsLeast, Capacity, Rate

LEMMA LimiterInvAlways == LimiterSpec => []LimiterInv
<1>1. LimiterInit => LimiterInv
  BY LimiterInvInitially
<1>2. LimiterInv /\ [LimiterNext]_limiterVars => LimiterInv'
  BY RequestKeepsLimiterInv, PassUnlimitedKeepsLimiterInv, PassSecondKeepsLimiterInv,
     LimiterInvStutters DEF LimiterNext
<1>. QED
  BY <1>1, <1>2, PTL DEF LimiterSpec

(* The variables of the limiter keep their types.                          *)
THEOREM LimiterTypesHold == LimiterSpec => []LimiterTypeOK
<1>1. LimiterInv => LimiterTypeOK
  <2>. SUFFICES ASSUME LimiterInv PROVE LimiterTypeOK
    OBVIOUS
  <2>1. second \in Nat /\ Capacity \in Nat
    BY SettingsTyped, LimiterAssumption DEF LimiterInv, LimiterTyped
  <2>2. \A k \in Keys : bucket[k] # NoBucket =>
          bucket[k] \in [tokens : 0 .. Capacity, at : 0 .. second]
    BY <2>1 DEF LimiterInv, LimiterTyped, Buckets
  <2>. QED
    BY <2>2 DEF LimiterInv, LimiterTyped, LimiterTypeOK
<1>. QED
  BY <1>1, LimiterInvAlways, PTL

(* RateLimiter.allow grants a key no more than its burst and what the time *)
(* brings, over every span, and refuses only what would have been more.    *)
THEOREM RateIsExactHolds == LimiterSpec => []RateIsExact
<1>1. LimiterInv => RateIsExact
  <2>. SUFFICES ASSUME LimiterInv, limit.on, NEW j \in DOMAIN requests
                PROVE  LET k == requests[j].key
                           Spent(i) ==
                               Token * Cardinality({n \in i .. j - 1 :
                                                       requests[n].key = k /\ requests[n].served})
                           Allowed(i) == Capacity + Refill(requests[j].at - requests[i].at)
                           before == {i \in 1 .. j : requests[i].key = k}
                       IN IF requests[j].served
                            THEN \A i \in before : Spent(i) + Token <= Allowed(i)
                            ELSE \E i \in before : Spent(i) + Token > Allowed(i)
    BY DEF RateIsExact
  <2>. DEFINE k == requests[j].key
              Spent(i) ==
                  Token * Cardinality({n \in i .. j - 1 :
                                          requests[n].key = k /\ requests[n].served})
              Allowed(i) == Capacity + Refill(requests[j].at - requests[i].at)
              before == {i \in 1 .. j : requests[i].key = k}
  <2>1. j \in 1 .. Len(requests) /\ requests \in Seq(Entry) /\ Capacity \in Nat /\ Rate \in Nat
    BY SettingsTyped DEF LimiterInv, LimiterTyped
  <2>2. ExactAt(requests, j, Capacity, Rate)
    BY <2>1 DEF LimiterInv
  <2>3. \A i \in 1 .. j : /\ Spent(i) = SpentIn(requests, k, i, j - 1)
                          /\ Allowed(i) = Capacity + Rate * (requests[j].at - requests[i].at)
    BY DEF SpentIn, ServedIn, Refill, Rate
  <2>4. \A i \in 1 .. j : Spent(i) \in Nat /\ Allowed(i) \in Int
    <3>. TAKE i \in 1 .. j
    <3>1. Spent(i) \in Nat
      <4>1. i \in Int /\ j - 1 \in Int
        BY <2>1
      <4>2. SpentIn(requests, k, i, j - 1) \in Nat
        BY <2>1, <4>1, ServedCounted
      <4>. QED
        BY <2>3, <4>2
    <3>2. requests[j].at - requests[i].at \in Int
      <4>1. i \in 1 .. Len(requests)
        BY <2>1
      <4>2. requests[i] \in Entry /\ requests[j] \in Entry
        BY <2>1, <4>1
      <4>. QED
        BY <4>2 DEF Entry
    <3>. DEFINE d == requests[j].at - requests[i].at
    <3>3. d \in Int
      BY <3>2
    <3>4. Allowed(i) = Capacity + Rate * d
      BY <2>3
    <3>. HIDE DEF d, Allowed, Spent
    <3>5. Rate * d \in Int
      BY <2>1, <3>3
    <3>6. Capacity + Rate * d \in Int
      BY <2>1, <3>5
    <3>. QED
      BY <3>1, <3>4, <3>6
  <2>5. \A i \in 1 .. j : Fits(requests, i, j, Capacity, Rate) <=> Spent(i) + Token <= Allowed(i)
    BY <2>3 DEF Fits
  <2>. HIDE DEF Spent, Allowed
  <2>6. \A i \in 1 .. j : ~Fits(requests, i, j, Capacity, Rate) => Spent(i) + Token > Allowed(i)
    BY <2>4, <2>5 DEF Token
  <2>7. CASE requests[j].served
    <3>1. \A i \in before : Spent(i) + Token <= Allowed(i)
      BY <2>2, <2>5, <2>7 DEF ExactAt
    <3>. QED
      BY <2>7, <3>1 DEF Spent, Allowed
  <2>8. CASE ~requests[j].served
    <3>1. \E i \in before : Spent(i) + Token > Allowed(i)
      BY <2>2, <2>6, <2>8 DEF ExactAt
    <3>. QED
      BY <2>8, <3>1 DEF Spent, Allowed
  <2>. QED
    BY <2>7, <2>8
<1>. QED
  BY <1>1, LimiterInvAlways, PTL
----------------------------------------------------------------------------
(* Metrics and the release gate.                                           *)

RunSteps == {"running", "told", "collecting", "over"} \union SettledStatuses
Deciders == {"none", "resuming", "handing", "deciding", "noted"}

OpsTyped ==
  /\ rstatus \in [Runs -> {"running"} \union SettledStatuses]
  /\ columns \in [Runs -> {NoColumns}]
  /\ rlog \in [Runs -> [EventKinds -> Nat]]
  /\ rtext \in [Runs -> Texts]
  /\ rstep \in [Runs -> RunSteps]
  /\ decider \in [Runs -> Deciders]
  /\ resumable \subseteq Runs /\ executing \in [Runs -> Nat]

(* Whoever decides notes a resumption with its text, a result is of one    *)
(* that had the text as well, and no approver's hand-off is noted without  *)
(* a decision.                                                             *)
LogHolds(log, text) ==
  /\ log["approval_resume"] + log["approval_resumed_tool_result"] > 0 => "unchecked" \in text
  /\ log["operator_handoff"] > 0 => log["approval_decision"] > 0

(* A run that did not stop by itself for a human, and no longer can.       *)
Unasked(r) == rlog[r]["approval_required"] = 0 /\ rlog[r]["handoff"] = 0
WentThrough(r) ==
  Unasked(r) /\ rstep[r] \notin {"running", "waiting_approval", "handoff_required"}

LogInv(r) ==
  /\ LogHolds(rlog[r], rtext[r])
  /\ executing[r] > 0 => "unchecked" \in rtext[r]
  /\ decider[r] \in {"handing", "deciding", "noted"} => rlog[r]["approval_decision"] > 0
  /\ rstep[r] = "running" => Unasked(r)
  /\ rstatus[r] = "completed" => WentThrough(r)

Listing ==
  listed # NoView =>
    /\ DOMAIN listed \subseteq Runs
    /\ \A r \in DOMAIN listed : listed[r].columns = NoColumns /\ WentThrough(r)

(* What a reader has read was so then, and the log has only grown since.   *)
Reading(r) ==
  /\ rowRead[r] # NoView => /\ rowRead[r].columns = NoColumns
                            /\ rowRead[r].status = "completed" => WentThrough(r)
  /\ logRead[r] # NoView =>
       /\ rowRead[r] # NoView
       /\ logRead[r].events \in [EventKinds -> Nat]
       /\ \A k \in EventKinds : logRead[r].events[k] <= rlog[r][k]
       /\ LogHolds(logRead[r].events, logRead[r].text)

OpsInv ==
  /\ OpsTyped
  /\ DOMAIN rowRead = Runs /\ DOMAIN logRead = Runs
  /\ Listing
  /\ \A r \in Runs : LogInv(r) /\ Reading(r)

LEMMA KindsListed ==
  /\ Progress \subseteq EventKinds /\ Ends \subseteq EventKinds
  /\ {"approval_decision", "approval_resume", "operator_handoff", "decision",
      "evaluated_resume", "approval_resumed_tool_result", "approval_required",
      "handoff"} \subseteq EventKinds
  /\ {"approval_decision", "approval_resume", "operator_handoff", "evaluated_resume",
      "approval_resumed_tool_result", "approval_required", "handoff"} \intersect Progress = {}
  BY AgentOpsAssumption DEF EventKinds, Ends

(* One more event in a log, of a kind that may be any in kinds.            *)
LEMMA LogStep ==
  ASSUME OpsTyped, NEW r \in Runs, NEW k \in EventKinds, Log(r, k)
  PROVE  /\ rlog' \in [Runs -> [EventKinds -> Nat]]
         /\ \A o \in Runs : o # r => rlog'[o] = rlog[o]
         /\ \A x \in EventKinds : rlog'[r][x] = IF x = k THEN rlog[r][x] + 1 ELSE rlog[r][x]
  BY DEF Log, OpsTyped

LEMMA TextStep ==
  ASSUME OpsTyped, NEW r \in Runs, NEW what \in Texts, Leave(r, what)
  PROVE  /\ rtext' \in [Runs -> Texts]
         /\ \A o \in Runs : rtext[o] \subseteq rtext'[o]
         /\ rtext'[r] = rtext[r] \union what
  BY DEF Leave, OpsTyped, Texts

LEMMA TellsAnEvent ==
  ASSUME NEW r \in Runs, TellRun(r)
  PROVE  \E k \in EventKinds :
           /\ Log(r, k)
           /\ k \notin {"approval_decision", "approval_resume", "operator_handoff",
                         "approval_resumed_tool_result"}
           /\ k = "approval_required" => rstep[r] = "waiting_approval"
           /\ k = "handoff" => rstep[r] = "handoff_required"
<1>1. PICK k \in OutcomeOf(rstep[r]) : Log(r, k)
  BY DEF TellRun
<1>2. rstep[r] \in SettledStatuses
  BY DEF TellRun
<1>3. k \in Ends /\ (k = "approval_required" => rstep[r] = "waiting_approval")
      /\ (k = "handoff" => rstep[r] = "handoff_required")
  BY <1>2 DEF OutcomeOf, SettledStatuses, Ends
<1>. QED
  BY <1>1, <1>3, KindsListed DEF Ends

LEMMA OpsTypedKept ==
  ASSUME OpsTyped, [AgentOpsNext]_opsVars
  PROVE  OpsTyped'
<1>. USE DEF RunSteps, Deciders, SettledStatuses, approverVars
<1>1. ASSUME NEW r \in Runs, NEW k \in Progress, AppendProgress(r, k) PROVE OpsTyped'
  BY <1>1, KindsListed, LogStep DEF AppendProgress, OpsTyped
<1>2. ASSUME NEW r \in Runs, NEW s \in SettledStatuses, SettleRun(r, s) PROVE OpsTyped'
  BY <1>2 DEF SettleRun, Leave, Texts, OpsTyped
<1>3. ASSUME NEW r \in Runs, TellRun(r) PROVE OpsTyped'
  BY <1>3, TellsAnEvent, LogStep DEF TellRun, OpsTyped
<1>4. ASSUME NEW r \in Runs, DecideRun(r) PROVE OpsTyped'
  BY <1>4, KindsListed, LogStep DEF DecideRun, OpsTyped
<1>5. ASSUME NEW r \in Runs, ResumeRun(r) PROVE OpsTyped'
  BY <1>5, KindsListed, LogStep DEF ResumeRun, Leave, Texts, OpsTyped
<1>13. ASSUME NEW r \in Runs, EvaluateResume(r) PROVE OpsTyped'
  <2>1. rtext' \in [Runs -> Texts]
    BY <1>13 DEF EvaluateResume, Leave, Texts, OpsTyped
  <2>2. executing' \in [Runs -> Nat]
    BY <1>13 DEF EvaluateResume, OpsTyped
  <2>. QED
    BY <1>13, <2>1, <2>2, KindsListed, LogStep DEF EvaluateResume, OpsTyped
<1>14. ASSUME NEW r \in Runs, NoteResumedResult(r) PROVE OpsTyped'
  BY <1>14, KindsListed, LogStep DEF NoteResumedResult, OpsTyped
<1>6. ASSUME NEW r \in Runs, NoteHandoff(r) PROVE OpsTyped'
  BY <1>6, KindsListed, LogStep DEF NoteHandoff, OpsTyped
<1>7. ASSUME NEW r \in Runs, HandOverRun(r) PROVE OpsTyped'
  BY <1>7 DEF HandOverRun, Leave, Texts, OpsTyped
<1>8. ASSUME NEW r \in Runs, RunnerDies(r) \/ DeciderDies(r) \/ CollectMetrics(r) PROVE OpsTyped'
  BY <1>8 DEF RunnerDies, DeciderDies, CollectMetrics, OpsTyped
<1>9. ASSUME NEW r \in Runs, UpdateRunMetrics(r) PROVE OpsTyped'
  <2>1. ~(Offered \subseteq Accepted)
    BY DEF Offered, Accepted
  <2>2. columns' = [columns EXCEPT ![r] = columns[r]]
    BY <1>9, <2>1 DEF UpdateRunMetrics
  <2>. QED
    BY <1>9, <2>2 DEF UpdateRunMetrics, OpsTyped
<1>10. ASSUME NEW r \in Runs, ReadRun(r) \/ ReadLog(r) PROVE OpsTyped'
  BY <1>10 DEF ReadRun, ReadLog, OpsTyped
<1>11. CASE ListRuns
  BY <1>11 DEF ListRuns, OpsTyped
<1>12. CASE UNCHANGED opsVars
  BY <1>12 DEF opsVars, OpsTyped
<1>. QED
  BY <1>1, <1>2, <1>3, <1>4, <1>5, <1>6, <1>7, <1>8, <1>9, <1>10, <1>11, <1>12, <1>13, <1>14
     DEF AgentOpsNext

(* What a step does to the history of a run.                               *)
RunKept(o) ==
  /\ LogInv(o)'
  /\ WentThrough(o) => WentThrough(o)'
  /\ \A k \in EventKinds : rlog[o][k] <= rlog'[o][k]

LEMMA OtherRunKept ==
  ASSUME OpsTyped, NEW o \in Runs, LogInv(o),
         rlog'[o] = rlog[o], rtext[o] \subseteq rtext'[o], rstatus'[o] = rstatus[o],
         rstep'[o] = rstep[o], decider'[o] = decider[o], executing'[o] = executing[o]
  PROVE  RunKept(o)
  BY DEF OpsTyped, RunKept, LogInv, LogHolds, WentThrough, Unasked

LEMMA LogKept ==
  ASSUME OpsTyped, \A o \in Runs : LogInv(o), [AgentOpsNext]_opsVars
  PROVE  \A o \in Runs : RunKept(o)
<1>. USE DEF RunSteps, Deciders, SettledStatuses, approverVars
<1>1. ASSUME NEW r \in Runs, NEW k \in EventKinds, Log(r, k),
             UNCHANGED <<rtext, rstatus, executing>>,
             k \notin {"approval_resume", "operator_handoff", "approval_resumed_tool_result"},
             k = "approval_required" => rstep[r] = "waiting_approval",
             k = "handoff" => rstep[r] = "handoff_required",
             \/ rstep' = rstep /\ k \notin {"approval_required", "handoff"}
             \/ rstep' = [rstep EXCEPT ![r] = "told"] /\ rstep[r] # "running",
             \/ decider' = decider
             \/ \E d \in Deciders : decider' = [decider EXCEPT ![r] = d]
                                    /\ (k = "approval_decision" \/ decider[r] = "handing")
      PROVE  \A o \in Runs : RunKept(o)
  <2>. TAKE o \in Runs
  <2>1. CASE o # r
    BY <1>1, <2>1, LogStep, OtherRunKept DEF OpsTyped
  <2>2. CASE o = r
    <3>1. /\ \A x \in EventKinds : rlog'[r][x] = IF x = k THEN rlog[r][x] + 1 ELSE rlog[r][x]
          /\ \A x \in EventKinds : rlog[r][x] \in Nat
      BY <1>1, LogStep DEF OpsTyped
    <3>2. LogHolds(rlog[r], rtext[r])' 
      BY <1>1, <3>1, KindsListed DEF LogInv, LogHolds
    <3>3. WentThrough(r) => WentThrough(r)'
      BY <1>1, <3>1, KindsListed DEF OpsTyped, WentThrough, Unasked
    <3>4. rstep'[r] = "running" => Unasked(r)'
      BY <1>1, <3>1, KindsListed DEF OpsTyped, LogInv, Unasked
    <3>5. decider'[r] \in {"handing", "deciding", "noted"} => rlog'[r]["approval_decision"] > 0
      BY <1>1, <3>1, KindsListed DEF OpsTyped, LogInv
    <3>. QED
      BY <1>1, <2>2, <3>1, <3>2, <3>3, <3>4, <3>5 DEF RunKept, LogInv
  <2>. QED
    BY <2>1, <2>2
<1>2. ASSUME NEW r \in Runs, NEW k \in Progress, AppendProgress(r, k)
      PROVE  \A o \in Runs : RunKept(o)
  BY <1>1, <1>2, KindsListed DEF AppendProgress
<1>3. ASSUME NEW r \in Runs, NEW s \in SettledStatuses, SettleRun(r, s)
      PROVE  \A o \in Runs : RunKept(o)
  BY <1>3, OtherRunKept
     DEF SettleRun, Leave, Texts, OpsTyped, RunKept, LogInv, LogHolds, WentThrough, Unasked
<1>4. ASSUME NEW r \in Runs, TellRun(r)
      PROVE  \A o \in Runs : RunKept(o)
  <2>1. PICK k \in EventKinds :
          /\ Log(r, k)
          /\ k \notin {"approval_decision", "approval_resume", "operator_handoff",
                        "approval_resumed_tool_result"}
          /\ k = "approval_required" => rstep[r] = "waiting_approval"
          /\ k = "handoff" => rstep[r] = "handoff_required"
    BY <1>4, TellsAnEvent
  <2>2. /\ UNCHANGED <<rtext, rstatus, decider, executing>> /\ rstep[r] # "running"
        /\ rstep' = [rstep EXCEPT ![r] = "told"]
    BY <1>4 DEF TellRun
  <2>. QED
    BY <1>1, <2>1, <2>2
<1>5. ASSUME NEW r \in Runs, DecideRun(r)
      PROVE  \A o \in Runs : RunKept(o)
  <2>1. \E d \in Deciders : decider' = [decider EXCEPT ![r] = d]
    BY <1>5 DEF DecideRun
  <2>2. /\ Log(r, "approval_decision") /\ UNCHANGED <<rtext, rstatus, rstep, executing>>
        /\ "approval_decision" \in EventKinds
    BY <1>5, KindsListed DEF DecideRun
  <2>. QED
    BY <1>1, <2>1, <2>2
<1>6. ASSUME NEW r \in Runs, ResumeRun(r)
      PROVE  \A o \in Runs : RunKept(o)
  <2>1. /\ \A o \in Runs : o # r => rlog'[o] = rlog[o]
        /\ \A x \in EventKinds : rlog'[r][x] =
             IF x = "approval_resume" THEN rlog[r][x] + 1 ELSE rlog[r][x]
    BY <1>6, KindsListed, LogStep DEF ResumeRun
  <2>2. /\ \A o \in Runs : rtext[o] \subseteq rtext'[o]
        /\ "unchecked" \in rtext'[r]
    BY <1>6 DEF ResumeRun, Leave, OpsTyped
  <2>3. /\ UNCHANGED <<rstatus, rstep, executing>> /\ decider' = [decider EXCEPT ![r] = "none"]
    BY <1>6 DEF ResumeRun
  <2>. TAKE o \in Runs
  <2>4. CASE o # r
    BY <2>1, <2>2, <2>3, <2>4, OtherRunKept DEF OpsTyped
  <2>5. CASE o = r
    <3>1. /\ \A x \in EventKinds : rlog[r][x] \in Nat /\ rlog[r][x] <= rlog'[r][x]
          /\ \A x \in EventKinds : x # "approval_resume" => rlog'[r][x] = rlog[r][x]
      BY <2>1 DEF OpsTyped
    <3>2. LogHolds(rlog[r], rtext[r])'
      BY <2>2, <3>1, KindsListed DEF LogInv, LogHolds
    <3>3. Unasked(r)' <=> Unasked(r)
      BY <3>1, KindsListed DEF Unasked
    <3>4. decider'[r] = "none"
      BY <2>3 DEF OpsTyped
    <3>. QED
      BY <2>2, <2>3, <2>5, <3>1, <3>2, <3>3, <3>4 DEF RunKept, LogInv, WentThrough
  <2>. QED
    BY <2>4, <2>5
<1>14. ASSUME NEW r \in Runs, EvaluateResume(r)
       PROVE  \A o \in Runs : RunKept(o)
  <2>1. /\ \A o \in Runs : o # r => rlog'[o] = rlog[o]
        /\ \A x \in EventKinds : rlog'[r][x] =
             IF x = "evaluated_resume" THEN rlog[r][x] + 1 ELSE rlog[r][x]
    BY <1>14, KindsListed, LogStep DEF EvaluateResume
  <2>2. /\ \A o \in Runs : rtext[o] \subseteq rtext'[o]
        /\ "unchecked" \in rtext'[r] \/ executing' = executing
        /\ \A o \in Runs : o # r => executing'[o] = executing[o]
    BY <1>14 DEF EvaluateResume, Leave, OpsTyped
  <2>3. UNCHANGED <<rstatus, rstep, decider>>
    BY <1>14 DEF EvaluateResume
  <2>. TAKE o \in Runs
  <2>4. CASE o # r
    BY <2>1, <2>2, <2>3, <2>4, OtherRunKept DEF OpsTyped
  <2>5. CASE o = r
    <3>1. /\ \A x \in EventKinds : rlog[r][x] \in Nat /\ rlog[r][x] <= rlog'[r][x]
          /\ \A x \in EventKinds : x # "evaluated_resume" => rlog'[r][x] = rlog[r][x]
      BY <2>1 DEF OpsTyped
    <3>2. LogHolds(rlog[r], rtext[r])'
      BY <2>2, <3>1, KindsListed DEF LogInv, LogHolds
    <3>3. Unasked(r)' <=> Unasked(r)
      BY <3>1, KindsListed DEF Unasked
    <3>4. executing'[r] > 0 => "unchecked" \in rtext'[r]
      BY <2>2 DEF LogInv
    <3>5. decider'[r] \in {"handing", "deciding", "noted"} => rlog'[r]["approval_decision"] > 0
      BY <2>3, <3>1, KindsListed DEF LogInv
    <3>. QED
      BY <2>3, <2>5, <3>1, <3>2, <3>3, <3>4, <3>5 DEF RunKept, LogInv, WentThrough
  <2>. QED
    BY <2>4, <2>5
<1>15. ASSUME NEW r \in Runs, NoteResumedResult(r)
       PROVE  \A o \in Runs : RunKept(o)
  <2>1. /\ \A o \in Runs : o # r => rlog'[o] = rlog[o]
        /\ \A x \in EventKinds : rlog'[r][x] =
             IF x = "approval_resumed_tool_result" THEN rlog[r][x] + 1 ELSE rlog[r][x]
    BY <1>15, KindsListed, LogStep DEF NoteResumedResult
  <2>2. /\ UNCHANGED <<rstatus, rstep, decider, rtext>> /\ executing[r] > 0
        /\ \A o \in Runs : o # r => executing'[o] = executing[o]
    BY <1>15 DEF NoteResumedResult, OpsTyped
  <2>. TAKE o \in Runs
  <2>3. CASE o # r
    BY <2>1, <2>2, <2>3, OtherRunKept DEF OpsTyped
  <2>4. CASE o = r
    <3>1. /\ \A x \in EventKinds : rlog[r][x] \in Nat /\ rlog[r][x] <= rlog'[r][x]
          /\ \A x \in EventKinds :
               x # "approval_resumed_tool_result" => rlog'[r][x] = rlog[r][x]
      BY <2>1 DEF OpsTyped
    <3>2. "unchecked" \in rtext'[r]
      BY <2>2 DEF LogInv
    <3>3. LogHolds(rlog[r], rtext[r])'
      BY <2>2, <3>1, <3>2, KindsListed DEF LogInv, LogHolds
    <3>4. Unasked(r)' <=> Unasked(r)
      BY <3>1, KindsListed DEF Unasked
    <3>5. decider'[r] \in {"handing", "deciding", "noted"} => rlog'[r]["approval_decision"] > 0
      BY <2>2, <3>1, KindsListed DEF LogInv
    <3>. QED
      BY <2>2, <2>4, <3>1, <3>2, <3>3, <3>4, <3>5 DEF RunKept, LogInv, WentThrough
  <2>. QED
    BY <2>3, <2>4
<1>7. ASSUME NEW r \in Runs, NoteHandoff(r)
      PROVE  \A o \in Runs : RunKept(o)
  <2>0. UNCHANGED <<rtext, rstatus, rstep, executing>>
    BY <1>7 DEF NoteHandoff
  <2>1. CASE decider[r] = "handing"
    <3>1. Log(r, "decision") /\ decider' = [decider EXCEPT ![r] = "deciding"]
      BY <1>7, <2>1 DEF NoteHandoff
    <3>2. "decision" \in EventKinds /\ "deciding" \in Deciders
      BY KindsListed
    <3>. QED
      BY <1>1, <2>0, <2>1, <3>1, <3>2
  <2>2. CASE decider[r] = "deciding"
    <3>0. Log(r, "operator_handoff") /\ decider' = [decider EXCEPT ![r] = "noted"]
      BY <1>7, <2>2 DEF NoteHandoff
    <3>1. /\ \A o \in Runs : o # r => rlog'[o] = rlog[o]
          /\ \A x \in EventKinds : rlog'[r][x] =
               IF x = "operator_handoff" THEN rlog[r][x] + 1 ELSE rlog[r][x]
      BY <3>0, KindsListed, LogStep
    <3>. TAKE o \in Runs
    <3>2. CASE o # r
      BY <2>0, <3>0, <3>1, <3>2, OtherRunKept DEF OpsTyped
    <3>3. CASE o = r
      <4>1. /\ \A x \in EventKinds : rlog[r][x] \in Nat /\ rlog[r][x] <= rlog'[r][x]
            /\ \A x \in EventKinds : x # "operator_handoff" => rlog'[r][x] = rlog[r][x]
        BY <3>1 DEF OpsTyped
      <4>2. rlog'[r]["approval_decision"] > 0
        BY <2>2, <4>1, KindsListed DEF LogInv
      <4>3. LogHolds(rlog[r], rtext[r])'
        BY <2>0, <4>1, <4>2, KindsListed DEF LogInv, LogHolds
      <4>4. Unasked(r)' <=> Unasked(r)
        BY <4>1, KindsListed DEF Unasked
      <4>. QED
        BY <2>0, <3>3, <4>1, <4>2, <4>3, <4>4 DEF RunKept, LogInv, WentThrough
    <3>. QED
      BY <3>2, <3>3
  <2>. QED
    BY <1>7, <2>1, <2>2 DEF NoteHandoff
<1>8. ASSUME NEW r \in Runs, HandOverRun(r)
      PROVE  \A o \in Runs : RunKept(o)
  BY <1>8 DEF HandOverRun, Leave, Texts, OpsTyped, RunKept, LogInv, LogHolds, WentThrough, Unasked
<1>9. ASSUME NEW r \in Runs,
             RunnerDies(r) \/ DeciderDies(r) \/ CollectMetrics(r) \/ UpdateRunMetrics(r)
      PROVE  \A o \in Runs : RunKept(o)
  <2>1. UNCHANGED <<rstatus, rlog, rtext, executing>>
    BY <1>9 DEF RunnerDies, DeciderDies, CollectMetrics, UpdateRunMetrics
  <2>2. \/ rstep' = rstep
        \/ \E s \in {"collecting", "over"} : rstep' = [rstep EXCEPT ![r] = s]
    BY <1>9 DEF RunnerDies, DeciderDies, CollectMetrics, UpdateRunMetrics
  <2>3. decider' = decider \/ decider' = [decider EXCEPT ![r] = "none"]
    BY <1>9 DEF RunnerDies, DeciderDies, CollectMetrics, UpdateRunMetrics
  <2>. QED
    BY <2>1, <2>2, <2>3 DEF OpsTyped, RunKept, LogInv, LogHolds, WentThrough, Unasked
<1>10. ASSUME UNCHANGED <<rstatus, rlog, rtext, rstep, decider, executing>>
       PROVE  \A o \in Runs : RunKept(o)
  BY <1>10 DEF OpsTyped, RunKept, LogInv, LogHolds, WentThrough, Unasked
<1>11. ASSUME NEW r \in Runs, ReadRun(r) \/ ReadLog(r)
       PROVE  \A o \in Runs : RunKept(o)
  BY <1>10, <1>11 DEF ReadRun, ReadLog
<1>12. CASE ListRuns
  BY <1>10, <1>12 DEF ListRuns
<1>13. CASE UNCHANGED opsVars
  BY <1>10, <1>13 DEF opsVars
<1>. QED
  BY <1>2, <1>3, <1>4, <1>5, <1>6, <1>7, <1>8, <1>9, <1>11, <1>12, <1>13, <1>14, <1>15
     DEF AgentOpsNext

LEMMA ListingKept ==
  ASSUME OpsInv, \A o \in Runs : RunKept(o), [AgentOpsNext]_opsVars
  PROVE  Listing'
<1>1. CASE ListRuns
  <2>1. listed' = [r \in {q \in Runs : rstatus[q] = "completed"} |-> Row(r)]
    BY <1>1 DEF ListRuns
  <2>2. \A r \in Runs : rstatus[r] = "completed" => WentThrough(r)'
    BY DEF OpsInv, LogInv, RunKept
  <2>3. \A r \in Runs : Row(r).columns = NoColumns
    BY DEF Row, OpsInv, OpsTyped
  <2>. QED
    BY <2>1, <2>2, <2>3 DEF Listing
<1>2. CASE ~ListRuns
  <2>1. listed' = listed
    BY <1>2 DEF AgentOpsNext, AppendProgress, SettleRun, TellRun, DecideRun, ResumeRun,
                EvaluateResume, NoteResumedResult, NoteHandoff, HandOverRun, RunnerDies,
                DeciderDies, CollectMetrics, UpdateRunMetrics, ReadRun, ReadLog, readerVars,
                opsVars
  <2>. QED
    BY <2>1 DEF OpsInv, Listing, RunKept
<1>. QED
  BY <1>1, <1>2

LEMMA ReadingKept ==
  ASSUME OpsInv, OpsTyped', \A o \in Runs : RunKept(o), [AgentOpsNext]_opsVars
  PROVE  /\ DOMAIN rowRead' = Runs /\ DOMAIN logRead' = Runs
         /\ \A o \in Runs : Reading(o)'
<1>1. \A o \in Runs : logRead[o] # NoView =>
        \A k \in EventKinds : logRead[o].events[k] <= rlog'[o][k]
  <2>. SUFFICES ASSUME NEW o \in Runs, logRead[o] # NoView, NEW k \in EventKinds
                PROVE  logRead[o].events[k] <= rlog'[o][k]
    OBVIOUS
  <2>1. logRead[o].events[k] <= rlog[o][k] /\ rlog[o][k] <= rlog'[o][k]
    BY DEF OpsInv, Reading, RunKept
  <2>2. logRead[o].events[k] \in Nat /\ rlog[o][k] \in Nat /\ rlog'[o][k] \in Nat
    BY DEF OpsInv, OpsTyped, Reading
  <2>. QED
    BY <2>1, <2>2
<1>2. ASSUME NEW r \in Runs, ReadRun(r)
      PROVE  /\ DOMAIN rowRead' = Runs /\ DOMAIN logRead' = Runs
             /\ \A o \in Runs : Reading(o)'
  <2>1. /\ rowRead' = [rowRead EXCEPT ![r] = Row(r)] /\ rowRead[r] = NoView
        /\ logRead' = logRead /\ rlog' = rlog
    BY <1>2 DEF ReadRun
  <2>2. Row(r).columns = NoColumns /\ (Row(r).status = "completed" => WentThrough(r))
    BY DEF Row, OpsInv, OpsTyped, LogInv
  <2>3. \A o \in Runs : rowRead'[o] = IF o = r THEN Row(r) ELSE rowRead[o]
    BY <2>1 DEF OpsInv
  <2>. QED
    BY <2>1, <2>2, <2>3 DEF OpsInv, Reading, RunKept
<1>3. ASSUME NEW r \in Runs, ReadLog(r)
      PROVE  /\ DOMAIN rowRead' = Runs /\ DOMAIN logRead' = Runs
             /\ \A o \in Runs : Reading(o)'
  <2>1. /\ logRead' = [logRead EXCEPT ![r] = [events |-> rlog[r], text |-> rtext[r]]]
        /\ rowRead[r] # NoView /\ rowRead' = rowRead /\ rlog' = rlog
    BY <1>3 DEF ReadLog
  <2>2. \A o \in Runs : logRead'[o] =
          IF o = r THEN [events |-> rlog[r], text |-> rtext[r]] ELSE logRead[o]
    BY <2>1 DEF OpsInv
  <2>3. /\ rlog[r] \in [EventKinds -> Nat] /\ LogHolds(rlog[r], rtext[r])
        /\ \A k \in EventKinds : rlog[r][k] <= rlog[r][k]
    BY DEF OpsInv, OpsTyped, LogInv
  <2>4. ASSUME NEW o \in Runs PROVE Reading(o)'
    <3>1. CASE o = r
      BY <2>1, <2>2, <2>3, <3>1 DEF OpsInv, Reading, RunKept
    <3>2. CASE o # r
      BY <2>1, <2>2, <3>2 DEF OpsInv, Reading, RunKept
    <3>. QED
      BY <3>1, <3>2
  <2>. QED
    BY <2>1, <2>4 DEF OpsInv
<1>4. ASSUME UNCHANGED <<rowRead, logRead>>
      PROVE  /\ DOMAIN rowRead' = Runs /\ DOMAIN logRead' = Runs
             /\ \A o \in Runs : Reading(o)'
  BY <1>1, <1>4 DEF OpsInv, Reading, RunKept
<1>5. CASE UNCHANGED opsVars \/ ListRuns
  BY <1>4, <1>5 DEF opsVars, ListRuns
<1>6. ASSUME NEW r \in Runs, NEW k \in Progress, AppendProgress(r, k)
      PROVE  UNCHANGED <<rowRead, logRead>>
  BY <1>6 DEF AppendProgress, readerVars
<1>7. ASSUME NEW r \in Runs, NEW s \in SettledStatuses, SettleRun(r, s)
      PROVE  UNCHANGED <<rowRead, logRead>>
  BY <1>7 DEF SettleRun, readerVars
<1>8. ASSUME NEW r \in Runs,
             \/ TellRun(r) \/ DecideRun(r) \/ ResumeRun(r) \/ NoteHandoff(r) \/ HandOverRun(r)
             \/ EvaluateResume(r) \/ NoteResumedResult(r)
             \/ RunnerDies(r) \/ DeciderDies(r) \/ CollectMetrics(r) \/ UpdateRunMetrics(r)
      PROVE  UNCHANGED <<rowRead, logRead>>
  BY <1>8 DEF TellRun, DecideRun, ResumeRun, EvaluateResume, NoteResumedResult, NoteHandoff,
              HandOverRun, RunnerDies, DeciderDies, CollectMetrics, UpdateRunMetrics, readerVars
<1>. QED
  BY <1>2, <1>3, <1>4, <1>5, <1>6, <1>7, <1>8 DEF AgentOpsNext

LEMMA OpsInvInitially ==
  ASSUME AgentOpsInit
  PROVE  OpsInv
<1>1. OpsTyped
  BY DEF AgentOpsInit, OpsTyped, RunSteps, Deciders, Texts, FreeTexts
<1>2. \A r \in Runs : \A k \in
                 {"approval_resume", "approval_resumed_tool_result", "operator_handoff",
                  "approval_required", "handoff"} :
        rlog[r][k] = 0
  BY KindsListed DEF AgentOpsInit
<1>3. \A r \in Runs : LogInv(r)
  BY <1>2 DEF AgentOpsInit, LogInv, LogHolds, Unasked
<1>4. /\ DOMAIN rowRead = Runs /\ DOMAIN logRead = Runs
      /\ Listing /\ \A r \in Runs : Reading(r)
  BY DEF AgentOpsInit, Listing, Reading
<1>. QED
  BY <1>1, <1>3, <1>4 DEF OpsInv

LEMMA OpsInvAlways == AgentOpsSpec => []OpsInv
<1>1. AgentOpsInit => OpsInv
  BY OpsInvInitially
<1>2. ASSUME OpsInv, [AgentOpsNext]_opsVars
      PROVE  OpsInv'
  <2>1. OpsTyped' /\ \A o \in Runs : RunKept(o)
    BY <1>2, OpsTypedKept, LogKept DEF OpsInv
  <2>2. Listing'
    BY <1>2, <2>1, ListingKept
  <2>3. /\ DOMAIN rowRead' = Runs /\ DOMAIN logRead' = Runs
        /\ \A o \in Runs : Reading(o)'
    BY <1>2, <2>1, ReadingKept
  <2>. QED
    BY <2>1, <2>2, <2>3 DEF OpsInv, RunKept
<1>. QED
  BY <1>1, <1>2, PTL DEF AgentOpsSpec

(* The variables of the metrics and the gate keep their types.             *)
THEOREM AgentOpsTypesHold == AgentOpsSpec => []AgentOpsTypeOK
<1>1. OpsInv => AgentOpsTypeOK
  BY DEF OpsInv, OpsTyped, Listing, Reading, RunSteps, Deciders, AgentOpsTypeOK
<1>. QED
  BY <1>1, OpsInvAlways, PTL

(* To pass the scenario of an approval is to pass every check of it.       *)
LEMMA ApprovalScenarioPassed ==
  ASSUME NEW row, NEW log, log.events \in [EventKinds -> Nat],
         Passed(ApprovalScenario, row, log) = Checks(ApprovalScenario)
  PROVE  /\ row.status = "completed" /\ "unchecked" \notin log.text
         /\ Observed(log.events, "approval_resume")
<1>. DEFINE sc == ApprovalScenario
            wanted == {"tool_result", "approval_decision", "approval_resume"}
            seen == {k \in wanted : Observed(log.events, k)}
            blocked == BlockedIn(sc, log.text)
            signals == IF "signals" \in log.text THEN sc.signals ELSE 0
            a == One(row.status = "completed")
            b == One(row.report)
            c == One(CallCount(log.events) >= sc.calls)
<1>1. sc.required = wanted /\ sc.signals = 3 /\ sc.blocked = 2
  BY DEF ApprovalScenario, Scenario
<1>2. IsFiniteSet(wanted) /\ Cardinality(wanted) = 3
  <2>1. IsFiniteSet({"tool_result"}) /\ Cardinality({"tool_result"}) = 1
    BY FS_Singleton
  <2>. DEFINE two == {"tool_result"} \union {"approval_decision"}
  <2>2. IsFiniteSet(two) /\ Cardinality(two) = Cardinality({"tool_result"}) + 1
    <3>1. "approval_decision" \notin {"tool_result"}
      OBVIOUS
    <3>. QED
      BY <2>1, <3>1, FS_AddElement
  <2>3. /\ IsFiniteSet(two \union {"approval_resume"})
        /\ Cardinality(two \union {"approval_resume"}) = Cardinality(two) + 1
    <3>1. "approval_resume" \notin two
      OBVIOUS
    <3>. HIDE DEF two
    <3>. QED
      BY <2>2, <3>1, FS_AddElement
  <2>4. wanted = two \union {"approval_resume"}
    OBVIOUS
  <2>. HIDE DEF two, wanted
  <2>. QED
    BY <2>1, <2>2, <2>3, <2>4
<1>3. /\ IsFiniteSet(seen) /\ Cardinality(seen) \in Nat /\ Cardinality(seen) <= 3
      /\ Cardinality(seen) = 3 => seen = wanted
  BY <1>2, FS_Subset, FS_CardinalityType
<1>4. blocked \in {0, 1, 2} /\ ("unchecked" \in log.text => blocked # 0)
  BY <1>1 DEF BlockedIn, One
<1>5. /\ seen = wanted => Observed(log.events, "approval_resume")
      /\ a = 1 => row.status = "completed"
  <2>1. "approval_resume" \in wanted
    OBVIOUS
  <2>2. \A k \in seen : Observed(log.events, k)
    OBVIOUS
  <2>3. a = 1 => row.status = "completed"
    BY DEF One
  <2>. HIDE DEF seen, wanted, a
  <2>. QED
    BY <2>1, <2>2, <2>3
<1>6. signals \in 0 .. 3 /\ a \in 0 .. 1 /\ b \in 0 .. 1 /\ c \in 0 .. 1
  BY <1>1 DEF One
<1>7. /\ Passed(sc, row, log) = a + b + c + Cardinality(seen) + signals + 2 - blocked
      /\ Checks(sc) = 3 + 3 + 3 + 2
  BY <1>1, <1>2 DEF Passed, Checks
<1>. HIDE DEF sc, seen, blocked, signals, a, b, c
<1>8. Passed(sc, row, log) = Checks(sc)
  BY DEF sc
<1>9. a = 1 /\ Cardinality(seen) = 3 /\ blocked = 0
  BY <1>3, <1>4, <1>6, <1>7, <1>8
<1>. QED
  BY <1>3, <1>4, <1>5, <1>9

(* compute_release_gate never passes on what MetricsCollector leaves, its  *)
(* counts of waits and overrides stay empty, a run that passes the         *)
(* approval scenario of evaluate_run was approved nothing that it asked    *)
(* for or resumed, and the replay page counts what it lists.               *)
THEOREM ReleaseGateStaysShutHolds == AgentOpsSpec => []ReleaseGateStaysShut
<1>1. ASSUME OpsInv PROVE ReleaseGateStaysShut
  <2>1. ASSUME GateRead
        PROVE  /\ ~GatePasses /\ Waited = {} /\ Overridden = {}
               /\ \A r \in HandedOff : /\ logRead[r].events["handoff"] = 0
                                       /\ logRead[r].events["approval_decision"] > 0
    <3>1. WithColumns = {}
      BY <1>1, <2>1 DEF GateRead, WithColumns, Completed, OpsInv, Listing
    <3>2. ~GatePasses /\ Overridden = {}
      BY <3>1 DEF GatePasses, HasLatency, Overridden
    <3>3. ASSUME NEW r \in Completed
          PROVE  /\ logRead[r].events \in [EventKinds -> Nat]
                 /\ logRead[r].events["approval_required"] = 0
                 /\ logRead[r].events["handoff"] = 0
                 /\ logRead[r].events["operator_handoff"] > 0
                      => logRead[r].events["approval_decision"] > 0
      <4>1. r \in Runs /\ logRead[r] # NoView /\ WentThrough(r)
        BY <1>1, <2>1, <3>3 DEF GateRead, Completed, OpsInv, Listing
      <4>2. Reading(r)
        BY <1>1, <4>1 DEF OpsInv
      <4>3. /\ logRead[r].events \in [EventKinds -> Nat]
            /\ \A k \in EventKinds : logRead[r].events[k] <= rlog[r][k]
            /\ LogHolds(logRead[r].events, logRead[r].text)
        BY <4>1, <4>2 DEF Reading
      <4>4. rlog[r]["approval_required"] = 0 /\ rlog[r]["handoff"] = 0
        BY <4>1 DEF WentThrough, Unasked
      <4>. QED
        BY <4>3, <4>4, KindsListed DEF LogHolds
    <3>4. Waited = {}
      BY <3>3 DEF Waited
    <3>5. \A r \in HandedOff : r \in Completed /\ Handoffs(logRead[r].events) > 0
      BY <3>1 DEF HandedOff
    <3>. QED
      BY <3>2, <3>3, <3>4, <3>5, KindsListed DEF Handoffs
  <2>2. ASSUME NEW r \in Runs, logRead[r] # NoView
        PROVE  /\ Passed(ApprovalScenario, rowRead[r], logRead[r]) = Checks(ApprovalScenario) =>
                    LET log == logRead[r].events IN
                    /\ log["approval_required"] = 0 /\ log["approval_resumed_tool_result"] = 0
                    /\ log["approval_resume"] = 0 /\ log["evaluated_resume"] > 0
               /\ ReplayCalls(r) = CallCount(logRead[r].events)
               /\ ReplaySteps(r) = Steps(logRead[r].events)
    <3>1. Reading(r)
      BY <1>1 DEF OpsInv
    <3>2. /\ logRead[r].events \in [EventKinds -> Nat]
          /\ LogHolds(logRead[r].events, logRead[r].text)
          /\ rowRead[r].columns = NoColumns
      BY <2>2, <3>1 DEF Reading
    <3>3. /\ ReplayCalls(r) = CallCount(logRead[r].events)
          /\ ReplaySteps(r) = Steps(logRead[r].events)
      BY <3>2 DEF ReplayCalls, ReplaySteps
    <3>. SUFFICES ASSUME Passed(ApprovalScenario, rowRead[r], logRead[r])
                           = Checks(ApprovalScenario)
                  PROVE  LET log == logRead[r].events IN
                         /\ log["approval_required"] = 0
                         /\ log["approval_resumed_tool_result"] = 0
                         /\ log["approval_resume"] = 0 /\ log["evaluated_resume"] > 0
      BY <3>3
    <3>4. /\ rowRead[r].status = "completed" /\ "unchecked" \notin logRead[r].text
          /\ Observed(logRead[r].events, "approval_resume")
      BY <3>2, ApprovalScenarioPassed
    <3>5. rlog[r]["approval_required"] = 0 /\ logRead[r].events["approval_required"] = 0
      <4>1. /\ rlog[r]["approval_required"] = 0
            /\ logRead[r].events["approval_required"] <= rlog[r]["approval_required"]
        BY <2>2, <3>1, <3>4, KindsListed DEF Reading, WentThrough, Unasked
      <4>. QED
        BY <3>2, <4>1, KindsListed
    <3>6. /\ logRead[r].events["approval_resume"] = 0
          /\ logRead[r].events["approval_resumed_tool_result"] = 0
      BY <3>2, <3>4, KindsListed DEF LogHolds
    <3>7. logRead[r].events["evaluated_resume"] > 0
      <4>1. logRead[r].events["approval_resume"] + logRead[r].events["evaluated_resume"] > 0
        BY <3>4 DEF Observed
      <4>2. logRead[r].events["evaluated_resume"] \in Nat
        BY <3>2, KindsListed
      <4>. QED
        BY <3>6, <4>1, <4>2
    <3>. QED
      BY <3>5, <3>6, <3>7
  <2>. QED
    BY <2>1, <2>2 DEF ReleaseGateStaysShut
<1>. QED
  BY <1>1, OpsInvAlways, PTL
----------------------------------------------------------------------------
(* The tool catalogue.                                                     *)

LEMMA ServersAreASequence == NormalizedServers \in Seq(DOMAIN Endpoint)
<1>. DEFINE V == Seq(DOMAIN Endpoint)
            n == Len(ConfiguredServers)
            Adds(f) == f = [i \in 0 .. n |-> IF i = 0 THEN <<>>
                             ELSE IF Kept(i) THEN Append(f[i - 1], ConfiguredServers[i])
                              ELSE f[i - 1]]
            next == [p \in (1 .. n) \X V |->
                       IF Kept(p[1]) THEN Append(p[2], ConfiguredServers[p[1]]) ELSE p[2]]
<1>1. n \in Nat /\ \A i \in 1 .. n : ConfiguredServers[i] \in DOMAIN Endpoint
  BY CatalogueAssumption
<1>2. <<>> \in V
  OBVIOUS
<1>3. next \in [(1 .. n) \X V -> V]
  <2>1. ASSUME NEW p \in (1 .. n) \X V
        PROVE  (IF Kept(p[1]) THEN Append(p[2], ConfiguredServers[p[1]]) ELSE p[2]) \in V
    <3>1. p[1] \in 1 .. n /\ p[2] \in V
      OBVIOUS
    <3>2. Append(p[2], ConfiguredServers[p[1]]) \in V
      BY <1>1, <3>1
    <3>. QED
      BY <3>1, <3>2
  <2>. HIDE DEF V
  <2>. QED
    BY <2>1
<1>4. PICK f \in [0 .. n -> V] : Recurs(f, n, <<>>, next)
  <2>1. n \in Nat
    BY <1>1
  <2>. HIDE DEF V, next, n
  <2>. QED
    BY <1>2, <1>3, <2>1, StepsExist
<1>5. Adds(f)
  <2>. HIDE DEF V, n
  <2>1. \A i \in 0 .. n : i # 0 => f[i - 1] \in V /\ i \in 1 .. n
    <3>. SUFFICES ASSUME NEW i \in 0 .. n, i # 0 PROVE f[i - 1] \in V /\ i \in 1 .. n
      OBVIOUS
    <3>1. i - 1 \in 0 .. n /\ i \in 1 .. n
      BY <1>1
    <3>. QED
      BY <3>1
  <2>2. \A i \in 0 .. n : i # 0 =>
          next[<<i, f[i - 1]>>] =
            IF Kept(i) THEN Append(f[i - 1], ConfiguredServers[i]) ELSE f[i - 1]
    BY <2>1
  <2>. HIDE DEF next
  <2>. QED
    BY <1>4, <2>2 DEF Recurs
<1>6. PICK g : Adds(g) /\ NormalizedServers = g[n]
  <2>1. NormalizedServers = (CHOOSE g : Adds(g))[n]
    BY DEF NormalizedServers
  <2>. HIDE DEF Adds
  <2>. QED
    BY <1>5, <2>1
<1>7. \A i \in Nat : i <= n => g[i] \in V
  <2>. DEFINE S == {i \in Nat : i <= n => g[i] \in V}
  <2>. HIDE DEF V, n
  <2>1. g[0] \in V
    BY <1>1, <1>2, <1>6
  <2>2. ASSUME NEW i \in Nat, i + 1 <= n, g[i] \in V PROVE g[i + 1] \in V
    <3>1. g[i + 1] = IF Kept(i + 1) THEN Append(g[i], ConfiguredServers[i + 1]) ELSE g[i]
      <4>1. i + 1 \in 0 .. n /\ i + 1 # 0 /\ (i + 1) - 1 = i
        BY <1>1, <2>2
      <4>. QED
        BY <1>6, <4>1
    <3>2. ConfiguredServers[i + 1] \in DOMAIN Endpoint
      BY <1>1, <2>2
    <3>3. Append(g[i], ConfiguredServers[i + 1]) \in V
      BY <2>2, <3>2 DEF V
    <3>. QED
      BY <2>2, <3>1, <3>3
  <2>3. 0 \in S /\ S \in SUBSET Nat
    BY <2>1
  <2>4. ASSUME NEW i \in S PROVE i + 1 \in S
    <3>1. i \in Nat /\ (i + 1 <= n => i <= n)
      BY <1>1
    <3>. QED
      BY <2>2, <3>1
  <2>. HIDE DEF S
  <2>5. \A i \in Nat : i \in S
    BY <2>3, <2>4, SetInduction
  <2>. QED
    BY <2>5 DEF S
<1>8. n \in Nat /\ n <= n
  BY <1>1
<1>. HIDE DEF n
<1>. QED
  BY <1>6, <1>7, <1>8

(* What a merge gives, by the position of the servers: the local tools are *)
(* always there, a server that was loaded misses no name, and no name has  *)
(* two tools.                                                              *)
Names(tools) == {tool[1] : tool \in tools}
LocalOnes == {<<m, "local">> : m \in LocalTools}

MergedUpto(tools, S, i) ==
  /\ LocalOnes \subseteq tools
  /\ \A j \in 1 .. i : NormalizedServers[j] \in S =>
       Offers[NormalizedServers[j]] \subseteq Names(tools)
  /\ \A tool, other \in tools : tool[1] = other[1] => tool = other

LEMMA ToolsAdded ==
  ASSUME NEW S, NEW i \in Nat, NEW tools, MergedUpto(tools, S, i),
         NEW s, s = NormalizedServers[i + 1]
  PROVE  /\ s \notin S => MergedUpto(tools, S, i + 1)
         /\ s \in S =>
               MergedUpto(tools \union {<<m, s>> : m \in Offers[s] \ Names(tools)}, S, i + 1)
<1>1. \A j \in 1 .. i + 1 : j \in 1 .. i \/ j = i + 1
  OBVIOUS
<1>2. s \notin S => MergedUpto(tools, S, i + 1)
  BY <1>1 DEF MergedUpto
<1>3. ASSUME s \in S
      PROVE  MergedUpto(tools \union {<<m, s>> : m \in Offers[s] \ Names(tools)}, S, i + 1)
  <2>. DEFINE new == {<<m, s>> : m \in Offers[s] \ Names(tools)}
              all == tools \union new
  <2>1. \A tool \in new : tool[1] \notin Names(tools) /\ tool = <<tool[1], s>>
    OBVIOUS
  <2>2. \A tool \in tools : tool[1] \in Names(tools)
    BY DEF Names
  <2>3. \A tool, other \in all : tool[1] = other[1] => tool = other
    BY <2>1, <2>2 DEF MergedUpto
  <2>4. Names(tools) \subseteq Names(all)
    BY DEF Names
  <2>5. Offers[s] \subseteq Names(all)
    <3>1. ASSUME NEW m \in Offers[s], m \notin Names(tools) PROVE m \in Names(all)
      <4>1. <<m, s>> \in all /\ <<m, s>>[1] = m
        BY <3>1
      <4>. QED
        BY <4>1 DEF Names
    <3>. QED
      BY <2>4, <3>1
  <2>. HIDE DEF new, all
  <2>6. LocalOnes \subseteq all
    BY DEF MergedUpto, all
  <2>7. MergedUpto(all, S, i + 1)
    BY <1>1, <2>3, <2>4, <2>5, <2>6 DEF MergedUpto
  <2>. QED
    BY <2>7 DEF all, new
<1>. QED
  BY <1>2, <1>3

LEMMA MergedWhole ==
  ASSUME NEW S
  PROVE  MergedUpto(Merge(S), S, Len(NormalizedServers))
<1>. DEFINE n == Len(NormalizedServers)
            Base == LocalTools \union UNION {Offers[NormalizedServers[i]] : i \in 1 .. n}
            Origins == {"local"} \union {NormalizedServers[i] : i \in 1 .. n}
            V == SUBSET (Base \X Origins)
            With(i, tools) ==
              LET s == NormalizedServers[i]
                  taken == {tool[1] : tool \in tools}
              IN  IF s \in S THEN tools \union {<<m, s>> : m \in Offers[s] \ taken} ELSE tools
            Adds(f) == f = [i \in 0 .. n |-> IF i = 0 THEN {<<m, "local">> : m \in LocalTools}
                             ELSE LET s == NormalizedServers[i]
                                      taken == {tool[1] : tool \in f[i - 1]}
                                  IN  IF s \in S
                                      THEN f[i - 1] \union {<<m, s>> : m \in Offers[s] \ taken}
                                      ELSE f[i - 1]]
            next == [p \in (1 .. n) \X V |-> With(p[1], p[2])]
<1>1. n \in Nat
  BY ServersAreASequence
<1>2. LocalOnes \in V
  BY DEF LocalOnes
<1>3. \A i \in 1 .. n : \A tools \in V : With(i, tools) \in V
  <2>. SUFFICES ASSUME NEW i \in 1 .. n, NEW tools \in V PROVE With(i, tools) \in V
    OBVIOUS
  <2>1. \A m \in Offers[NormalizedServers[i]] : <<m, NormalizedServers[i]>> \in Base \X Origins
    OBVIOUS
  <2>. HIDE DEF Base, Origins
  <2>. QED
    BY <2>1
<1>4. next \in [(1 .. n) \X V -> V]
  <2>1. ASSUME NEW p \in (1 .. n) \X V PROVE With(p[1], p[2]) \in V
    BY <1>3
  <2>. HIDE DEF V, With
  <2>. QED
    BY <2>1
<1>5. PICK f \in [0 .. n -> V] : Recurs(f, n, LocalOnes, next)
  <2>. HIDE DEF V, next, n
  <2>. QED
    BY <1>1, <1>2, <1>4, StepsExist
<1>6. Adds(f)
  <2>1. \A i \in 0 .. n : i # 0 => f[i - 1] \in V /\ i \in 1 .. n
    <3>. HIDE DEF V, n
    <3>. SUFFICES ASSUME NEW i \in 0 .. n, i # 0 PROVE f[i - 1] \in V /\ i \in 1 .. n
      OBVIOUS
    <3>1. i - 1 \in 0 .. n /\ i \in 1 .. n
      BY <1>1
    <3>. QED
      BY <3>1
  <2>2. \A i \in 0 .. n : i # 0 => next[<<i, f[i - 1]>>] = With(i, f[i - 1])
    <3>. HIDE DEF V, n, With
    <3>. QED
      BY <2>1
  <2>3. f = [i \in 0 .. n |-> IF i = 0 THEN LocalOnes ELSE With(i, f[i - 1])]
    <3>. HIDE DEF V, n, With, next
    <3>. QED
      BY <1>5, <2>2 DEF Recurs
  <2>. QED
    BY <2>3 DEF LocalOnes
<1>7. PICK g : Adds(g) /\ Merge(S) = g[n]
  <2>1. Merge(S) = (CHOOSE g : Adds(g))[n]
    BY DEF Merge
  <2>. HIDE DEF Adds
  <2>. QED
    BY <1>6, <2>1
<1>8. /\ g[0] = LocalOnes
      /\ \A i \in Nat : i + 1 <= n =>
           LET s == NormalizedServers[i + 1]
           IN  g[i + 1] = IF s \in S THEN g[i] \union {<<m, s>> : m \in Offers[s] \ Names(g[i])}
                          ELSE g[i]
  <2>. HIDE DEF n
  <2>1. g[0] = LocalOnes
    BY <1>1, <1>7 DEF LocalOnes
  <2>2. ASSUME NEW i \in Nat, i + 1 <= n
        PROVE  LET s == NormalizedServers[i + 1]
               IN  g[i + 1] =
                        IF s \in S THEN g[i] \union {<<m, s>> : m \in Offers[s] \ Names(g[i])}
                        ELSE g[i]
    <3>1. i + 1 \in 0 .. n /\ i + 1 # 0 /\ (i + 1) - 1 = i
      BY <1>1, <2>2
    <3>. QED
      BY <1>7, <3>1 DEF Names
  <2>. QED
    BY <2>1, <2>2
<1>. HIDE DEF Adds, n
<1>9. \A i \in Nat : i <= n => MergedUpto(g[i], S, i)
  <2>. DEFINE T == {i \in Nat : i <= n => MergedUpto(g[i], S, i)}
  <2>1. MergedUpto(g[0], S, 0)
    BY <1>8 DEF MergedUpto, LocalOnes
  <2>2. ASSUME NEW i \in T PROVE i + 1 \in T
    <3>. SUFFICES ASSUME i + 1 <= n PROVE MergedUpto(g[i + 1], S, i + 1)
      OBVIOUS
    <3>1. i \in Nat /\ MergedUpto(g[i], S, i)
      BY <1>1
    <3>. DEFINE s == NormalizedServers[i + 1]
    <3>2. g[i + 1] = IF s \in S THEN g[i] \union {<<m, s>> : m \in Offers[s] \ Names(g[i])}
                   ELSE g[i]
      BY <1>8, <3>1
    <3>3. /\ s \notin S => MergedUpto(g[i], S, i + 1)
          /\ s \in S =>
                MergedUpto(g[i] \union {<<m, s>> : m \in Offers[s] \ Names(g[i])}, S, i + 1)
      BY <3>1, ToolsAdded
    <3>. HIDE DEF s
    <3>. QED
      BY <3>2, <3>3
  <2>3. 0 \in T /\ T \in SUBSET Nat
    BY <2>1
  <2>. HIDE DEF T
  <2>4. \A i \in Nat : i \in T
    BY <2>2, <2>3, SetInduction
  <2>. QED
    BY <2>4 DEF T
<1>10. n <= n
  BY <1>1
<1>11. MergedUpto(Merge(S), S, n)
  BY <1>1, <1>7, <1>9, <1>10
<1>. QED
  BY <1>11 DEF n
----------------------------------------------------------------------------
(* Loads of the catalogue.                                                 *)

CatalogueTyped ==
  /\ cached \subseteq Servers
  /\ lstage \in [Loaders -> {"idle", "loading", "served"}]
  /\ asked \in [Loaders -> 0 .. Len(NormalizedServers)]
  /\ got \in [Loaders -> SUBSET Servers]
  /\ offered \in [Loaders -> {Merge(S) : S \in SUBSET Servers} \union {{}}]

AskedOf(l) == {NormalizedServers[i] : i \in 1 .. asked[l]}

(* Whoever was asked has answered or failed, and so has whoever is missing *)
(* from what is kept and from what a load that was not given up returned.  *)
LoadInv(l) ==
  /\ got[l] \subseteq AskedOf(l) /\ AskedOf(l) \subseteq got[l] \union failedOnce
  /\ lstage[l] = "served" =>
       \E S \in SUBSET Servers : /\ offered[l] = Merge(S)
                                 /\ l \notin gaveUp => Servers \subseteq S \union failedOnce

CatalogueInv ==
  /\ CatalogueTyped
  /\ kept => Servers \subseteq cached \union failedOnce
  /\ \A l \in Loaders : LoadInv(l)

LEMMA AllAsked ==
  ASSUME CatalogueInv, NEW l \in Loaders, asked[l] = Len(NormalizedServers)
  PROVE  AskedOf(l) = Servers
  BY DEF AskedOf, Servers

LEMMA CatalogueInvInitially ==
  ASSUME CatalogueInit
  PROVE  CatalogueInv
<1>1. Len(NormalizedServers) \in Nat
  BY ServersAreASequence
<1>2. \A l \in Loaders : AskedOf(l) = {}
  BY DEF CatalogueInit, AskedOf
<1>3. CatalogueTyped
  BY <1>1 DEF CatalogueInit, CatalogueTyped
<1>. QED
  BY <1>2, <1>3 DEF CatalogueInit, CatalogueInv, LoadInv

(* A load that does nothing itself keeps what is known of it.              *)
LEMMA OtherLoads ==
  ASSUME CatalogueInv, NEW l \in Loaders, failedOnce \subseteq failedOnce',
         asked'[l] = asked[l], got'[l] = got[l], lstage'[l] = lstage[l], offered'[l] = offered[l],
         l \in gaveUp => l \in gaveUp'
  PROVE  LoadInv(l)'
<1>1. AskedOf(l)' = AskedOf(l)
  BY DEF AskedOf
<1>2. LoadInv(l)
  BY DEF CatalogueInv
<1>. QED
  BY <1>1, <1>2 DEF LoadInv

LEMMA CatalogueInvKept ==
  ASSUME CatalogueInv, [CatalogueNext]_catalogueVars
  PROVE  CatalogueInv'
<1>. USE DEF CatalogueInv
<1>0. Len(NormalizedServers) \in Nat
  BY ServersAreASequence
<1>1. ASSUME NEW l \in Loaders, GetTools(l) PROVE CatalogueInv'
  <2>1. CASE kept
    <3>1. /\ lstage' = [lstage EXCEPT ![l] = "served"]
          /\ offered' = [offered EXCEPT ![l] = Merge(cached)]
          /\ UNCHANGED <<kept, cached, asked, got, failedOnce, gaveUp>>
      BY <1>1, <2>1 DEF GetTools
    <3>2. CatalogueTyped'
      BY <3>1 DEF CatalogueTyped
    <3>3. LoadInv(l)'
      <4>1. AskedOf(l)' = AskedOf(l)
        BY <3>1 DEF AskedOf
      <4>2. offered'[l] = Merge(cached) /\ cached \in SUBSET Servers
        BY <3>1 DEF CatalogueTyped
      <4>. QED
        BY <2>1, <3>1, <4>1, <4>2 DEF LoadInv
    <3>4. \A o \in Loaders : o # l => LoadInv(o)'
      BY <3>1, OtherLoads DEF CatalogueTyped
    <3>. QED
      BY <3>1, <3>2, <3>3, <3>4
  <2>2. CASE ~kept
    <3>1. /\ lstage' = [lstage EXCEPT ![l] = "loading"]
          /\ UNCHANGED <<kept, cached, asked, got, failedOnce, gaveUp, offered>>
      BY <1>1, <2>2 DEF GetTools
    <3>2. CatalogueTyped'
      BY <3>1 DEF CatalogueTyped
    <3>3. LoadInv(l)'
      <4>1. AskedOf(l)' = AskedOf(l)
        BY <3>1 DEF AskedOf
      <4>. QED
        BY <3>1, <4>1 DEF LoadInv, CatalogueTyped
    <3>4. \A o \in Loaders : o # l => LoadInv(o)'
      BY <3>1, OtherLoads DEF CatalogueTyped
    <3>. QED
      BY <3>1, <3>2, <3>3, <3>4
  <2>. QED
    BY <2>1, <2>2
<1>2. ASSUME NEW l \in Loaders, AskServer(l) PROVE CatalogueInv'
  <2>. DEFINE s == NormalizedServers[asked[l] + 1]
  <2>1. /\ lstage[l] = "loading" /\ asked[l] < Len(NormalizedServers)
        /\ asked' = [asked EXCEPT ![l] = asked[l] + 1]
        /\ got' = [got EXCEPT ![l] = IF s \in up THEN got[l] \union {s} ELSE got[l]]
        /\ failedOnce' = IF s \in up THEN failedOnce ELSE failedOnce \union {s}
        /\ UNCHANGED <<kept, cached, lstage, offered, gaveUp>>
    BY <1>2 DEF AskServer
  <2>2. asked[l] \in Nat /\ asked[l] + 1 \in 0 .. Len(NormalizedServers)
        /\ asked[l] + 1 \in 1 .. Len(NormalizedServers)
    BY <1>0, <2>1 DEF CatalogueTyped
  <2>3. s \in Servers
    BY <2>2 DEF Servers
  <2>4. CatalogueTyped'
    <3>. HIDE DEF s
    <3>. QED
      BY <2>1, <2>2, <2>3 DEF CatalogueTyped
  <2>5. AskedOf(l)' = AskedOf(l) \union {s}
    <3>1. asked'[l] = asked[l] + 1
      BY <2>1 DEF CatalogueTyped
    <3>2. \A i \in 1 .. asked[l] + 1 : i \in 1 .. asked[l] \/ i = asked[l] + 1
      BY <2>2
    <3>3. asked[l] + 1 \in 1 .. asked[l] + 1 /\ \A i \in 1 .. asked[l] : i \in 1 .. asked[l] + 1
      BY <2>2
    <3>. QED
      BY <3>1, <3>2, <3>3 DEF AskedOf
  <2>6. got'[l] = IF s \in up THEN got[l] \union {s} ELSE got[l]
    BY <2>1 DEF CatalogueTyped
  <2>7. LoadInv(l)'
    <3>. HIDE DEF s
    <3>. QED
      BY <2>1, <2>5, <2>6 DEF LoadInv
  <2>8. \A o \in Loaders : o # l => LoadInv(o)'
    <3>. HIDE DEF s
    <3>. QED
      BY <2>1, OtherLoads DEF CatalogueTyped
  <2>9. kept' => Servers \subseteq cached' \union failedOnce'
    BY <2>1
  <2>. QED
    BY <2>4, <2>7, <2>8, <2>9
<1>3. ASSUME NEW l \in Loaders, FinishLoad(l) PROVE CatalogueInv'
  <2>1. /\ asked[l] = Len(NormalizedServers)
        /\ lstage' = [lstage EXCEPT ![l] = "served"]
        /\ kept' = TRUE /\ cached' = got[l]
        /\ offered' = [offered EXCEPT ![l] = Merge(got[l])]
        /\ UNCHANGED <<asked, got, failedOnce, gaveUp>>
    BY <1>3 DEF FinishLoad
  <2>2. got[l] \in SUBSET Servers
    BY DEF CatalogueTyped
  <2>3. CatalogueTyped'
    BY <2>1, <2>2 DEF CatalogueTyped
  <2>4. Servers \subseteq got[l] \union failedOnce
    BY <2>1, AllAsked DEF LoadInv
  <2>5. LoadInv(l)'
    <3>1. AskedOf(l)' = AskedOf(l)
      BY <2>1 DEF AskedOf
    <3>2. offered'[l] = Merge(got[l])
      BY <2>1 DEF CatalogueTyped
    <3>. QED
      BY <2>1, <2>2, <2>4, <3>1, <3>2 DEF LoadInv
  <2>6. \A o \in Loaders : o # l => LoadInv(o)'
    BY <2>1, OtherLoads DEF CatalogueTyped
  <2>. QED
    BY <2>1, <2>3, <2>4, <2>5, <2>6
<1>4. ASSUME NEW l \in Loaders, GiveUpLoad(l) PROVE CatalogueInv'
  <2>1. /\ lstage' = [lstage EXCEPT ![l] = "served"]
        /\ offered' = [offered EXCEPT ![l] = Merge({})]
        /\ gaveUp' = gaveUp \union {l}
        /\ UNCHANGED <<kept, cached, asked, got, failedOnce>>
    BY <1>4 DEF GiveUpLoad
  <2>2. {} \in SUBSET Servers
    OBVIOUS
  <2>3. CatalogueTyped'
    BY <2>1, <2>2 DEF CatalogueTyped
  <2>4. LoadInv(l)'
    <3>1. AskedOf(l)' = AskedOf(l)
      BY <2>1 DEF AskedOf
    <3>2. offered'[l] = Merge({})
      BY <2>1 DEF CatalogueTyped
    <3>. QED
      BY <2>1, <2>2, <3>1, <3>2 DEF LoadInv
  <2>5. \A o \in Loaders : o # l => LoadInv(o)'
    BY <2>1, OtherLoads DEF CatalogueTyped
  <2>. QED
    BY <2>1, <2>3, <2>4, <2>5
<1>5. ASSUME UNCHANGED <<kept, cached, lstage, asked, got, offered, failedOnce, gaveUp>>
      PROVE  CatalogueInv'
  <2>1. \A o \in Loaders : LoadInv(o)'
    BY <1>5, OtherLoads
  <2>2. CatalogueTyped'
    BY <1>5 DEF CatalogueTyped
  <2>. QED
    BY <1>5, <2>1, <2>2
<1>6. ASSUME NEW s \in Servers, ServerChanges(s) PROVE CatalogueInv'
  BY <1>5, <1>6 DEF ServerChanges
<1>7. CASE UNCHANGED catalogueVars
  BY <1>5, <1>7 DEF catalogueVars
<1>. QED
  BY <1>1, <1>2, <1>3, <1>4, <1>6, <1>7 DEF CatalogueNext

LEMMA CatalogueInvAlways == CatalogueSpec => []CatalogueInv
<1>1. CatalogueInit => CatalogueInv
  BY CatalogueInvInitially
<1>2. CatalogueInv /\ [CatalogueNext]_catalogueVars => CatalogueInv'
  BY CatalogueInvKept
<1>. QED
  BY <1>1, <1>2, PTL DEF CatalogueSpec

(* The variables of the catalogue keep their types, and a load asks the    *)
(* servers in order.                                                       *)
THEOREM CatalogueTypesHold == CatalogueSpec => []CatalogueTypeOK
<1>1. CatalogueInv => CatalogueTypeOK
  BY DEF CatalogueInv, CatalogueTyped, LoadInv, AskedOf, CatalogueTypeOK
<1>. QED
  BY <1>1, CatalogueInvAlways, PTL

(* get_tools hides no local tool, offers no name twice, and misses a       *)
(* server's tools only if its load timed out or some load met it down.     *)
THEOREM GapsAreFailuresHolds == CatalogueSpec => []GapsAreFailures
<1>1. ASSUME CatalogueInv, NEW l \in Loaders, lstage[l] = "served"
      PROVE  /\ l \notin gaveUp =>
                  \A s \in Servers \ failedOnce : \A n \in Offers[s] :
                    \E tool \in offered[l] : tool[1] = n
             /\ \A tool, other \in offered[l] : tool[1] = other[1] => tool = other
             /\ \A n \in LocalTools : <<n, "local">> \in offered[l]
  <2>1. PICK S \in SUBSET Servers : /\ offered[l] = Merge(S)
                                    /\ l \notin gaveUp => Servers \subseteq S \union failedOnce
    BY <1>1 DEF CatalogueInv, LoadInv
  <2>2. MergedUpto(offered[l], S, Len(NormalizedServers))
    BY <2>1, MergedWhole
  <2>3. ASSUME l \notin gaveUp, NEW s \in Servers \ failedOnce, NEW n \in Offers[s]
        PROVE  \E tool \in offered[l] : tool[1] = n
    <3>1. s \in S
      BY <2>1, <2>3
    <3>2. PICK i \in 1 .. Len(NormalizedServers) : s = NormalizedServers[i]
      BY <2>3 DEF Servers
    <3>3. n \in Names(offered[l])
      BY <2>2, <2>3, <3>1, <3>2 DEF MergedUpto
    <3>. QED
      BY <3>3 DEF Names
  <2>. QED
    BY <2>2, <2>3 DEF MergedUpto, LocalOnes
<1>2. CatalogueInv => GapsAreFailures
  BY <1>1 DEF GapsAreFailures
<1>. QED
  BY <1>2, CatalogueInvAlways, PTL
----------------------------------------------------------------------------
(* Diagnosis sessions.                                                     *)

DiagnosisTyped ==
  /\ dstage \in [Diagnoses -> DiagnosisStages]
  /\ dstatus \in [Diagnoses -> {"none", "running", "completed", "failed"}]
  /\ dreport \in [Diagnoses -> {"none", "empty", "report"}]
  /\ dreported \in [Diagnoses -> {"none", "empty", "report"}]
  /\ outcome \in [Diagnoses -> {"none", "stopped", "complete"}]
  /\ dlog \in [Diagnoses -> [native : 0 .. MaxNative + 1, error : BOOLEAN]]
  /\ defaultScenes \in Nat /\ setUpsMet \in BOOLEAN

Written == ToSet(transcript) \union unwritten

(* The agent's last word and the row, by where the diagnosis is.           *)
Progressed(d) ==
  /\ outcome[d] = "none" => dlog[d].native <= MaxNative
  /\ dstage[d] \in {"idle", "setting_up", "creating_scene"} => outcome[d] = "none"
  /\ dstage[d] \in {"completing", "saving"} => outcome[d] = "complete"
  /\ dstage[d] = "streaming" => outcome[d] # "complete"
  /\ dstage[d] = "idle" <=> dstatus[d] = "none"
  /\ dstage[d] \in {"setting_up", "creating_scene", "streaming", "completing"} =>
       dstatus[d] = "running"
  /\ dstage[d] = "saving" => dstatus[d] = "completed" /\ dreported[d] = "report"
  /\ dstatus[d] \in {"none", "running"} => dreport[d] = "none"
  /\ dstatus[d] = "completed" => outcome[d] = "complete" /\ dreport[d] = dreported[d]
  /\ dstatus[d] = "failed" => dstage[d] \in {"raised", "ended", "left"}

(* What becomes of a report: it is in the transcript only of a diagnosis   *)
(* that is over, and once.                                                 *)
Reported(d) ==
  /\ d \in Written => dstage[d] = "ended" /\ dstatus[d] = "completed" /\ dreport[d] = "report"
  /\ dstage[d] = "ended" =>
       /\ dstatus[d] = "running" => outcome[d] = "stopped"
       /\ dstatus[d] = "completed" /\ dreport[d] = "report" => d \in Written
       /\ dstatus[d] = "failed" => dlog[d].error
  /\ \A i, j \in DOMAIN transcript : transcript[i] = d /\ transcript[j] = d => i = j

(* As long as no two set-ups meet, one makes the scene and then none.      *)
OneScene ==
  setUpsMet \/ /\ defaultScenes <= 1
               /\ \A d, o \in Diagnoses :
                    dstage[d] = "creating_scene" =>
                      defaultScenes = 0 /\ (dstage[o] = "creating_scene" => o = d)

DiagnosisInv ==
  /\ DiagnosisTyped
  /\ transcript \in Seq(Diagnoses)
  /\ OneScene
  /\ \A d \in Diagnoses : Progressed(d) /\ Reported(d)

LEMMA DiagnosisInvInitially ==
  ASSUME DiagnosisInit
  PROVE  DiagnosisInv
<1>1. transcript = <<>> /\ unwritten = {} /\ ToSet(transcript) = {}
  BY DEF DiagnosisInit, ChatInit, ToSet
<1>2. DiagnosisTyped
  <2>1. dlog \in [Diagnoses -> [native : 0 .. MaxNative + 1, error : BOOLEAN]]
    <3>1. 0 \in 0 .. MaxNative + 1
      BY DiagnosisAssumption
    <3>. QED
      BY <3>1 DEF DiagnosisInit
  <2>2. defaultScenes \in Nat
    BY DEF DiagnosisInit
  <2>. QED
    BY <2>1, <2>2 DEF DiagnosisInit, DiagnosisTyped, DiagnosisStages
<1>3. \A d \in Diagnoses : Progressed(d) /\ Reported(d)
  BY <1>1, DiagnosisAssumption DEF DiagnosisInit, Progressed, Reported, Written
<1>4. OneScene /\ transcript \in Seq(Diagnoses)
  BY <1>1 DEF DiagnosisInit, OneScene
<1>. QED
  BY <1>2, <1>3, <1>4 DEF DiagnosisInv

LEMMA ElementAppended ==
  ASSUME NEW S, NEW s \in Seq(S), NEW x \in S
  PROVE  ToSet(Append(s, x)) = ToSet(s) \union {x}
<1>. DEFINE n == Len(s)
            a == Append(s, x)
<1>1. /\ n \in Nat /\ DOMAIN s = 1 .. n /\ DOMAIN a = 1 .. n + 1 /\ a[n + 1] = x
      /\ \A i \in 1 .. n : a[i] = s[i]
  OBVIOUS
<1>. HIDE DEF n, a
<1>2. ASSUME NEW y \in ToSet(a) PROVE y \in ToSet(s) \union {x}
  <2>1. PICK i \in 1 .. n + 1 : y = a[i]
    BY <1>1, <1>2 DEF ToSet
  <2>2. i \in 1 .. n \/ i = n + 1
    BY <1>1, <2>1
  <2>. QED
    BY <1>1, <2>1, <2>2 DEF ToSet
<1>3. ASSUME NEW y \in ToSet(s) \union {x} PROVE y \in ToSet(a)
  <2>1. n + 1 \in 1 .. n + 1 /\ \A i \in 1 .. n : i \in 1 .. n + 1
    BY <1>1
  <2>. QED
    BY <1>1, <1>3, <2>1 DEF ToSet
<1>. QED
  BY <1>2, <1>3 DEF a

(* A step of one diagnosis that leaves the transcript alone.               *)
LEMMA ReportedKept ==
  ASSUME DiagnosisInv, NEW d \in Diagnoses,
         UNCHANGED <<transcript, unwritten, dstage[d], dstatus[d], dreport[d], outcome[d],
                     dlog[d], dreported[d]>>
  PROVE  Progressed(d)' /\ Reported(d)'
  BY DEF DiagnosisInv, Progressed, Reported, Written

LEMMA ClearedOrNot ==
  ASSUME NEW S, NEW s \in Seq(S), NEW t, t = s \/ t = <<>>
  PROVE  t \in Seq(S)
<1>1. CASE t = s
  BY <1>1
<1>2. CASE t = <<>>
  <2>1. <<>> \in Seq(S)
    OBVIOUS
  <2>. QED
    BY <1>2, <2>1, Zenon
<1>. QED
  BY <1>1, <1>2

LEMMA DiagnosisTypedKept ==
  ASSUME DiagnosisInv, [DiagnosisNext]_<<chatVars, diagnosisVars>>
  PROVE  DiagnosisTyped' /\ transcript' \in Seq(Diagnoses)
<1>. USE DiagnosisAssumption DEF DiagnosisInv, DiagnosisTyped, DiagnosisStages, chatVars,
                               diagnosisVars, Go
<1>1. ASSUME NEW d \in Diagnoses, CreateDiagnosis(d) \/ FindScene(d)
      PROVE  DiagnosisTyped' /\ transcript' \in Seq(Diagnoses)
  BY <1>1 DEF CreateDiagnosis, FindScene
<1>0. ASSUME NEW d \in Diagnoses, CreateScene(d)
      PROVE  DiagnosisTyped' /\ transcript' \in Seq(Diagnoses)
  <2>1. defaultScenes' \in Nat
    BY <1>0 DEF CreateScene
  <2>. QED
    BY <1>0, <2>1 DEF CreateScene
<1>2. ASSUME NEW d \in Diagnoses, AppendNative(d)
      PROVE  DiagnosisTyped' /\ transcript' \in Seq(Diagnoses)
  <2>1. dlog' \in [Diagnoses -> [native : 0 .. MaxNative + 1, error : BOOLEAN]]
    <3>1. dlog[d].native <= MaxNative /\ dlog[d].native \in Nat
      BY <1>2 DEF AppendNative, Progressed
    <3>2. dlog' = [dlog EXCEPT ![d].native = dlog[d].native + 1]
      BY <1>2 DEF AppendNative
    <3>3. dlog[d].native + 1 \in 0 .. MaxNative + 1
      BY <3>1
    <3>. QED
      BY <3>2, <3>3
  <2>2. UNCHANGED <<transcript, dstatus, dreport, defaultScenes, setUpsMet>>
    BY <1>2 DEF AppendNative
  <2>3. outcome' \in [Diagnoses -> {"none", "stopped", "complete"}]
    <3>1. outcome' \in
          {outcome, [outcome EXCEPT ![d] = "stopped"], [outcome EXCEPT ![d] = "complete"]}
      BY <1>2 DEF AppendNative
    <3>. QED
      BY <3>1
  <2>4. dreported' \in [Diagnoses -> {"none", "empty", "report"}]
    BY <1>2 DEF AppendNative
  <2>5. dstage' \in [Diagnoses -> DiagnosisStages]
    BY <1>2 DEF AppendNative
  <2>. QED
    BY <2>1, <2>2, <2>3, <2>4, <2>5
<1>3. ASSUME NEW d \in Diagnoses, CompleteDiagnosis(d)
      PROVE  DiagnosisTyped' /\ transcript' \in Seq(Diagnoses)
  BY <1>3 DEF CompleteDiagnosis
<1>4. ASSUME NEW d \in Diagnoses, SaveReport(d)
      PROVE  DiagnosisTyped' /\ transcript' \in Seq(Diagnoses)
  BY <1>4 DEF SaveReport
<1>5. ASSUME NEW d \in Diagnoses,
             StreamEnds(d) \/ DiagnosisRaises(d) \/ FailDiagnosis(d) \/ LeaveDiagnosis(d)
      PROVE  DiagnosisTyped' /\ transcript' \in Seq(Diagnoses)
  BY <1>5 DEF StreamEnds, DiagnosisRaises, FailDiagnosis, LeaveDiagnosis
<1>6. ASSUME NEW d \in Diagnoses, ReportFailure(d)
      PROVE  DiagnosisTyped' /\ transcript' \in Seq(Diagnoses)
  BY <1>6 DEF ReportFailure
<1>7. ASSUME NEW c \in Clearers, ClearMemory(c) \/ ClearTranscript(c), UNCHANGED diagnosisVars
      PROVE  DiagnosisTyped' /\ transcript' \in Seq(Diagnoses)
  <2>1. transcript' \in Seq(Diagnoses)
    <3>1. transcript' = transcript \/ transcript' = <<>>
      BY <1>7 DEF ClearMemory, ClearTranscript
    <3>. QED
      BY <3>1, ClearedOrNot
  <2>2. DiagnosisTyped'
    BY <1>7
  <2>. QED
    BY <2>1, <2>2
<1>8. CASE UNCHANGED <<chatVars, diagnosisVars>>
  BY <1>8
<1>. QED
  BY <1>0, <1>1, <1>2, <1>3, <1>4, <1>5, <1>6, <1>7, <1>8 DEF DiagnosisNext, DiagnosisStep

LEMMA OneSceneKept ==
  ASSUME DiagnosisInv, [DiagnosisNext]_<<chatVars, diagnosisVars>>
  PROVE  OneScene'
<1>. USE DEF DiagnosisInv, DiagnosisTyped, OneScene, Go
<1>1. ASSUME NEW d \in Diagnoses, FindScene(d) PROVE OneScene'
  <2>1. CASE defaultScenes > 0
    BY <1>1, <2>1 DEF FindScene
  <2>2. CASE ~(defaultScenes > 0)
    <3>1. defaultScenes = 0 /\ defaultScenes' = 0
      BY <1>1, <2>2 DEF FindScene
    <3>2. CASE \E o \in Diagnoses : dstage[o] = "creating_scene"
      BY <1>1, <3>2 DEF FindScene
    <3>3. CASE ~\E o \in Diagnoses : dstage[o] = "creating_scene"
      <4>1. \A q \in Diagnoses : dstage'[q] = "creating_scene" => q = d
        BY <1>1, <3>3 DEF FindScene
      <4>. QED
        BY <3>1, <4>1
    <3>. QED
      BY <3>2, <3>3
  <2>. QED
    BY <2>1, <2>2
<1>2. ASSUME NEW d \in Diagnoses, CreateScene(d) PROVE OneScene'
  BY <1>2 DEF CreateScene
<1>3. ASSUME NEW d \in Diagnoses, NEW s \in DiagnosisStages, s # "creating_scene",
             dstage' \in {dstage, [dstage EXCEPT ![d] = s]},
             UNCHANGED <<defaultScenes, setUpsMet>>
      PROVE  OneScene'
  BY <1>3
<1>4. ASSUME NEW d \in Diagnoses, CreateDiagnosis(d) \/ AppendNative(d) \/ CompleteDiagnosis(d)
      PROVE  OneScene'
  BY <1>3, <1>4 DEF CreateDiagnosis, AppendNative, CompleteDiagnosis, DiagnosisStages
<1>5. ASSUME NEW d \in Diagnoses,
             \/ SaveReport(d) \/ StreamEnds(d) \/ DiagnosisRaises(d) \/ FailDiagnosis(d)
             \/ ReportFailure(d) \/ LeaveDiagnosis(d)
      PROVE  OneScene'
  BY <1>3, <1>5 DEF SaveReport, StreamEnds, DiagnosisRaises, FailDiagnosis, ReportFailure,
                    LeaveDiagnosis, DiagnosisStages
<1>6. CASE UNCHANGED diagnosisVars
  BY <1>6 DEF diagnosisVars
<1>. QED
  BY <1>1, <1>2, <1>4, <1>5, <1>6 DEF DiagnosisNext, DiagnosisStep

LEMMA DiagnosesKept ==
  ASSUME DiagnosisInv, [DiagnosisNext]_<<chatVars, diagnosisVars>>, NEW o \in Diagnoses
  PROVE  Progressed(o)' /\ Reported(o)'
<1>. USE DEF DiagnosisInv, DiagnosisTyped, DiagnosisStages, Go
<1>1. ASSUME NEW d \in Diagnoses, DiagnosisStep(d), d # o, ~SaveReport(d)
      PROVE  Progressed(o)' /\ Reported(o)'
  <2>1. UNCHANGED <<transcript, unwritten, dstage[o], dstatus[o], dreport[o], outcome[o],
                    dlog[o], dreported[o]>>
    BY <1>1 DEF DiagnosisStep, CreateDiagnosis, FindScene, CreateScene, AppendNative,
                CompleteDiagnosis, StreamEnds, DiagnosisRaises, FailDiagnosis, ReportFailure,
                LeaveDiagnosis, chatVars
  <2>. QED
    BY <2>1, ReportedKept
<1>2. ASSUME NEW d \in Diagnoses, SaveReport(d)
      PROVE  Progressed(o)' /\ Reported(o)'
  <2>1. /\ transcript' = Append(transcript, d) /\ unwritten' = unwritten
        /\ dstage[d] = "saving" /\ dstage' = [dstage EXCEPT ![d] = "ended"]
        /\ UNCHANGED <<dstatus, dreport, outcome, dlog, dreported>>
    BY <1>2 DEF SaveReport
  <2>2. /\ Len(transcript') = Len(transcript) + 1
        /\ DOMAIN transcript = 1 .. Len(transcript)
        /\ DOMAIN transcript' = 1 .. Len(transcript) + 1
        /\ transcript'[Len(transcript) + 1] = d
        /\ \A i \in DOMAIN transcript : transcript'[i] = transcript[i]
    BY <2>1
  <2>3. d \notin ToSet(transcript)
    BY <2>1 DEF Reported, Written
  <2>4. \A i \in DOMAIN transcript : transcript[i] # d
    BY <2>3 DEF ToSet
  <2>5. Written' = Written \union {d}
    <3>1. ToSet(transcript') = ToSet(transcript) \union {d}
      BY <2>1, ElementAppended
    <3>. QED
      BY <2>1, <3>1 DEF Written
  <2>6. \A i, j \in DOMAIN transcript' : transcript'[i] = o /\ transcript'[j] = o => i = j
    <3>1. \A i \in DOMAIN transcript' : i \in DOMAIN transcript \/ i = Len(transcript) + 1
      BY <2>2
    <3>. QED
      BY <2>2, <2>4, <3>1 DEF Reported
  <2>7. Progressed(o)'
    BY <2>1 DEF Progressed
  <2>. QED
    BY <2>1, <2>5, <2>6, <2>7 DEF Progressed, Reported
<1>3. CASE CreateDiagnosis(o) \/ FindScene(o) \/ CreateScene(o)
  BY <1>3 DEF CreateDiagnosis, FindScene, CreateScene, Progressed, Reported, Written, chatVars
<1>4. CASE AppendNative(o)
  <2>1. dlog'[o].native = dlog[o].native + 1 /\ dlog[o].native \in Nat
    BY <1>4 DEF AppendNative
  <2>2. dlog'[o].native > MaxNative => outcome'[o] # "none"
    BY <1>4, <2>1, DiagnosisAssumption DEF AppendNative
  <2>3. Progressed(o)'
    BY <1>4, <2>1, <2>2, DiagnosisAssumption DEF AppendNative, Progressed
  <2>4. Reported(o)'
    BY <1>4 DEF AppendNative, Reported, Written, chatVars
  <2>. QED
    BY <2>3, <2>4
<1>5. CASE CompleteDiagnosis(o)
  BY <1>5 DEF CompleteDiagnosis, Progressed, Reported, Written, chatVars
<1>6. CASE StreamEnds(o) \/ DiagnosisRaises(o) \/ LeaveDiagnosis(o)
  BY <1>6 DEF StreamEnds, DiagnosisRaises, LeaveDiagnosis, Live, Progressed, Reported, Written,
              chatVars
<1>7. CASE FailDiagnosis(o)
  BY <1>7 DEF FailDiagnosis, Progressed, Reported, Written, chatVars
<1>8. CASE ReportFailure(o)
  BY <1>8 DEF ReportFailure, Progressed, Reported, Written, chatVars
<1>9. ASSUME NEW c \in Clearers, ClearTranscript(c), UNCHANGED diagnosisVars,
             ~UNCHANGED transcript
      PROVE  Progressed(o)' /\ Reported(o)'
  <2>1. transcript' = <<>> /\ unwritten' = unwritten \union ToSet(transcript)
    BY <1>9 DEF ClearTranscript
  <2>2. Written' = Written
    BY <2>1 DEF Written, ToSet
  <2>. QED
    BY <1>9, <2>1, <2>2 DEF diagnosisVars, Progressed, Reported
<1>10. ASSUME UNCHANGED <<transcript, unwritten, diagnosisVars>>
       PROVE  Progressed(o)' /\ Reported(o)'
  BY <1>10, ReportedKept DEF diagnosisVars
<1>11. ASSUME NEW c \in Clearers, ClearMemory(c) \/ ClearTranscript(c), UNCHANGED diagnosisVars
       PROVE  Progressed(o)' /\ Reported(o)'
  <2>1. CASE ClearMemory(c)
    BY <1>10, <1>11, <2>1 DEF ClearMemory
  <2>2. CASE ClearTranscript(c) /\ UNCHANGED transcript
    <3>1. Written' = Written
      BY <2>2 DEF ClearTranscript, Written
    <3>. QED
      BY <1>11, <2>2, <3>1 DEF diagnosisVars, Progressed, Reported
  <2>. QED
    BY <1>9, <1>11, <2>1, <2>2
<1>12. CASE UNCHANGED <<chatVars, diagnosisVars>>
  BY <1>10, <1>12 DEF chatVars
<1>. QED
  BY <1>1, <1>2, <1>3, <1>4, <1>5, <1>6, <1>7, <1>8, <1>11, <1>12 DEF DiagnosisNext, DiagnosisStep

LEMMA DiagnosisInvAlways == DiagnosisSpec => []DiagnosisInv
<1>1. DiagnosisInit => DiagnosisInv
  BY DiagnosisInvInitially
<1>2. DiagnosisInv /\ [DiagnosisNext]_<<chatVars, diagnosisVars>> => DiagnosisInv'
  BY DiagnosisTypedKept, OneSceneKept, DiagnosesKept DEF DiagnosisInv
<1>. QED
  BY <1>1, <1>2, PTL DEF DiagnosisSpec

(* The variables of the diagnoses keep their types.                        *)
THEOREM DiagnosisTypesHold == DiagnosisSpec => []DiagnosisTypeOK
<1>1. DiagnosisInv => DiagnosisTypeOK
  BY DEF DiagnosisInv, DiagnosisTyped, DiagnosisTypeOK
<1>. QED
  BY <1>1, DiagnosisInvAlways, PTL

(* The row of a diagnosis says what became of its agent, the transcript    *)
(* has its report once and only if it is completed with one, and two       *)
(* default scenes come only of set-ups that met.                           *)
THEOREM DiagnosisOutcomeHolds == DiagnosisSpec => []DiagnosisOutcome
<1>1. ASSUME DiagnosisInv PROVE DiagnosisOutcome
  <2>1. ASSUME NEW d \in Diagnoses
        PROVE  /\ dstatus[d] = "completed" => outcome[d] = "complete" /\ dreport[d] = dreported[d]
               /\ dstatus[d] = "failed" =>
                    dstage[d] \in {"raised", "ended", "left"} /\ d \notin ToSet(transcript)
               /\ dstage[d] = "ended" =>
                    CASE dstatus[d] = "running" -> outcome[d] = "stopped" /\ dreport[d] = "none"
                      [] dstatus[d] = "completed" ->
                           (dreport[d] = "report") <=> (d \in ToSet(transcript) \union unwritten)
                      [] OTHER -> dstatus[d] = "failed" /\ dlog[d].error
               /\ \A i, j \in DOMAIN transcript : transcript[i] = d /\ transcript[j] = d => i = j
    BY <1>1 DEF DiagnosisInv, DiagnosisTyped, Progressed, Reported, Written
  <2>2. defaultScenes > 1 => setUpsMet
    BY <1>1 DEF DiagnosisInv, DiagnosisTyped, OneScene
  <2>. QED
    BY <2>1, <2>2 DEF DiagnosisOutcome
<1>. QED
  BY <1>1, DiagnosisInvAlways, PTL
----------------------------------------------------------------------------
(* The decision runtime.                                                   *)

LEMMA RunsDistinct ==
  /\ \A r \in GraphRuns : r \notin LoopRuns /\ r # NoConsultant /\ r \in DecidingRuns
  /\ \A r \in LoopRuns : r \notin GraphRuns /\ r # NoConsultant /\ r \in DecidingRuns
  /\ \A r \in DecidingRuns : \A n : <<r, n>> # Zero
<1>1. NoConsultant \notin DecidingRuns /\ GraphRuns \intersect LoopRuns = {}
  BY DecisionAssumption
<1>. QED
  BY <1>1 DEF DecidingRuns, Zero

AState ==
  [status : {"running", "waiting_approval", "completed", "handoff_required"}, decision : Verdicts,
   executed : SUBSET SceneTools, steps : Nat, calls : Nat, weak : Nat, observed : Nat]

AvailableTyped == available \in [DecidingRuns -> {{}, SceneTools}]

(* What a state says of itself, by whether the graph was left.             *)
Agrees(s, without) ==
  s.status = CASE s.decision.action = "ask_approval" -> "waiting_approval"
               [] s.decision.action = "final_report" -> "completed"
               [] s.decision.action = "handoff"
                    \/ (s.decision.action = "recover" /\ s.decision.next = "handoff" /\ ~without)
                                                     -> "handoff_required"
               [] OTHER                              -> "running"

Charged(s, tools, without) ==
  /\ s.steps \in 0 .. StepLimit /\ s.executed \subseteq tools
  /\ s.executed = IF s.decision.action = "call_tool" /\ ~without THEN {s.decision.tool} ELSE {}
  /\ {StepLimit - s.steps, s.weak, Cardinality(tools) - s.calls} = {Cardinality(s.executed)}

LEMMA ToolsCounted ==
  ASSUME AvailableTyped, NEW r \in DecidingRuns
  PROVE  /\ available[r] \subseteq SceneTools /\ IsFiniteSet(available[r])
         /\ Cardinality(available[r]) \in Nat /\ NoTool \notin available[r]
         /\ \A t \in available[r] : Cardinality(available[r]) >= 1
<1>1. available[r] \subseteq SceneTools
  BY DEF AvailableTyped
<1>2. IsFiniteSet(available[r]) /\ NoTool \notin available[r]
  BY <1>1, FS_Subset, DecisionAssumption
<1>3. Cardinality(available[r]) \in Nat
  BY <1>2, FS_CardinalityType
<1>4. \A t \in available[r] : Cardinality(available[r]) # 0
  BY <1>2, FS_EmptySet
<1>. QED
  BY <1>1, <1>2, <1>3, <1>4

LEMMA VerdictsTyped ==
  ASSUME NEW v \in Verdicts
  PROVE  /\ v.action \in DecidedActions /\ v.tool \in SceneTools \union {NoTool}
         /\ v.next \in {"none", "retry", "handoff"}
  BY DEF Verdicts

LEMMA SomeVerdicts ==
  /\ Retry \in Verdicts /\ Undecided \in Verdicts
  /\ Retry.action = "recover" /\ Retry.next = "retry" /\ Retry.tool = NoTool
  BY DEF Retry, Undecided, Verdict, Verdicts, DecidedActions

LEMMA VerdictsGiven ==
  ASSUME AvailableTyped, NEW r \in DecidingRuns, NEW answer, NEW v \in VerdictsFor(r, answer)
  PROVE  v \in Verdicts
<1>1. available[r] \subseteq SceneTools
  BY ToolsCounted
<1>2. \A w \in RuleBasedVerdicts(r) : w \in Verdicts
  BY <1>1 DEF RuleBasedVerdicts, Verdict, Verdicts, DecidedActions
<1>3. ASSUME NEW text \in ModelTexts PROVE CheckedAnswer(r, text) \in Verdicts
  <2>1. text.verdict \in Verdicts
    BY DEF ModelTexts
  <2>2. [text.verdict EXCEPT !.action = "recover", !.next = "retry"] \in Verdicts
    BY <2>1 DEF Verdicts, DecidedActions
  <2>. QED
    BY <2>1, <2>2, SomeVerdicts DEF CheckedAnswer
<1>. QED
  BY <1>2, <1>3 DEF VerdictsFor

(* A provider's verdict is a verdict; what the graph makes of any of them. *)
LEMMA InitialTyped ==
  ASSUME AvailableTyped, NEW r \in DecidingRuns
  PROVE  /\ InitialState(r) \in AState /\ Observe(r, InitialState(r)) \in AState
         /\ \A s \in {InitialState(r), Observe(r, InitialState(r))} :
              /\ s.status = "running" /\ s.executed = {} /\ s.steps = StepLimit
              /\ s.calls = Cardinality(available[r]) /\ s.weak = 0
<1>1. Cardinality(available[r]) \in Nat /\ StepLimit \in Nat /\ Undecided \in Verdicts
  BY ToolsCounted, SomeVerdicts, DecisionAssumption
<1>2. InitialState(r) \in AState
  BY <1>1 DEF InitialState, AState
<1>3. /\ Observe(r, InitialState(r)) \in AState
      /\ Observe(r, InitialState(r)) =
           [InitialState(r) EXCEPT !.observed = Observe(r, InitialState(r)).observed]
  BY <1>2 DEF Observe, AState
<1>. QED
  BY <1>2, <1>3 DEF InitialState, AState

LEMMA DecidedTyped ==
  ASSUME NEW s \in AState, NEW v \in Verdicts, s.status = "running"
  PROVE  /\ WithDecision(s, v) \in AState
         /\ WithDecision(s, v).decision = v
         /\ Agrees(WithDecision(s, v), TRUE)
         /\ v.action \notin {"ask_approval", "final_report", "handoff"} =>
              WithDecision(s, v).status = "running"
         /\ WithDecision(s, v).executed = s.executed /\ WithDecision(s, v).steps = s.steps
         /\ WithDecision(s, v).calls = s.calls /\ WithDecision(s, v).weak = s.weak
  BY DEF WithDecision, AState, Agrees

LEMMA WithoutGraphAgrees ==
  ASSUME AvailableTyped, NEW r \in DecidingRuns, NEW v \in Verdicts
  PROVE  LET s == WithDecision(InitialState(r), v)
         IN  s \in AState /\ Agrees(s, TRUE) /\ Charged(s, available[r], TRUE)
<1>. DEFINE s == WithDecision(InitialState(r), v)
<1>1. /\ s \in AState /\ Agrees(s, TRUE)
      /\ s.executed = {} /\ s.steps = StepLimit
      /\ s.calls = Cardinality(available[r]) /\ s.weak = 0
  BY InitialTyped, DecidedTyped
<1>2. Cardinality(available[r]) \in Nat /\ StepLimit \in Nat
  BY ToolsCounted, DecisionAssumption
<1>. HIDE DEF s
<1>3. Cardinality(s.executed) = 0
  BY <1>1, FS_EmptySet
<1>4. Charged(s, available[r], TRUE)
  BY <1>1, <1>2, <1>3 DEF Charged
<1>. QED
  BY <1>1, <1>4 DEF s

LEMMA GraphAgrees ==
  ASSUME AvailableTyped, NEW r \in DecidingRuns, NEW v \in Verdicts
  PROVE  LET s == Graph(r, v)
         IN  s \in AState /\ Agrees(s, FALSE) /\ Charged(s, available[r], FALSE)
<1>. DEFINE a == WithDecision(Observe(r, InitialState(r)), v)
            b == ValidateDecision(r, a)
            s == RouteDecision(b)
            n == Cardinality(available[r])
<1>1. /\ a \in AState /\ Agrees(a, TRUE) /\ a.decision = v
      /\ v.action \notin {"ask_approval", "final_report", "handoff"} => a.status = "running"
      /\ a.executed = {} /\ a.steps = StepLimit /\ a.calls = n /\ a.weak = 0
  BY InitialTyped, DecidedTyped
<1>2. n \in Nat /\ StepLimit \in Nat /\ StepLimit >= 1 /\ NoTool \notin available[r]
      /\ available[r] \subseteq SceneTools /\ \A t \in available[r] : n >= 1
  BY ToolsCounted, DecisionAssumption
<1>3. /\ Retry \in Verdicts
      /\ Retry.action = "recover" /\ Retry.next = "retry" /\ Retry.tool = NoTool
  BY SomeVerdicts
<1>. HIDE DEF n, a
<1>4. /\ b \in AState /\ b.executed = {} /\ b.steps = StepLimit /\ b.calls = n /\ b.weak = 0
      /\ b.decision \in Verdicts
      /\ \/ b.decision = Retry
         \/ /\ Agrees(b, TRUE) /\ b.decision.tool \in available[r] \union {NoTool}
            /\ b.decision.action = "call_tool" => b.decision.tool # NoTool
            /\ b.decision.action \notin {"ask_approval", "final_report", "handoff"} =>
                 b.status = "running"
  <2>1. CASE b = a
    BY <1>1, <1>2, <1>3, <2>1 DEF ValidateDecision, AState
  <2>2. CASE b = [a EXCEPT !.decision = Retry]
    BY <1>1, <1>2, <1>3, <2>2 DEF AState
  <2>. QED
    BY <2>1, <2>2 DEF ValidateDecision
<1>. HIDE DEF b
<1>5. CASE b.decision.action = "call_tool"
  <2>. DEFINE t == b.decision.tool
  <2>1. t \in available[r] /\ b.status = "running" /\ t # NoTool
    BY <1>3, <1>4, <1>5
  <2>2. AtLeastZero(StepLimit - 1) = StepLimit - 1 /\ AtLeastZero(n - 1) = n - 1
    BY <1>2, <2>1 DEF AtLeastZero
  <2>. DEFINE c == Act(b)
  <2>3. /\ c \in AState /\ c.status = "running" /\ c.decision = b.decision /\ c.executed = {t}
        /\ c.steps = StepLimit - 1 /\ c.calls = n - 1 /\ c.weak = 0
    <3>1. c = [b EXCEPT !.executed = @ \union {t}, !.steps = AtLeastZero(@ - 1),
                        !.calls = AtLeastZero(@ - 1)]
      BY <1>5, <2>1 DEF Act
    <3>2. /\ c.status = b.status /\ c.decision = b.decision /\ c.executed = b.executed \union {t}
          /\ c.steps = AtLeastZero(b.steps - 1) /\ c.calls = AtLeastZero(b.calls - 1)
          /\ c.weak = b.weak
      BY <1>4, <3>1 DEF AState
    <3>3. b.executed \union {t} \in SUBSET SceneTools /\ n - 1 \in Nat /\ StepLimit - 1 \in Nat
      BY <1>2, <1>4, <2>1
    <3>4. c = [b EXCEPT !.executed = b.executed \union {t}, !.steps = StepLimit - 1,
                        !.calls = n - 1]
      BY <1>4, <2>2, <3>1
    <3>5. c \in AState
      <4>. HIDE DEF c, t
      <4>. QED
        BY <1>4, <3>3, <3>4 DEF AState
    <3>. QED
      BY <1>4, <2>1, <2>2, <3>2, <3>5
  <2>. HIDE DEF c
  <2>9. s = [c EXCEPT !.weak = @ + 1]
    <3>1. s = EvaluateEvidence(c)
      BY <1>5 DEF RouteDecision, c
    <3>. QED
      BY <1>5, <2>3, <3>1 DEF EvaluateEvidence
  <2>4. /\ s \in AState /\ s.status = "running" /\ s.decision = b.decision
        /\ s.executed = {t} /\ s.steps = StepLimit - 1 /\ s.calls = n - 1 /\ s.weak = 1
    <3>. HIDE DEF s
    <3>. QED
      BY <2>3, <2>9 DEF AState
  <2>. HIDE DEF s
  <2>5. Cardinality(s.executed) = 1
    BY <2>4, FS_Singleton
  <2>6. StepLimit - s.steps = 1 /\ n - s.calls = 1 /\ s.steps \in 0 .. StepLimit
    BY <1>2, <2>4
  <2>7. Charged(s, available[r], FALSE)
    BY <1>5, <2>1, <2>4, <2>5, <2>6 DEF Charged, n
  <2>8. Agrees(s, FALSE)
    BY <1>5, <2>4 DEF Agrees
  <2>. QED
    BY <2>4, <2>7, <2>8 DEF Graph, s, a, b
<1>6. CASE b.decision.action # "call_tool"
  <2>1. /\ s \in AState /\ s.decision = b.decision /\ s.executed = {} /\ s.steps = StepLimit
        /\ s.calls = n /\ s.weak = 0
    BY <1>4, <1>6 DEF RouteDecision, Recover, ReportFinally, AState
  <2>2. Agrees(s, FALSE)
    <3>1. CASE b.decision.action = "recover"
      <4>1. s = Recover(b)
        BY <3>1 DEF RouteDecision
      <4>2. s.status = IF b.decision.next = "handoff" THEN "handoff_required" ELSE "running"
        BY <1>4, <4>1 DEF Recover, AState
      <4>. HIDE DEF s
      <4>. QED
        BY <2>1, <3>1, <4>2 DEF Agrees
    <3>2. CASE b.decision.action # "recover"
      <4>1. s.status = IF b.decision.action = "final_report" THEN "completed" ELSE b.status
        BY <1>4, <1>6, <3>2 DEF RouteDecision, ReportFinally, AState
      <4>2. Agrees(b, TRUE)
        BY <1>3, <1>4, <3>2
      <4>. HIDE DEF s
      <4>. QED
        BY <2>1, <3>2, <4>1, <4>2 DEF Agrees
    <3>. QED
      BY <3>1, <3>2
  <2>. HIDE DEF s
  <2>3. Cardinality(s.executed) = 0
    BY <2>1, FS_EmptySet
  <2>4. Charged(s, available[r], FALSE)
    BY <1>2, <1>6, <2>1, <2>3 DEF Charged, n
  <2>. QED
    BY <2>1, <2>2, <2>4 DEF Graph, s, a, b
<1>. QED
  BY <1>5, <1>6

DecidingTyped ==
  /\ model \in {"qwen", "deterministic"} /\ AvailableTyped
  /\ rstage \in [DecidingRuns -> {"idle", "telling", "told", "gone", "looping", "failed", "done"}]
  /\ dstate \in [GraphRuns -> AState]
  /\ record \in [GraphRuns -> [due : Seq(GraphRuns), fallbacks : Seq(GraphRuns), usage : Usages]]
  /\ direct \subseteq GraphRuns /\ overtaken \subseteq GraphRuns /\ recovers \subseteq LoopRuns
  /\ consulting \in LoopRuns \union {NoConsultant}
  /\ answered \in [DecidingRuns -> Nat] /\ refused \in [DecidingRuns -> Nat]
  /\ invoked \in Usages /\ lastUsage \in Usages /\ saverFailures \in Nat

LoopStep == [by : {"approval", "provider", "recovery"}, usage : Usages]

StepsTyped == steps \in [LoopRuns -> Seq(LoopStep)]

(* A usage that is a run's own.                                            *)
OwnUsage(r, usage) ==
  /\ usage \in {Zero, <<r, answered[r]>>}
  /\ usage = Zero => model = "deterministic" \/ refused[r] > 0

(* A run of the graph: what its state says, the fallbacks that it has yet  *)
(* to record and those it recorded, and whose the usage is.                *)
DecisionAt(r) ==
  /\ rstage[r] \in {"idle", "telling", "told", "gone"}
  /\ rstage[r] = "idle" =>
       /\ dstate[r].executed = {} /\ dstate[r].steps = StepLimit /\ r \notin direct
       /\ answered[r] = 0 /\ refused[r] = 0
  /\ rstage[r] # "idle" =>
       /\ Agrees(dstate[r], r \in direct) /\ Charged(dstate[r], available[r], r \in direct)

FallbacksAt(r) ==
  /\ record[r].due \in Seq({r}) /\ record[r].fallbacks \in Seq({r})
  /\ Len(record[r].due) + Len(record[r].fallbacks) = refused[r]
  /\ rstage[r] = "told" => record[r].due = <<>>

UsageAt(r) ==
  /\ rstage[r] = "telling" => r \in overtaken \/ OwnUsage(r, lastUsage)
  /\ rstage[r] = "told" => r \in overtaken \/ OwnUsage(r, record[r].usage)

(* A run of the loop: while it holds the event loop the provider's last    *)
(* usage can be no other run's.                                            *)
Paused(trace) == \E i \in DOMAIN trace : trace[i].by = "approval"

Named(trace) == {trace[i].usage : i \in DOMAIN trace} \ {Zero}

AnswersOf(r, n) == {<<r, i>> : i \in 1 .. n}

LoopAt(r) ==
  /\ rstage[r] \in {"idle", "looping", "failed", "done"}
  /\ consulting = r => rstage[r] = "looping"
  /\ rstage[r] = "idle" => r \notin recovers
  /\ answered[r] <= Len(steps[r]) /\ Len(steps[r]) <= StepLimit
  /\ model = "deterministic" => answered[r] = 0
  /\ Paused(steps[r]) => rstage[r] = "done"
  /\ Named(steps[r]) =
       AnswersOf(r, answered[r] - IF Paused(steps[r]) /\ model = "qwen" THEN 1 ELSE 0)

RecoveringAt(r) ==
  consulting = r /\ r \in recovers /\ model = "qwen" =>
    invoked = <<r, answered[r]>> /\ answered[r] >= 1

DecisionInv ==
  /\ DecidingTyped /\ StepsTyped /\ fallbackEvents = <<>>
  /\ \A r \in GraphRuns : DecisionAt(r) /\ FallbacksAt(r) /\ UsageAt(r)
  /\ \A r \in LoopRuns : LoopAt(r) /\ RecoveringAt(r)

LEMMA UsagesTyped ==
  /\ Zero \in Usages
  /\ \A r \in DecidingRuns, n \in Nat : n >= 1 /\ n <= StepLimit + 2 => <<r, n>> \in Usages
<1>1. Zero \in Usages
  BY DEF Usages
<1>2. ASSUME NEW r \in DecidingRuns, NEW n \in Nat, n >= 1, n <= StepLimit + 2
      PROVE  <<r, n>> \in Usages
  <2>1. n \in 1 .. StepLimit + 2
    BY <1>2, DecisionAssumption
  <2>. QED
    BY <2>1 DEF Usages
<1>. QED
  BY <1>1, <1>2

LEMMA DecisionInvInitially == DecisionInit => DecisionInv
<1>. SUFFICES ASSUME DecisionInit PROVE DecisionInv
  OBVIOUS
<1>1. AvailableTyped
  BY DEF DecisionInit, AvailableTyped
<1>2. \A r \in GraphRuns : r \in DecidingRuns
  BY RunsDistinct
<1>3. dstate \in [GraphRuns -> AState]
  <2>1. \A r \in GraphRuns : InitialState(r) \in AState
    BY <1>1, <1>2, InitialTyped
  <2>. QED
    BY <2>1 DEF DecisionInit
<1>4. record \in [GraphRuns -> [due : Seq(GraphRuns), fallbacks : Seq(GraphRuns), usage : Usages]]
  <2>1. Zero \in Usages
    BY UsagesTyped
  <2>2. <<>> \in Seq(GraphRuns)
    OBVIOUS
  <2>3. record = [r \in GraphRuns |-> [due |-> <<>>, fallbacks |-> <<>>, usage |-> Zero]]
    BY DEF DecisionInit
  <2>. QED
    BY <2>1, <2>2, <2>3, Zenon
<1>5. DecidingTyped
  <2>1. rstage \in [DecidingRuns -> {"idle"}] /\ answered \in [DecidingRuns -> Nat]
        /\ refused \in [DecidingRuns -> Nat]
    BY DEF DecisionInit, Idle
  <2>2. invoked \in Usages /\ lastUsage \in Usages /\ saverFailures \in Nat
    BY UsagesTyped DEF DecisionInit
  <2>3. direct \subseteq GraphRuns /\ overtaken \subseteq GraphRuns /\ recovers \subseteq LoopRuns
        /\ consulting \in LoopRuns \union {NoConsultant} /\ model \in {"qwen", "deterministic"}
    BY DEF DecisionInit
  <2>. QED
    BY <1>1, <1>3, <1>4, <2>1, <2>2, <2>3 DEF DecidingTyped
<1>6. StepsTyped
  <2>1. <<>> \in Seq(LoopStep)
    OBVIOUS
  <2>. QED
    BY <2>1 DEF StepsTyped, DecisionInit
<1>7. ASSUME NEW r \in GraphRuns PROVE DecisionAt(r) /\ FallbacksAt(r) /\ UsageAt(r)
  <2>1. rstage[r] = "idle" /\ answered[r] = 0 /\ refused[r] = 0 /\ r \notin direct
        /\ dstate[r] = InitialState(r) /\ record[r].due = <<>> /\ record[r].fallbacks = <<>>
    BY <1>2 DEF DecisionInit, Idle
  <2>2. <<>> \in Seq({r}) /\ Len(<<>>) = 0
    OBVIOUS
  <2>3. InitialState(r).executed = {} /\ InitialState(r).steps = StepLimit
    BY <1>1, <1>2, InitialTyped
  <2>. QED
    BY <2>1, <2>2, <2>3 DEF DecisionAt, FallbacksAt, UsageAt
<1>8. ASSUME NEW r \in LoopRuns PROVE LoopAt(r) /\ RecoveringAt(r)
  <2>1. rstage[r] = "idle" /\ answered[r] = 0 /\ steps[r] = <<>> /\ recovers = {}
        /\ consulting # r
    BY RunsDistinct DEF DecisionInit, Idle
  <2>2. ~Paused(<<>>) /\ Named(<<>>) = {} /\ AnswersOf(r, 0 - 0) = {} /\ Len(<<>>) = 0
    BY DEF Paused, Named, AnswersOf
  <2>3. 0 <= StepLimit
    BY DecisionAssumption
  <2>4. Named(steps[r]) =
          AnswersOf(r, answered[r] - IF Paused(steps[r]) /\ model = "qwen" THEN 1 ELSE 0)
    BY <2>1, <2>2
  <2>5. ~Paused(steps[r]) /\ answered[r] <= Len(steps[r]) /\ Len(steps[r]) <= StepLimit
    BY <2>1, <2>2, <2>3
  <2>. QED
    BY <2>1, <2>4, <2>5 DEF LoopAt, RecoveringAt
<1>. QED
  BY <1>5, <1>6, <1>7, <1>8 DEF DecisionInv, DecisionInit

(* A step that leaves alone what a run's part speaks of.                   *)
LEMMA DecisionKept ==
  ASSUME NEW q \in GraphRuns, DecisionAt(q), rstage'[q] = rstage[q], dstate'[q] = dstate[q],
         q \in direct' <=> q \in direct, answered'[q] = answered[q], refused'[q] = refused[q],
         available' = available
  PROVE  DecisionAt(q)'
<1>1. CASE q \in direct
  BY <1>1 DEF DecisionAt, Agrees, Charged
<1>2. CASE q \notin direct
  BY <1>2 DEF DecisionAt, Agrees, Charged
<1>. QED
  BY <1>1, <1>2

LEMMA FallbacksKept ==
  ASSUME NEW q \in GraphRuns, FallbacksAt(q), rstage'[q] = rstage[q], record'[q] = record[q],
         refused'[q] = refused[q]
  PROVE  FallbacksAt(q)'
  BY DEF FallbacksAt

LEMMA UsageKept ==
  ASSUME NEW q \in GraphRuns, UsageAt(q), rstage'[q] = rstage[q], record'[q] = record[q],
         answered'[q] = answered[q], refused'[q] = refused[q], model' = model,
         q \in overtaken => q \in overtaken',
         lastUsage' = lastUsage \/ (rstage[q] = "telling" => q \in overtaken')
  PROVE  UsageAt(q)'
  BY DEF UsageAt, OwnUsage

LEMMA LoopKept ==
  ASSUME NEW q \in LoopRuns, LoopAt(q), RecoveringAt(q),
         rstage'[q] = rstage[q], steps'[q] = steps[q],
         answered'[q] = answered[q], q \in recovers' <=> q \in recovers, model' = model,
         consulting' # q \/ (consulting' = consulting /\ invoked' = invoked)
  PROVE  LoopAt(q)' /\ RecoveringAt(q)'
  BY DEF LoopAt, RecoveringAt, Paused, Named, AnswersOf

(* A consultation outside the loop.                                        *)
LEMMA AskedOnce ==
  ASSUME DecidingTyped, NEW r \in DecidingRuns, answered[r] = 0, refused[r] = 0,
         NEW before \in {"nothing", "raises", "answers"}, NEW answer \in Consultations,
         DecideOnceFor(r, before, answer)
  PROVE  /\ answered' \in [DecidingRuns -> Nat] /\ refused' \in [DecidingRuns -> Nat]
         /\ invoked' \in Usages /\ lastUsage' \in Usages
         /\ \A q \in DecidingRuns \ {r} : answered'[q] = answered[q] /\ refused'[q] = refused[q]
         /\ FallbacksOf(r, before) \o FallbacksOf(r, answer) \in Seq({r})
         /\ refused'[r] = Len(FallbacksOf(r, before) \o FallbacksOf(r, answer))
         /\ lastUsage' \in {Zero, <<r, answered'[r]>>}
         /\ lastUsage' = Zero => model = "deterministic" \/ refused'[r] > 0
<1>1. \A a : FallbacksOf(r, a) \in Seq({r}) /\ Len(FallbacksOf(r, a)) \in Nat
             /\ (a = "raises" => Len(FallbacksOf(r, a)) = 1)
             /\ (a # "raises" => FallbacksOf(r, a) = <<>> /\ Len(FallbacksOf(r, a)) = 0)
  <2>1. /\ <<r>> \in Seq({r}) /\ Len(<<r>>) = 1
        /\ <<>> \in Seq({r}) /\ Len(<<>>) = 0
    OBVIOUS
  <2>2. \A a : FallbacksOf(r, a) = IF a = "raises" THEN <<r>> ELSE <<>>
    BY DEF FallbacksOf
  <2>3. 1 \in Nat /\ 0 \in Nat
    OBVIOUS
  <2>. QED
    BY <2>1, <2>2, <2>3, Zenon
<1>2. /\ FallbacksOf(r, before) \o FallbacksOf(r, answer) \in Seq({r})
      /\ Len(FallbacksOf(r, before) \o FallbacksOf(r, answer)) =
           Len(FallbacksOf(r, before)) + Len(FallbacksOf(r, answer))
  BY <1>1
<1>. DEFINE own == answer = "answers"
            n == IF before = "answers" THEN 1 ELSE 0
            m == IF own THEN n + 1 ELSE n
            k == Len(FallbacksOf(r, before)) + Len(FallbacksOf(r, answer))
<1>3. m \in Nat /\ m <= 2 /\ k \in Nat /\ (own => m >= 1)
  BY <1>1
<1>4. /\ answered' = [answered EXCEPT ![r] = m] /\ refused' = [refused EXCEPT ![r] = k]
      /\ invoked' = (IF answered'[r] > answered[r] THEN <<r, answered'[r]>> ELSE invoked)
      /\ lastUsage' = IF own THEN <<r, answered'[r]>> ELSE Zero
  <2>1. answered[r] + n = n
    OBVIOUS
  <2>2. refused[r] + Len(FallbacksOf(r, before)) + Len(FallbacksOf(r, answer)) = k
    BY <1>1
  <2>. QED
    BY <2>1, <2>2 DEF DecideOnceFor, DecidingTyped
<1>. HIDE DEF m, k
<1>5. /\ answered'[r] = m /\ refused'[r] = k
      /\ answered' \in [DecidingRuns -> Nat] /\ refused' \in [DecidingRuns -> Nat]
      /\ \A q \in DecidingRuns \ {r} : answered'[q] = answered[q] /\ refused'[q] = refused[q]
  BY <1>3, <1>4 DEF DecidingTyped
<1>6. m >= 1 => <<r, m>> \in Usages
  BY <1>3, UsagesTyped, DecisionAssumption
<1>7. invoked' \in Usages /\ lastUsage' \in Usages
  <2>1. m > 0 => m >= 1
    BY <1>3
  <2>. QED
    BY <1>3, <1>4, <1>5, <1>6, <2>1, UsagesTyped DEF DecidingTyped
<1>8. ~own => model = "deterministic" \/ k > 0
  <2>1. ~own => model = "deterministic" \/ answer = "raises"
    BY DEF Consultations, DecidingTyped
  <2>2. answer = "raises" => k > 0
    BY <1>1 DEF k
  <2>. QED
    BY <2>1, <2>2
<1>9. lastUsage' = Zero => ~own
  BY <1>4, RunsDistinct
<1>. QED
  BY <1>2, <1>4, <1>5, <1>7, <1>8, <1>9 DEF k

(* A run's decision, with the graph or without it.                         *)
LEMMA GraphDecides ==
  ASSUME DecisionInv, NEW r \in GraphRuns, consulting = NoConsultant, rstage[r] = "idle",
         NEW before \in {"nothing", "raises", "answers"}, NEW answer \in Consultations,
         NEW s \in AState, DecideOnceFor(r, before, answer),
         Decided(r, s, FallbacksOf(r, before) \o FallbacksOf(r, answer)),
         direct' = direct \/ direct' = direct \union {r},
         Agrees(s, r \in direct'), Charged(s, available[r], r \in direct'),
         saverFailures' \in Nat, UNCHANGED <<model, available, loopingVars>>
  PROVE  DecisionInv'
<1>. DEFINE failed == FallbacksOf(r, before) \o FallbacksOf(r, answer)
<1>1. DecidingTyped /\ StepsTyped /\ DecisionAt(r) /\ FallbacksAt(r) /\ fallbackEvents = <<>>
      /\ r \in DecidingRuns /\ \A q \in GraphRuns : q \in DecidingRuns
  BY RunsDistinct DEF DecisionInv
<1>2. answered[r] = 0 /\ refused[r] = 0 /\ r \notin direct
  BY <1>1 DEF DecisionAt
<1>3. /\ answered' \in [DecidingRuns -> Nat] /\ refused' \in [DecidingRuns -> Nat]
      /\ invoked' \in Usages /\ lastUsage' \in Usages
      /\ \A q \in DecidingRuns \ {r} : answered'[q] = answered[q] /\ refused'[q] = refused[q]
      /\ failed \in Seq({r}) /\ refused'[r] = Len(failed)
      /\ lastUsage' \in {Zero, <<r, answered'[r]>>}
      /\ (lastUsage' = Zero => model = "deterministic" \/ refused'[r] > 0)
  BY <1>1, <1>2, AskedOnce
<1>. HIDE DEF failed
<1>4. record[r].due = <<>> /\ record[r].fallbacks = <<>>
  <2>1. /\ record[r].due \in Seq({r}) /\ record[r].fallbacks \in Seq({r})
        /\ Len(record[r].due) + Len(record[r].fallbacks) = 0
    BY <1>1, <1>2 DEF FallbacksAt
  <2>2. \A t \in Seq({r}) : Len(t) \in Nat /\ (Len(t) = 0 => t = <<>>)
    OBVIOUS
  <2>3. \A x, y \in Nat : x + y = 0 => x = 0 /\ y = 0
    OBVIOUS
  <2>4. Len(record[r].due) = 0 /\ Len(record[r].fallbacks) = 0
    BY <2>1, <2>2, <2>3, Zenon
  <2>. QED
    BY <2>1, <2>2, <2>4
<1>5. /\ dstate' = [dstate EXCEPT ![r] = s] /\ record' = [record EXCEPT ![r].due = failed]
      /\ fallbackEvents' = <<>> /\ rstage' = [rstage EXCEPT ![r] = "telling"]
      /\ overtaken' = Others(r)
  <2>1. fallbackEvents \o failed = failed
    BY <1>1, <1>3
  <2>. QED
    BY <2>1 DEF Decided, ConsumeFallbackEvents, failed
<1>6. DecidingTyped'
  <2>1. failed \in Seq(GraphRuns)
    BY <1>3
  <2>2. record' \in
          [GraphRuns -> [due : Seq(GraphRuns), fallbacks : Seq(GraphRuns), usage : Usages]]
    BY <1>1, <1>5, <2>1 DEF DecidingTyped
  <2>3. dstate' \in [GraphRuns -> AState] /\ direct' \subseteq GraphRuns
        /\ overtaken' \subseteq GraphRuns
    BY <1>1, <1>5 DEF DecidingTyped, Others
  <2>4. rstage' \in [DecidingRuns ->
                       {"idle", "telling", "told", "gone", "looping", "failed", "done"}]
    BY <1>1, <1>5 DEF DecidingTyped
  <2>5. /\ model' \in {"qwen", "deterministic"} /\ AvailableTyped' /\ recovers' \subseteq LoopRuns
        /\ consulting' \in LoopRuns \union {NoConsultant}
    BY <1>1 DEF DecidingTyped, AvailableTyped, loopingVars
  <2>. QED
    BY <1>3, <2>2, <2>3, <2>4, <2>5 DEF DecidingTyped
<1>7. StepsTyped'
  BY <1>1 DEF StepsTyped, loopingVars
<1>8. DecisionAt(r)' /\ FallbacksAt(r)' /\ UsageAt(r)'
  <2>1. /\ rstage'[r] = "telling" /\ dstate'[r] = s /\ record'[r].due = failed
        /\ record'[r].fallbacks = <<>> /\ available'[r] = available[r] /\ model' = model
    BY <1>1, <1>4, <1>5 DEF DecidingTyped
  <2>2. DecisionAt(r)'
    BY <2>1 DEF DecisionAt, Agrees, Charged
  <2>3. Len(failed) + Len(<<>>) = Len(failed) /\ <<>> \in Seq({r})
    BY <1>3
  <2>4. FallbacksAt(r)'
    BY <1>3, <2>1, <2>3 DEF FallbacksAt
  <2>5. UsageAt(r)'
    BY <1>3, <2>1 DEF UsageAt, OwnUsage
  <2>. QED
    BY <2>2, <2>4, <2>5
<1>9. ASSUME NEW q \in GraphRuns, q # r PROVE DecisionAt(q)' /\ FallbacksAt(q)' /\ UsageAt(q)'
  <2>1. /\ rstage'[q] = rstage[q] /\ dstate'[q] = dstate[q] /\ record'[q] = record[q]
        /\ q \in direct' <=> q \in direct
        /\ answered'[q] = answered[q] /\ refused'[q] = refused[q]
    BY <1>1, <1>3, <1>5, <1>9 DEF DecidingTyped
  <2>2. (q \in overtaken => q \in overtaken') /\ (rstage[q] = "telling" => q \in overtaken')
    BY <1>5, <1>9 DEF Others
  <2>3. DecisionAt(q) /\ FallbacksAt(q) /\ UsageAt(q)
    BY DEF DecisionInv
  <2>. QED
    BY <2>1, <2>2, <2>3, DecisionKept, FallbacksKept, UsageKept
<1>10. ASSUME NEW q \in LoopRuns PROVE LoopAt(q)' /\ RecoveringAt(q)'
  <2>1. q \in DecidingRuns \ {r} /\ q # NoConsultant
    BY RunsDistinct
  <2>2. /\ rstage'[q] = rstage[q] /\ steps'[q] = steps[q] /\ answered'[q] = answered[q]
        /\ (q \in recovers' <=> q \in recovers) /\ consulting' # q /\ model' = model
    BY <1>1, <1>3, <1>5, <2>1 DEF DecidingTyped, loopingVars
  <2>3. LoopAt(q) /\ RecoveringAt(q)
    BY DEF DecisionInv
  <2>. QED
    BY <2>2, <2>3, LoopKept
<1>. QED
  BY <1>5, <1>6, <1>7, <1>8, <1>9, <1>10 DEF DecisionInv

LEMMA RunGraphOnceKeeps ==
  ASSUME DecisionInv, NEW r \in GraphRuns, RunGraphOnce(r)
  PROVE  DecisionInv'
<1>0. PICK answer \in Consultations : \E v \in VerdictsFor(r, answer) :
        DecideOnceFor(r, "nothing", answer) /\ Decided(r, Graph(r, v), FallbacksOf(r, answer))
  BY DEF RunGraphOnce
<1>1. PICK v \in VerdictsFor(r, answer) :
        DecideOnceFor(r, "nothing", answer) /\ Decided(r, Graph(r, v), FallbacksOf(r, answer))
  BY <1>0
<1>2. consulting = NoConsultant /\ rstage[r] = "idle" /\ direct' = direct
      /\ saverFailures' = saverFailures /\ UNCHANGED <<model, available, loopingVars>>
  BY DEF RunGraphOnce
<1>3. DecidingTyped /\ AvailableTyped /\ DecisionAt(r) /\ r \in DecidingRuns
  BY RunsDistinct DEF DecisionInv, DecidingTyped
<1>4. r \notin direct'
  BY <1>2, <1>3 DEF DecisionAt
<1>5. v \in Verdicts
  BY <1>3, VerdictsGiven
<1>6. /\ Graph(r, v) \in AState /\ Agrees(Graph(r, v), FALSE)
      /\ Charged(Graph(r, v), available[r], FALSE)
  BY <1>3, <1>5, GraphAgrees
<1>7. Agrees(Graph(r, v), r \in direct') /\ Charged(Graph(r, v), available[r], r \in direct')
  BY <1>4, <1>6 DEF Agrees, Charged
<1>8. FallbacksOf(r, "nothing") \o FallbacksOf(r, answer) = FallbacksOf(r, answer)
  BY DEF FallbacksOf
<1>9. saverFailures' \in Nat
  BY <1>2, <1>3 DEF DecidingTyped
<1>10. Decided(r, Graph(r, v), FallbacksOf(r, "nothing") \o FallbacksOf(r, answer))
  BY <1>1, <1>8
<1>. QED
  BY <1>1, <1>2, <1>6, <1>7, <1>9, <1>10, GraphDecides

LEMMA DecideWithoutGraphKeeps ==
  ASSUME DecisionInv, NEW r \in GraphRuns, DecideWithoutGraph(r)
  PROVE  DecisionInv'
<1>0. PICK before \in {"nothing"} \union (IF model = "qwen" THEN {"raises", "answers"} ELSE {}),
           answer \in Consultations : \E v \in VerdictsFor(r, answer) :
        /\ DecideOnceFor(r, before, answer)
        /\ Decided(r, WithDecision(InitialState(r), v),
                   FallbacksOf(r, before) \o FallbacksOf(r, answer))
  BY DEF DecideWithoutGraph
<1>1. PICK v \in VerdictsFor(r, answer) :
        /\ DecideOnceFor(r, before, answer)
        /\ Decided(r, WithDecision(InitialState(r), v),
                   FallbacksOf(r, before) \o FallbacksOf(r, answer))
  BY <1>0
<1>2. consulting = NoConsultant /\ rstage[r] = "idle" /\ direct' = direct \union {r}
      /\ saverFailures' = saverFailures + 1 /\ UNCHANGED <<model, available, loopingVars>>
  BY DEF DecideWithoutGraph
<1>3. DecidingTyped /\ AvailableTyped /\ r \in DecidingRuns
  BY RunsDistinct DEF DecisionInv, DecidingTyped
<1>. DEFINE s == WithDecision(InitialState(r), v)
<1>4. v \in Verdicts /\ before \in {"nothing", "raises", "answers"}
  BY <1>3, VerdictsGiven
<1>5. s \in AState /\ Agrees(s, TRUE) /\ Charged(s, available[r], TRUE)
  BY <1>3, <1>4, WithoutGraphAgrees
<1>. HIDE DEF s
<1>6. Agrees(s, r \in direct') /\ Charged(s, available[r], r \in direct')
  BY <1>2, <1>5 DEF Agrees, Charged
<1>7. saverFailures' \in Nat
  BY <1>2, <1>3 DEF DecidingTyped
<1>8. Decided(r, s, FallbacksOf(r, before) \o FallbacksOf(r, answer))
  BY <1>1 DEF s
<1>. QED
  BY <1>1, <1>2, <1>4, <1>5, <1>6, <1>7, <1>8, GraphDecides

(* A run that tells: its record and its stage, and nothing else, change.   *)
LEMMA TellingKeeps ==
  ASSUME DecisionInv, NEW r \in GraphRuns, consulting = NoConsultant,
         NEW stage \in {"telling", "told", "gone"}, rstage[r] = "telling",
         NEW due \in Seq({r}), NEW fallbacks \in Seq({r}), NEW usage \in Usages,
         Len(due) + Len(fallbacks) = refused[r],
         stage = "told" => due = <<>> /\ usage = lastUsage,
         rstage' = [rstage EXCEPT ![r] = stage],
         record' = [record EXCEPT ![r] = [due |-> due, fallbacks |-> fallbacks, usage |-> usage]],
         UNCHANGED <<model, available, dstate, direct, fallbackEvents, overtaken, saverFailures,
                     loopingVars, usageVars>>
  PROVE  DecisionInv'
<1>1. /\ DecidingTyped /\ StepsTyped /\ fallbackEvents = <<>> /\ DecisionAt(r) /\ UsageAt(r)
      /\ r \in DecidingRuns /\ \A q \in GraphRuns : q \in DecidingRuns
  BY RunsDistinct DEF DecisionInv
<1>2. DecidingTyped'
  <2>1. due \in Seq(GraphRuns) /\ fallbacks \in Seq(GraphRuns)
    OBVIOUS
  <2>2. record' \in
          [GraphRuns -> [due : Seq(GraphRuns), fallbacks : Seq(GraphRuns), usage : Usages]]
    BY <1>1, <2>1 DEF DecidingTyped
  <2>3. rstage' \in [DecidingRuns ->
                       {"idle", "telling", "told", "gone", "looping", "failed", "done"}]
    BY <1>1 DEF DecidingTyped
  <2>. QED
    BY <1>1, <2>2, <2>3 DEF DecidingTyped, AvailableTyped, loopingVars, usageVars
<1>3. /\ rstage'[r] = stage /\ record'[r].due = due /\ record'[r].fallbacks = fallbacks
      /\ record'[r].usage = usage
  BY <1>1 DEF DecidingTyped
<1>4. DecisionAt(r)'
  <2>1. /\ rstage[r] # "idle" /\ rstage'[r] # "idle"
        /\ rstage'[r] \in {"idle", "telling", "told", "gone"}
    BY <1>3
  <2>2. Agrees(dstate[r], r \in direct)' /\ Charged(dstate[r], available[r], r \in direct)'
    BY <1>1, <2>1 DEF DecisionAt, Agrees, Charged
  <2>. QED
    BY <2>1, <2>2 DEF DecisionAt
<1>5. FallbacksAt(r)'
  BY <1>3 DEF FallbacksAt, usageVars
<1>6. UsageAt(r)'
  <2>1. r \in overtaken \/ OwnUsage(r, lastUsage)
    BY <1>1 DEF UsageAt
  <2>2. r \in overtaken' \/ OwnUsage(r, lastUsage)'
    BY <2>1 DEF OwnUsage, usageVars
  <2>3. stage = "told" => record'[r].usage = lastUsage'
    BY <1>3 DEF usageVars
  <2>. QED
    BY <1>3, <2>2, <2>3 DEF UsageAt, OwnUsage
<1>7. ASSUME NEW q \in GraphRuns, q # r PROVE DecisionAt(q)' /\ FallbacksAt(q)' /\ UsageAt(q)'
  <2>1. rstage'[q] = rstage[q] /\ record'[q] = record[q]
    BY <1>1, <1>7 DEF DecidingTyped
  <2>2. DecisionAt(q) /\ FallbacksAt(q) /\ UsageAt(q)
    BY DEF DecisionInv
  <2>3. answered' = answered /\ refused' = refused /\ lastUsage' = lastUsage
    BY DEF usageVars
  <2>. QED
    BY <2>1, <2>2, <2>3, DecisionKept, FallbacksKept, UsageKept
<1>8. ASSUME NEW q \in LoopRuns PROVE LoopAt(q)' /\ RecoveringAt(q)'
  <2>1. q \in DecidingRuns /\ q # r
    BY RunsDistinct
  <2>2. rstage'[q] = rstage[q] /\ steps' = steps /\ answered' = answered /\ recovers' = recovers
        /\ consulting' = consulting /\ invoked' = invoked
    BY <1>1, <2>1 DEF DecidingTyped, loopingVars, usageVars
  <2>3. LoopAt(q) /\ RecoveringAt(q)
    BY DEF DecisionInv
  <2>. QED
    BY <2>2, <2>3, LoopKept
<1>9. StepsTyped'
  BY <1>1 DEF StepsTyped, loopingVars
<1>. QED
  BY <1>1, <1>2, <1>4, <1>5, <1>6, <1>7, <1>8, <1>9 DEF DecisionInv

LEMMA Retold ==
  ASSUME NEW S, NEW U, NEW old \in [due : S, fallbacks : S, usage : U],
         NEW due \in S, NEW fallbacks \in S
  PROVE  [old EXCEPT !.fallbacks = fallbacks, !.due = due] =
           [due |-> due, fallbacks |-> fallbacks, usage |-> old.usage]
<1>1. [old EXCEPT !.fallbacks = fallbacks] =
        [due |-> old.due, fallbacks |-> fallbacks, usage |-> old.usage]
  OBVIOUS
<1>2. [[due |-> old.due, fallbacks |-> fallbacks, usage |-> old.usage] EXCEPT !.due = due]
         = [due |-> due, fallbacks |-> fallbacks, usage |-> old.usage]
  OBVIOUS
<1>3. [old EXCEPT !.fallbacks = fallbacks, !.due = due] =
        [[old EXCEPT !.fallbacks = fallbacks] EXCEPT !.due = due]
  OBVIOUS
<1>. QED
  BY <1>1, <1>2, <1>3

LEMMA TellFallbackKeeps ==
  ASSUME DecisionInv, NEW r \in GraphRuns, TellFallback(r)
  PROVE  DecisionInv'
<1>. DEFINE due == Tail(record[r].due)
            fallbacks == Append(record[r].fallbacks, Head(record[r].due))
            usage == record[r].usage
<1>1. DecidingTyped /\ FallbacksAt(r) /\ r \in DecidingRuns
  BY RunsDistinct DEF DecisionInv
<1>2. /\ consulting = NoConsultant /\ rstage[r] = "telling" /\ record[r].due # <<>>
      /\ rstage' = rstage
      /\ UNCHANGED <<model, available, dstate, direct, fallbackEvents, overtaken, saverFailures,
                     loopingVars, usageVars>>
  BY DEF TellFallback
<1>3. record[r] \in [due : Seq(GraphRuns), fallbacks : Seq(GraphRuns), usage : Usages]
  BY <1>1 DEF DecidingTyped
<1>4. \A d \in Seq({r}), f \in Seq({r}) : d # <<>> =>
        /\ Tail(d) \in Seq({r}) /\ Append(f, Head(d)) \in Seq({r})
        /\ Len(Tail(d)) + Len(Append(f, Head(d))) = Len(d) + Len(f)
  OBVIOUS
<1>5. due \in Seq({r}) /\ fallbacks \in Seq({r}) /\ Len(due) + Len(fallbacks) = refused[r]
  BY <1>1, <1>2, <1>4 DEF FallbacksAt
<1>6. due \in Seq(GraphRuns) /\ fallbacks \in Seq(GraphRuns)
  BY <1>5
<1>7. record' = [record EXCEPT ![r] = [due |-> due, fallbacks |-> fallbacks, usage |-> usage]]
  <2>1. record' = [record EXCEPT ![r] =
                     [record[r] EXCEPT !.fallbacks = Append(@, Head(record[r].due)),
                                       !.due = Tail(@)]]
    BY <1>1 DEF DecidingTyped, TellFallback
  <2>2. [record[r] EXCEPT !.fallbacks = Append(@, Head(record[r].due)), !.due = Tail(@)] =
          [record[r] EXCEPT !.fallbacks = fallbacks, !.due = due]
    OBVIOUS
  <2>3. [record[r] EXCEPT !.fallbacks = fallbacks, !.due = due] =
          [due |-> due, fallbacks |-> fallbacks, usage |-> usage]
    BY <1>3, <1>6, Retold
  <2>. QED
    BY <2>1, <2>2, <2>3
<1>8. usage \in Usages
  BY <1>3
<1>9. rstage' = [rstage EXCEPT ![r] = "telling"]
  BY <1>1, <1>2 DEF DecidingTyped
<1>. HIDE DEF due, fallbacks, usage
<1>. QED
  BY <1>2, <1>5, <1>7, <1>8, <1>9, TellingKeeps

LEMMA TellDecisionKeeps ==
  ASSUME DecisionInv, NEW r \in GraphRuns, TellDecision(r)
  PROVE  DecisionInv'
<1>. DEFINE due == record[r].due
            fallbacks == record[r].fallbacks
            usage == lastUsage
<1>1. DecidingTyped /\ FallbacksAt(r) /\ r \in DecidingRuns
  BY RunsDistinct DEF DecisionInv
<1>2. /\ consulting = NoConsultant /\ rstage[r] = "telling" /\ due = <<>>
      /\ rstage' = [rstage EXCEPT ![r] = "told"]
      /\ UNCHANGED <<model, available, dstate, direct, fallbackEvents, overtaken, saverFailures,
                     loopingVars, usageVars>>
  BY DEF TellDecision
<1>3. record[r] \in [due : Seq(GraphRuns), fallbacks : Seq(GraphRuns), usage : Usages]
  BY <1>1 DEF DecidingTyped
<1>4. record' = [record EXCEPT ![r] = [due |-> due, fallbacks |-> fallbacks, usage |-> usage]]
  <2>1. record' = [record EXCEPT ![r] = [record[r] EXCEPT !.usage = lastUsage]]
    BY <1>1 DEF DecidingTyped, TellDecision
  <2>2. [record[r] EXCEPT !.usage = lastUsage] =
          [due |-> due, fallbacks |-> fallbacks, usage |-> usage]
    BY <1>3
  <2>. QED
    BY <2>1, <2>2
<1>5. due \in Seq({r}) /\ fallbacks \in Seq({r}) /\ Len(due) + Len(fallbacks) = refused[r]
  BY <1>1 DEF FallbacksAt
<1>6. usage \in Usages
  BY <1>1 DEF DecidingTyped
<1>7. "told" = "told" => due = <<>> /\ usage = lastUsage
  BY <1>2
<1>. HIDE DEF due, fallbacks, usage
<1>. QED
  BY <1>2, <1>4, <1>5, <1>6, <1>7, TellingKeeps

LEMMA LeaveBeforeDecisionKeeps ==
  ASSUME DecisionInv, NEW r \in GraphRuns, LeaveBeforeDecision(r)
  PROVE  DecisionInv'
<1>. DEFINE due == record[r].due
            fallbacks == record[r].fallbacks
            usage == record[r].usage
<1>1. DecidingTyped /\ FallbacksAt(r) /\ r \in DecidingRuns
  BY RunsDistinct DEF DecisionInv
<1>2. /\ consulting = NoConsultant /\ rstage[r] = "telling"
      /\ rstage' = [rstage EXCEPT ![r] = "gone"] /\ record' = record
      /\ UNCHANGED <<model, available, dstate, direct, fallbackEvents, overtaken, saverFailures,
                     loopingVars, usageVars>>
  BY DEF LeaveBeforeDecision, graphVars
<1>3. record[r] \in [due : Seq(GraphRuns), fallbacks : Seq(GraphRuns), usage : Usages]
  BY <1>1 DEF DecidingTyped
<1>4. record' = [record EXCEPT ![r] = [due |-> due, fallbacks |-> fallbacks, usage |-> usage]]
  <2>1. record[r] = [due |-> due, fallbacks |-> fallbacks, usage |-> usage]
    BY <1>3
  <2>. QED
    BY <1>1, <1>2, <2>1 DEF DecidingTyped
<1>5. due \in Seq({r}) /\ fallbacks \in Seq({r}) /\ Len(due) + Len(fallbacks) = refused[r]
  BY <1>1 DEF FallbacksAt
<1>6. usage \in Usages
  BY <1>3
<1>. HIDE DEF due, fallbacks, usage
<1>. QED
  BY <1>2, <1>4, <1>5, <1>6, TellingKeeps

(* A step of the loop that a run drives, or its beginning.                 *)
LEMMA LoopingKeeps ==
  ASSUME DecisionInv, NEW r \in LoopRuns, NEW stage \in {"looping", "failed", "done"},
         NEW n \in Nat, NEW m \in Nat, NEW trace \in Seq(LoopStep),
         consulting \in {NoConsultant, r}, consulting' \in {NoConsultant, r},
         rstage' = [rstage EXCEPT ![r] = stage], answered' = [answered EXCEPT ![r] = n],
         refused' = [refused EXCEPT ![r] = m], steps' = [steps EXCEPT ![r] = trace],
         recovers' \in {recovers, recovers \union {r}}, invoked' \in Usages,
         UNCHANGED <<model, available, graphVars, lastUsage>>,
         LoopAt(r)', RecoveringAt(r)'
  PROVE  DecisionInv'
<1>1. /\ DecidingTyped /\ StepsTyped /\ fallbackEvents = <<>> /\ r \in DecidingRuns
      /\ \A q \in LoopRuns : q \in DecidingRuns /\ q # NoConsultant
      /\ \A q \in GraphRuns : q \in DecidingRuns /\ q # r
  BY RunsDistinct DEF DecisionInv
<1>2. DecidingTyped'
  <2>1. rstage' \in [DecidingRuns ->
                       {"idle", "telling", "told", "gone", "looping", "failed", "done"}]
    BY <1>1 DEF DecidingTyped
  <2>2. answered' \in [DecidingRuns -> Nat] /\ refused' \in [DecidingRuns -> Nat]
    BY <1>1 DEF DecidingTyped
  <2>3. recovers' \subseteq LoopRuns /\ consulting' \in LoopRuns \union {NoConsultant}
    BY <1>1 DEF DecidingTyped
  <2>. QED
    BY <1>1, <2>1, <2>2, <2>3 DEF DecidingTyped, AvailableTyped, graphVars
<1>3. StepsTyped'
  BY <1>1 DEF StepsTyped
<1>4. ASSUME NEW q \in GraphRuns PROVE DecisionAt(q)' /\ FallbacksAt(q)' /\ UsageAt(q)'
  <2>1. /\ rstage'[q] = rstage[q] /\ answered'[q] = answered[q] /\ refused'[q] = refused[q]
        /\ dstate' = dstate /\ record' = record /\ direct' = direct /\ overtaken' = overtaken
    BY <1>1 DEF DecidingTyped, graphVars
  <2>2. DecisionAt(q) /\ FallbacksAt(q) /\ UsageAt(q)
    BY DEF DecisionInv
  <2>. QED
    BY <2>1, <2>2, DecisionKept, FallbacksKept, UsageKept
<1>5. ASSUME NEW q \in LoopRuns, q # r PROVE LoopAt(q)' /\ RecoveringAt(q)'
  <2>1. /\ rstage'[q] = rstage[q] /\ steps'[q] = steps[q] /\ answered'[q] = answered[q]
        /\ (q \in recovers' <=> q \in recovers) /\ consulting' # q
    BY <1>1, <1>5 DEF DecidingTyped, StepsTyped
  <2>2. LoopAt(q) /\ RecoveringAt(q)
    BY DEF DecisionInv
  <2>. QED
    BY <2>1, <2>2, LoopKept
<1>. QED
  BY <1>1, <1>2, <1>3, <1>4, <1>5 DEF DecisionInv, graphVars

(* What a step adds to what the trace names.                               *)
LEMMA Recorded ==
  ASSUME NEW trace \in Seq(LoopStep), NEW step \in LoopStep
  PROVE  /\ Append(trace, step) \in Seq(LoopStep) /\ Len(Append(trace, step)) = Len(trace) + 1
         /\ Named(Append(trace, step)) = (Named(trace) \union {step.usage}) \ {Zero}
         /\ Paused(Append(trace, step)) <=> Paused(trace) \/ step.by = "approval"
<1>1. /\ Append(trace, step) \in Seq(LoopStep) /\ Len(Append(trace, step)) = Len(trace) + 1
      /\ DOMAIN Append(trace, step) = DOMAIN trace \union {Len(trace) + 1}
      /\ Append(trace, step)[Len(trace) + 1] = step
      /\ \A i \in DOMAIN trace : Append(trace, step)[i] = trace[i]
  OBVIOUS
<1>. DEFINE more == Append(trace, step)
<1>. HIDE DEF more
<1>2. /\ DOMAIN more = DOMAIN trace \union {Len(trace) + 1}
      /\ more[Len(trace) + 1] = step /\ \A i \in DOMAIN trace : more[i] = trace[i]
  BY <1>1 DEF more
<1>3. {more[i].usage : i \in DOMAIN more} =
        {trace[i].usage : i \in DOMAIN trace} \union {step.usage}
  BY <1>2
<1>4. Paused(more) <=> Paused(trace) \/ step.by = "approval"
  BY <1>2 DEF Paused
<1>. QED
  BY <1>1, <1>3, <1>4 DEF Named, more

LEMMA BeginLoopKeeps ==
  ASSUME DecisionInv, NEW r \in LoopRuns, BeginLoop(r)
  PROVE  DecisionInv'
<1>1. DecidingTyped /\ StepsTyped /\ LoopAt(r) /\ r \in DecidingRuns
  BY RunsDistinct DEF DecisionInv
<1>2. /\ consulting = NoConsultant /\ rstage[r] = "idle" /\ consulting' = r
      /\ rstage' = [rstage EXCEPT ![r] = "looping"]
      /\ recovers' = recovers /\ steps' = steps /\ invoked' = invoked /\ answered' = answered
      /\ refused' = refused /\ UNCHANGED <<model, available, graphVars, lastUsage>>
  BY DEF BeginLoop, usageVars
<1>3. rstage'[r] = "looping"
  BY <1>1, <1>2 DEF DecidingTyped
<1>4. r \notin recovers /\ ~Paused(steps[r])
  BY <1>1, <1>2 DEF LoopAt
<1>5. RecoveringAt(r)' /\ LoopAt(r)'
  BY <1>1, <1>2, <1>3, <1>4 DEF RecoveringAt, LoopAt, Paused, Named, AnswersOf
<1>6. /\ answered[r] \in Nat /\ refused[r] \in Nat /\ steps[r] \in Seq(LoopStep)
      /\ answered = [answered EXCEPT ![r] = answered[r]] /\ steps = [steps EXCEPT ![r] = steps[r]]
      /\ refused = [refused EXCEPT ![r] = refused[r]] /\ invoked \in Usages
  BY <1>1 DEF DecidingTyped, StepsTyped
<1>. QED
  BY <1>2, <1>5, <1>6, LoopingKeeps

LEMMA ProviderFailsKeeps ==
  ASSUME DecisionInv, NEW r \in LoopRuns, ProviderFails(r)
  PROVE  DecisionInv'
<1>1. DecidingTyped /\ StepsTyped /\ LoopAt(r) /\ r \in DecidingRuns /\ r # NoConsultant
  BY RunsDistinct DEF DecisionInv
<1>2. /\ consulting = r /\ consulting' = NoConsultant
      /\ rstage' = [rstage EXCEPT ![r] = "failed"]
      /\ recovers' = recovers /\ steps' = steps /\ invoked' = invoked /\ answered' = answered
      /\ refused' = [refused EXCEPT ![r] = refused[r] + 1]
      /\ UNCHANGED <<model, available, graphVars, lastUsage>>
  BY DEF ProviderFails, Looping, LeaveLoop
<1>3. rstage'[r] = "failed" /\ ~Paused(steps[r])
  BY <1>1, <1>2 DEF DecidingTyped, LoopAt
<1>4. RecoveringAt(r)' /\ LoopAt(r)'
  BY <1>1, <1>2, <1>3 DEF RecoveringAt, LoopAt, Paused, Named, AnswersOf
<1>5. /\ answered[r] \in Nat /\ refused[r] + 1 \in Nat /\ steps[r] \in Seq(LoopStep)
      /\ answered = [answered EXCEPT ![r] = answered[r]] /\ steps = [steps EXCEPT ![r] = steps[r]]
      /\ invoked \in Usages
  BY <1>1 DEF DecidingTyped, StepsTyped
<1>. QED
  BY <1>2, <1>4, <1>5, LoopingKeeps

LEMMA EndLoopKeeps ==
  ASSUME DecisionInv, NEW r \in LoopRuns, EndLoop(r)
  PROVE  DecisionInv'
<1>1. DecidingTyped /\ StepsTyped /\ LoopAt(r) /\ r \in DecidingRuns /\ r # NoConsultant
  BY RunsDistinct DEF DecisionInv
<1>2. /\ consulting = r /\ consulting' = NoConsultant
      /\ rstage' = [rstage EXCEPT ![r] = "done"]
      /\ recovers' = recovers /\ steps' = steps /\ invoked' = invoked /\ answered' = answered
      /\ refused' = refused /\ UNCHANGED <<model, available, graphVars, lastUsage>>
  BY DEF EndLoop, LeaveLoop, usageVars
<1>3. rstage'[r] = "done"
  BY <1>1, <1>2 DEF DecidingTyped
<1>4. RecoveringAt(r)' /\ LoopAt(r)'
  BY <1>1, <1>2, <1>3 DEF RecoveringAt, LoopAt, Paused, Named, AnswersOf
<1>5. /\ answered[r] \in Nat /\ refused[r] \in Nat /\ steps[r] \in Seq(LoopStep)
      /\ answered = [answered EXCEPT ![r] = answered[r]] /\ steps = [steps EXCEPT ![r] = steps[r]]
      /\ refused = [refused EXCEPT ![r] = refused[r]] /\ invoked \in Usages
  BY <1>1 DEF DecidingTyped, StepsTyped
<1>. QED
  BY <1>2, <1>4, <1>5, LoopingKeeps

LEMMA AnswersCounted ==
  ASSUME NEW r \in DecidingRuns, NEW n \in Nat
  PROVE  /\ AnswersOf(r, n + 1) = AnswersOf(r, n) \union {<<r, n + 1>>}
         /\ Zero \notin AnswersOf(r, n) /\ AnswersOf(r, n - 0) = AnswersOf(r, n)
         /\ n >= 1 => <<r, n>> \in AnswersOf(r, n)
<1>1. 1 .. n + 1 = (1 .. n) \union {n + 1}
  OBVIOUS
<1>2. AnswersOf(r, n + 1) = AnswersOf(r, n) \union {<<r, n + 1>>}
  BY <1>1 DEF AnswersOf
<1>3. Zero \notin AnswersOf(r, n)
  BY RunsDistinct DEF AnswersOf
<1>. QED
  BY <1>2, <1>3 DEF AnswersOf

LEMMA StepRecorded ==
  ASSUME DecisionInv, NEW r \in LoopRuns, Looping(r), NEW step \in LoopStep, NEW n \in Nat,
         n <= answered[r] + 1, NEW stage \in {"looping", "done"}, rstage'[r] = stage,
         answered'[r] = n, steps'[r] = Append(steps[r], step), model' = model,
         model = "deterministic" => n = 0, consulting' = r => stage = "looping",
         step.by = "approval" => stage = "done",
         (AnswersOf(r, answered[r]) \union {step.usage}) \ {Zero} =
           AnswersOf(r, n - IF step.by = "approval" /\ model = "qwen" THEN 1 ELSE 0)
  PROVE  LoopAt(r)'
<1>1. /\ DecidingTyped /\ StepsTyped /\ LoopAt(r) /\ r \in DecidingRuns
      /\ consulting = r /\ Len(steps[r]) < StepLimit
  BY RunsDistinct DEF DecisionInv, Looping
<1>2. /\ steps[r] \in Seq(LoopStep) /\ answered[r] \in Nat /\ Len(steps[r]) \in Nat
      /\ StepLimit \in Nat
  BY <1>1, DecisionAssumption DEF StepsTyped, DecidingTyped
<1>3. ~Paused(steps[r]) /\ Named(steps[r]) = AnswersOf(r, answered[r])
  BY <1>1, <1>2, AnswersCounted DEF LoopAt
<1>4. /\ Len(steps'[r]) = Len(steps[r]) + 1
      /\ Named(steps'[r]) = (Named(steps[r]) \union {step.usage}) \ {Zero}
      /\ (Paused(steps'[r]) <=> step.by = "approval")
  BY <1>2, <1>3, Recorded
<1>5. n <= Len(steps'[r]) /\ Len(steps'[r]) <= StepLimit
  <2>1. answered[r] <= Len(steps[r])
    BY <1>1 DEF LoopAt
  <2>. QED
    BY <1>1, <1>2, <1>4, <2>1
<1>6. Named(steps'[r]) =
        AnswersOf(r, answered'[r] - IF Paused(steps'[r]) /\ model' = "qwen" THEN 1 ELSE 0)
  BY <1>3, <1>4
<1>7. Paused(steps[r])' <=> Paused(steps'[r])
  BY DEF Paused
<1>8. Named(steps[r])' = Named(steps'[r])
  BY DEF Named
<1>9. \A i : AnswersOf(r, i)' = AnswersOf(r, i)
  BY DEF AnswersOf
<1>. QED
  BY <1>4, <1>5, <1>6, <1>7, <1>8, <1>9 DEF LoopAt

LEMMA ProviderStepKeeps ==
  ASSUME DecisionInv, NEW r \in LoopRuns, ProviderStep(r)
  PROVE  DecisionInv'
<1>. DEFINE n == IF model = "qwen" THEN answered[r] + 1 ELSE answered[r]
            usage == IF model = "qwen" THEN <<r, n>> ELSE Zero
            Step(by, u) == [by |-> by, usage |-> u]
<1>1. /\ DecidingTyped /\ StepsTyped /\ LoopAt(r) /\ r \in DecidingRuns /\ r # NoConsultant
      /\ Looping(r) /\ consulting = r /\ r \notin recovers /\ Len(steps[r]) < StepLimit
      /\ UNCHANGED <<model, available, graphVars, lastUsage, refused>>
  BY RunsDistinct DEF DecisionInv, ProviderStep, Looping
<1>2. /\ steps[r] \in Seq(LoopStep) /\ answered[r] \in Nat /\ refused[r] \in Nat
      /\ StepLimit \in Nat /\ Len(steps[r]) \in Nat
      /\ refused = [refused EXCEPT ![r] = refused[r]]
  BY <1>1, DecisionAssumption DEF StepsTyped, DecidingTyped
<1>3. n \in Nat /\ n <= answered[r] + 1 /\ n <= StepLimit /\ (model = "qwen" => n >= 1)
      /\ (model = "deterministic" => n = 0 /\ answered[r] = 0)
      /\ (model # "qwen" => model = "deterministic")
  BY <1>1, <1>2 DEF LoopAt, DecidingTyped
<1>4. answered' = [answered EXCEPT ![r] = n] /\ answered'[r] = n
      /\ (model = "qwen" => invoked' = <<r, n>>) /\ (model # "qwen" => invoked' = invoked)
  <2>1. CASE model = "qwen"
    <3>1. answered' = [answered EXCEPT ![r] = answered[r] + 1] /\ invoked' = <<r, answered'[r]>>
      BY <2>1 DEF ProviderStep
    <3>. QED
      BY <1>1, <2>1, <3>1 DEF DecidingTyped
  <2>2. CASE model # "qwen"
    BY <1>1, <2>2 DEF ProviderStep, DecidingTyped
  <2>. QED
    BY <2>1, <2>2
<1>5. usage \in Usages /\ Zero \in Usages /\ invoked' \in Usages
  <2>1. Zero \in Usages /\ invoked \in Usages /\ (model = "qwen" => n <= StepLimit + 2)
    BY <1>1, <1>2, <1>3, UsagesTyped DEF DecidingTyped
  <2>2. model = "qwen" => <<r, n>> \in Usages
    BY <1>1, <1>3, <2>1, UsagesTyped
  <2>. QED
    BY <1>4, <2>1, <2>2
<1>6. /\ (AnswersOf(r, answered[r]) \union {Zero}) \ {Zero} =
           AnswersOf(r, n - IF TRUE /\ model = "qwen" THEN 1 ELSE 0)
      /\ (AnswersOf(r, answered[r]) \union {usage}) \ {Zero} =
           AnswersOf(r, n - IF FALSE /\ model = "qwen" THEN 1 ELSE 0)
  <2>1. Zero \notin AnswersOf(r, answered[r]) /\ AnswersOf(r, n - 0) = AnswersOf(r, n)
    BY <1>1, <1>2, <1>3, AnswersCounted
  <2>2. CASE model = "qwen"
    <3>1. n - 1 = answered[r] /\ n = answered[r] + 1 /\ usage = <<r, answered[r] + 1>>
      BY <1>2, <2>2
    <3>2. AnswersOf(r, n) = AnswersOf(r, answered[r]) \union {usage} /\ usage # Zero
      BY <1>1, <1>2, <3>1, AnswersCounted, RunsDistinct
    <3>. HIDE DEF n, usage
    <3>. QED
      BY <2>1, <2>2, <3>1, <3>2
  <2>3. CASE model # "qwen"
    <3>1. n = answered[r] /\ usage = Zero
      BY <2>3
    <3>. HIDE DEF n, usage
    <3>. QED
      BY <2>1, <2>3, <3>1
  <2>. QED
    BY <2>2, <2>3
<1>7. /\ \/ /\ TakeStep(r, "approval", Zero) /\ LeaveLoop(r, "done") /\ recovers' = recovers
         \/ /\ TakeStep(r, "provider", usage) /\ LeaveLoop(r, "done") /\ recovers' = recovers
         \/ /\ TakeStep(r, "provider", usage) /\ consulting' = consulting /\ rstage' = rstage
            /\ recovers' \in {recovers, recovers \union {r}}
  BY <1>4 DEF ProviderStep
<1>. HIDE DEF n, usage
<1>8. rstage[r] = "looping" /\ rstage = [rstage EXCEPT ![r] = "looping"]
  BY <1>1 DEF LoopAt, DecidingTyped
<1>9. PICK by \in {"approval", "provider"}, u \in {Zero, usage}, stage \in {"looping", "done"} :
        /\ (by = "approval" => u = Zero /\ stage = "done") /\ (by = "provider" => u = usage)
        /\ steps' = [steps EXCEPT ![r] = Append(@, Step(by, u))]
        /\ rstage' = [rstage EXCEPT ![r] = stage] /\ recovers' \in {recovers, recovers \union {r}}
        /\ consulting' = IF stage = "done" THEN NoConsultant ELSE r
  BY <1>1, <1>7, <1>8 DEF TakeStep, LeaveLoop
<1>10. Step(by, u) \in LoopStep /\ Step(by, u).by = by /\ Step(by, u).usage = u
  BY <1>5 DEF LoopStep
<1>. DEFINE step == Step(by, u)
            trace == Append(steps[r], step)
<1>. HIDE DEF step, Step
<1>11. trace \in Seq(LoopStep) /\ steps' = [steps EXCEPT ![r] = trace] /\ steps'[r] = trace
       /\ rstage'[r] = stage
  BY <1>1, <1>2, <1>9, <1>10 DEF StepsTyped, DecidingTyped, step
<1>12. (AnswersOf(r, answered[r]) \union {step.usage}) \ {Zero} =
         AnswersOf(r, n - IF step.by = "approval" /\ model = "qwen" THEN 1 ELSE 0)
  <2>1. CASE by = "approval"
    BY <1>6, <1>9, <1>10, <2>1 DEF step
  <2>2. CASE by = "provider"
    BY <1>6, <1>9, <1>10, <2>2 DEF step
  <2>. QED
    BY <2>1, <2>2
<1>13. LoopAt(r)'
  <2>1. step \in LoopStep /\ (step.by = "approval" => stage = "done")
        /\ (consulting' = r => stage = "looping")
    BY <1>1, <1>9, <1>10 DEF step
  <2>. QED
    BY <1>1, <1>3, <1>4, <1>11, <1>12, <2>1, StepRecorded
<1>14. RecoveringAt(r)'
  BY <1>1, <1>3, <1>4 DEF RecoveringAt
<1>15. consulting \in {NoConsultant, r} /\ consulting' \in {NoConsultant, r}
  BY <1>1, <1>9
<1>16. refused' = [refused EXCEPT ![r] = refused[r]]
       /\ UNCHANGED <<model, available, graphVars, lastUsage>>
  BY <1>1, <1>2
<1>. HIDE DEF trace
<1>. QED
  BY <1>2, <1>3, <1>4, <1>5, <1>9, <1>11, <1>13, <1>14, <1>15, <1>16, LoopingKeeps

LEMMA RecoveryStepKeeps ==
  ASSUME DecisionInv, NEW r \in LoopRuns, RecoveryStep(r)
  PROVE  DecisionInv'
<1>. DEFINE usage == IF model = "qwen" THEN invoked ELSE Zero
            step == [by |-> "recovery", usage |-> usage]
            trace == Append(steps[r], step)
<1>1. /\ DecidingTyped /\ StepsTyped /\ LoopAt(r) /\ RecoveringAt(r) /\ r \in DecidingRuns
      /\ r # NoConsultant /\ Looping(r) /\ consulting = r /\ r \in recovers
      /\ recovers' = recovers /\ invoked' = invoked /\ answered' = answered /\ refused' = refused
      /\ UNCHANGED <<model, available, graphVars, lastUsage>>
      /\ steps' = [steps EXCEPT ![r] = Append(@, step)]
      /\ LeaveLoop(r, "done") \/ UNCHANGED <<consulting, rstage>>
  BY RunsDistinct DEF DecisionInv, RecoveryStep, Looping, TakeStep, usageVars
<1>2. /\ steps[r] \in Seq(LoopStep) /\ answered[r] \in Nat /\ refused[r] \in Nat
      /\ invoked \in Usages /\ Zero \in Usages
      /\ answered = [answered EXCEPT ![r] = answered[r]]
      /\ refused = [refused EXCEPT ![r] = refused[r]]
      /\ (model # "qwen" => model = "deterministic")
  BY <1>1, UsagesTyped DEF StepsTyped, DecidingTyped
<1>3. usage \in Usages /\ (model = "qwen" => usage = <<r, answered[r]>> /\ answered[r] >= 1)
      /\ (model # "qwen" => usage = Zero)
  BY <1>1, <1>2 DEF RecoveringAt
<1>. HIDE DEF usage
<1>4. step \in LoopStep /\ step.by = "recovery" /\ step.usage = usage
  BY <1>3 DEF LoopStep
<1>. HIDE DEF step
<1>5. (AnswersOf(r, answered[r]) \union {step.usage}) \ {Zero} =
         AnswersOf(r, answered[r] - IF step.by = "approval" /\ model = "qwen" THEN 1 ELSE 0)
  <2>1. /\ Zero \notin AnswersOf(r, answered[r])
        /\ AnswersOf(r, answered[r] - 0) = AnswersOf(r, answered[r])
        /\ answered[r] >= 1 => <<r, answered[r]>> \in AnswersOf(r, answered[r])
    BY <1>1, <1>2, AnswersCounted
  <2>. QED
    BY <1>3, <1>4, <2>1
<1>6. PICK stage \in {"looping", "done"} :
        /\ rstage' = [rstage EXCEPT ![r] = stage]
        /\ consulting' = IF stage = "done" THEN NoConsultant ELSE r
  <2>1. rstage = [rstage EXCEPT ![r] = "looping"]
    BY <1>1 DEF LoopAt, DecidingTyped
  <2>. QED
    BY <1>1, <2>1 DEF LeaveLoop
<1>7. trace \in Seq(LoopStep) /\ steps' = [steps EXCEPT ![r] = trace] /\ steps'[r] = trace
      /\ rstage'[r] = stage
  BY <1>1, <1>2, <1>4, <1>6 DEF StepsTyped, DecidingTyped
<1>8. LoopAt(r)'
  <2>1. (step.by = "approval" => stage = "done") /\ (consulting' = r => stage = "looping")
        /\ answered[r] <= answered[r] + 1 /\ answered'[r] = answered[r] /\ model' = model
        /\ (model = "deterministic" => answered[r] = 0)
    BY <1>1, <1>2, <1>4, <1>6 DEF LoopAt
  <2>. QED
    BY <1>1, <1>2, <1>4, <1>5, <1>7, <2>1, StepRecorded
<1>9. RecoveringAt(r)'
  BY <1>1, <1>3 DEF RecoveringAt
<1>10. consulting \in {NoConsultant, r} /\ consulting' \in {NoConsultant, r}
       /\ answered' = [answered EXCEPT ![r] = answered[r]]
       /\ refused' = [refused EXCEPT ![r] = refused[r]]
       /\ recovers' \in {recovers, recovers \union {r}} /\ invoked' \in Usages
  BY <1>1, <1>2, <1>6
<1>. HIDE DEF trace
<1>. QED
  BY <1>1, <1>2, <1>6, <1>7, <1>8, <1>9, <1>10, LoopingKeeps

LEMMA DecisionInvKept == DecisionInv /\ [DecisionNext]_decisionVars => DecisionInv'
<1>1. CASE UNCHANGED decisionVars
  <2>. SUFFICES ASSUME DecisionInv PROVE DecisionInv'
    BY <1>1
  <2>1. /\ UNCHANGED <<model, available, rstage>>
        /\ UNCHANGED <<dstate, direct, record, overtaken>>
        /\ UNCHANGED <<fallbackEvents, saverFailures>>
        /\ UNCHANGED <<consulting, recovers, steps>>
        /\ UNCHANGED <<invoked, lastUsage, answered, refused>>
    BY <1>1 DEF decisionVars, graphVars, loopingVars, usageVars
  <2>2. DecidingTyped' /\ StepsTyped' /\ fallbackEvents' = <<>>
    BY <2>1 DEF DecisionInv, DecidingTyped, StepsTyped, AvailableTyped
  <2>3. ASSUME NEW q \in GraphRuns PROVE DecisionAt(q)' /\ FallbacksAt(q)' /\ UsageAt(q)'
    BY <2>1, DecisionKept, FallbacksKept, UsageKept DEF DecisionInv
  <2>4. ASSUME NEW q \in LoopRuns PROVE LoopAt(q)' /\ RecoveringAt(q)'
    BY <2>1, LoopKept DEF DecisionInv
  <2>. QED
    BY <2>2, <2>3, <2>4 DEF DecisionInv
<1>2. ASSUME NEW r \in GraphRuns, DecisionInv,
             \/ RunGraphOnce(r) \/ DecideWithoutGraph(r) \/ TellFallback(r) \/ TellDecision(r)
             \/ LeaveBeforeDecision(r)
      PROVE  DecisionInv'
  BY <1>2, RunGraphOnceKeeps, DecideWithoutGraphKeeps, TellFallbackKeeps, TellDecisionKeeps,
     LeaveBeforeDecisionKeeps
<1>3. ASSUME NEW r \in LoopRuns, DecisionInv,
             \/ BeginLoop(r) \/ ProviderFails(r) \/ ProviderStep(r) \/ RecoveryStep(r)
             \/ EndLoop(r)
      PROVE  DecisionInv'
  BY <1>3, BeginLoopKeeps, ProviderFailsKeeps, ProviderStepKeeps, RecoveryStepKeeps, EndLoopKeeps
<1>. QED
  BY <1>1, <1>2, <1>3 DEF DecisionNext

LEMMA DecisionInvAlways == DecisionSpec => []DecisionInv
  BY DecisionInvInitially, DecisionInvKept, PTL DEF DecisionSpec

(* The state of the decisions is well typed: a decision is one of the      *)
(* actions, a graph calls tools of its own run only, the step budget is    *)
(* never overdrawn, and a usage is one that some run was reported.         *)
THEOREM DecisionTypesHold == DecisionSpec => []DecisionTypeOK
<1>1. DecisionInv => DecisionTypeOK
  <2>. SUFFICES ASSUME DecisionInv PROVE DecisionTypeOK
    OBVIOUS
  <2>1. DecidingTyped
    BY DEF DecisionInv
  <2>2. ASSUME NEW r \in GraphRuns
        PROVE  /\ dstate[r].decision \in Verdicts /\ dstate[r].executed \subseteq available[r]
               /\ dstate[r].steps \in 0 .. StepLimit /\ record[r].usage \in Usages
    <3>1. dstate[r] \in AState /\ record[r].usage \in Usages
      BY <2>1 DEF DecidingTyped
    <3>2. dstate[r].decision \in Verdicts
      BY <3>1 DEF AState
    <3>3. dstate[r].executed \subseteq available[r] /\ dstate[r].steps \in 0 .. StepLimit
      <4>1. StepLimit \in 0 .. StepLimit
        BY DecisionAssumption
      <4>. QED
        BY <4>1 DEF DecisionInv, DecisionAt, Charged
    <3>. QED
      BY <3>1, <3>2, <3>3
  <2>. QED
    BY <2>1, <2>2 DEF DecidingTyped, AvailableTyped, DecisionTypeOK
<1>. QED
  BY <1>1, DecisionInvAlways, PTL

(* What a run records of its decision is of that decision, whoever decided *)
(* while it was suspended: its own failed calls as fallback events, a      *)
(* status and a budget that agree with the decision, and a usage that is   *)
(* its own unless another graph decided meanwhile; a loop's steps name     *)
(* every answer that the run got and no answer of another run.             *)
THEOREM DecisionIsRecordedHolds == DecisionSpec => []DecisionIsRecorded
<1>1. DecisionInv => DecisionIsRecorded
  <2>. SUFFICES ASSUME DecisionInv PROVE DecisionIsRecorded
    OBVIOUS
  <2>1. ASSUME NEW r \in GraphRuns
        PROVE  /\ rstage[r] = "told" => Len(record[r].fallbacks) = refused[r]
               /\ \A i \in DOMAIN record[r].fallbacks : record[r].fallbacks[i] = r
    <3>1. /\ record[r].fallbacks \in Seq({r})
          /\ Len(record[r].due) + Len(record[r].fallbacks) = refused[r]
          /\ rstage[r] = "told" => record[r].due = <<>>
      BY DEF DecisionInv, FallbacksAt
    <3>2. \A t \in Seq({r}) : Len(t) \in Nat /\ \A i \in DOMAIN t : t[i] = r
      OBVIOUS
    <3>3. Len(<<>>) = 0 /\ \A n \in Nat : 0 + n = n
      OBVIOUS
    <3>4. rstage[r] = "told" => Len(record[r].fallbacks) = refused[r]
      BY <3>1, <3>2, <3>3
    <3>. QED
      BY <3>1, <3>2, <3>4
  <2>2. ASSUME NEW r \in GraphRuns, rstage[r] \in {"telling", "told"}
        PROVE  StatusAgrees(r) /\ BudgetAgrees(r)
    <3>1. /\ Agrees(dstate[r], r \in direct) /\ Charged(dstate[r], available[r], r \in direct)
      BY <2>2 DEF DecisionInv, DecisionAt
    <3>2. StatusAgrees(r)
      BY <3>1 DEF StatusAgrees, Agrees
    <3>3. BudgetAgrees(r)
      BY <3>1 DEF BudgetAgrees, Charged
    <3>. QED
      BY <3>2, <3>3
  <2>3. ASSUME NEW r \in GraphRuns \ overtaken, rstage[r] = "told" PROVE UsageIsOwn(r)
    BY <2>3 DEF DecisionInv, UsageAt, OwnUsage, UsageIsOwn
  <2>4. ASSUME NEW r \in LoopRuns PROVE LoopUsageIsWhole(r)
    <3>1. Named(steps[r]) =
            AnswersOf(r, answered[r] - IF Paused(steps[r]) /\ model = "qwen" THEN 1 ELSE 0)
      BY DEF DecisionInv, LoopAt
    <3>. QED
      BY <3>1 DEF LoopUsageIsWhole, Named, Paused, AnswersOf
  <2>. QED
    BY <2>1, <2>2, <2>3, <2>4 DEF DecisionIsRecorded, FallbacksAreOwn
<1>. QED
  BY <1>1, DecisionInvAlways, PTL
----------------------------------------------------------------------------
(* The monitors.                                                           *)

Alert == [at : Int, written : Nat]

MonitorTyped ==
  /\ kind \in Stores /\ skew \in [Monitors -> Int] /\ now \in Nat /\ now <= MaxTime
  /\ lastAlert \in [Monitors -> [AlertKeys -> Alert \union {NoAlert}]]
  /\ mstage \in [Monitors -> {"idle", "probing"} \union AlertKeys]
  /\ todo \in [Monitors -> SUBSET AlertKeys] /\ found \in [Monitors -> SUBSET AlertKeys]
  /\ alerts \in [Monitors -> SUBSET AlertKeys] /\ told \in [Monitors -> [AlertKeys -> Int]]
  /\ diagnosed \subseteq Monitors /\ raced \subseteq Monitors

(* A probe: what it has yet to check and what it alerted it has found.     *)
ProbeHolds(m) ==
  /\ todo[m] \union alerts[m] \subseteq found[m]
  /\ mstage[m] = "idle" => todo[m] = {} /\ alerts[m] = {}
  /\ mstage[m] \in AlertKeys => mstage[m] \in found[m]

AlertOf(w, k) == [at |-> told[w][k] + skew[w], written |-> told[w][k]]

(* What a store holds: in a process its own latest alert, in Redis the     *)
(* latest of all, for a request nothing from the future.                   *)
AlertRemembered(m, k) ==
  /\ told[m][k] \in -1 .. now
  /\ kind = "process" =>
       \/ lastAlert[m][k] = NoAlert /\ told[m][k] = -1
       \/ lastAlert[m][k] = AlertOf(m, k) /\ told[m][k] >= 0
  /\ kind = "redis" =>
       \/ lastAlert[m][k] = NoAlert /\ \A o \in Monitors : told[o][k] = -1
       \/ \E w \in Monitors : /\ lastAlert[m][k] = AlertOf(w, k) /\ told[w][k] >= 0
                              /\ \A o \in Monitors : told[o][k] <= told[w][k]
  /\ kind = "request" => lastAlert[m][k] = NoAlert \/ lastAlert[m][k].at <= now + skew[m]

(* Between its check and its record, a monitor's alert stays due, if no    *)
(* other one came in between.                                              *)
StaysDue(m) ==
  mstage[m] \in AlertKeys =>
    \/ m \in raced
    \/ /\ kind = "process" => ~Recent(m, mstage[m], Interval)
       /\ kind = "redis" /\ OneClock => \A o \in Monitors : ~Recent(o, mstage[m], Interval)

MonitorInv ==
  /\ MonitorTyped
  /\ \A m \in Monitors : ProbeHolds(m) /\ StaysDue(m)
  /\ \A m \in Monitors, k \in AlertKeys : AlertRemembered(m, k)

LEMMA MonitorInvInitially == MonitorInit => MonitorInv
<1>. SUFFICES ASSUME MonitorInit PROVE MonitorInv
  OBVIOUS
<1>1. MonitorTyped
  BY MonitorAssumption DEF MonitorInit, MonitorTyped
<1>2. ASSUME NEW m \in Monitors PROVE ProbeHolds(m) /\ StaysDue(m)
  BY MonitorAssumption DEF MonitorInit, ProbeHolds, StaysDue
<1>3. ASSUME NEW m \in Monitors, NEW k \in AlertKeys PROVE AlertRemembered(m, k)
  BY DEF MonitorInit, AlertRemembered
<1>. QED
  BY <1>1, <1>2, <1>3 DEF MonitorInv

(* What the check of an anomaly finds out.                                 *)
LEMMA CheckedAlert ==
  ASSUME MonitorInv, NEW m \in Monitors, NEW k \in AlertKeys
  PROVE  /\ kind = "request" => ~ShouldSuppress(m, k)
         /\ ~ShouldSuppress(m, k) =>
              /\ kind = "process" => ~Recent(m, k, Interval)
              /\ kind = "redis" /\ OneClock => \A o \in Monitors : ~Recent(o, k, Interval)
         /\ ShouldSuppress(m, k) =>
              \E o \in Monitors :
                Recent(o, k, IF OneClock \/ kind = "process" THEN Interval ELSE TTL)
<1>1. /\ MonitorTyped /\ AlertRemembered(m, k)
      /\ lastAlert[m][k] = NoAlert \/ lastAlert[m][k] \in Alert
      /\ skew[m] \in Int /\ now \in Nat
      /\ \A o \in Monitors : told[o][k] \in Int /\ skew[o] \in Int
      /\ kind \in {"process", "redis", "request"}
  BY DEF MonitorInv, MonitorTyped, Stores
<1>2. Interval \in Nat /\ TTL \in Nat /\ TTL >= Interval /\ Interval # 0 /\ NoAlert \notin Alert
  BY MonitorAssumption DEF Alert
<1>3. CASE kind = "request"
  <2>1. lastAlert[m][k] # NoAlert => ~(now + skew[m] - lastAlert[m][k].at < 0)
    <3>1. ASSUME lastAlert[m][k] # NoAlert
          PROVE  lastAlert[m][k].at \in Int /\ lastAlert[m][k].at <= now + skew[m]
      BY <1>1, <1>3, <3>1 DEF AlertRemembered, Alert
    <3>. QED
      BY <1>1, <3>1
  <2>2. LastAlertTime(m, k) = lastAlert[m][k] /\ Window = 0 /\ Clock(m) = now + skew[m]
    BY <1>3 DEF LastAlertTime, Window, Clock
  <2>3. ~ShouldSuppress(m, k)
    BY <1>1, <2>1, <2>2 DEF ShouldSuppress, Alert
  <2>. QED
    BY <1>3, <2>3
<1>4. CASE kind = "process"
  <2>1. CASE lastAlert[m][k] = NoAlert
    <3>1. told[m][k] = -1
      BY <1>1, <1>2, <1>4, <2>1 DEF AlertRemembered, AlertOf, Alert
    <3>. QED
      BY <1>4, <2>1, <3>1 DEF ShouldSuppress, LastAlertTime, Recent
  <2>2. CASE lastAlert[m][k] # NoAlert
    <3>1. told[m][k] >= 0 /\ lastAlert[m][k].at = told[m][k] + skew[m]
      BY <1>1, <1>4, <2>2 DEF AlertRemembered, AlertOf
    <3>2. ShouldSuppress(m, k) <=> now + skew[m] - (told[m][k] + skew[m]) < Interval
      <4>1. /\ LastAlertTime(m, k) = lastAlert[m][k] /\ Window = Interval
            /\ Clock(m) = now + skew[m]
        BY <1>4 DEF LastAlertTime, Window, Clock
      <4>. QED
        BY <1>1, <1>2, <2>2, <3>1, <4>1 DEF ShouldSuppress
    <3>3. ShouldSuppress(m, k) <=> Recent(m, k, Interval)
      BY <1>1, <1>2, <3>1, <3>2 DEF Recent
    <3>. QED
      BY <1>4, <3>3
  <2>. QED
    BY <2>1, <2>2
<1>5. CASE kind = "redis"
  <2>1. CASE lastAlert[m][k] = NoAlert
    <3>1. \A o \in Monitors : told[o][k] = -1
      BY <1>1, <1>2, <1>5, <2>1 DEF AlertRemembered, AlertOf, Alert
    <3>. QED
      BY <1>5, <2>1, <3>1 DEF ShouldSuppress, LastAlertTime, Recent
  <2>2. CASE lastAlert[m][k] # NoAlert
    <3>1. PICK w \in Monitors : /\ lastAlert[m][k] = AlertOf(w, k) /\ told[w][k] >= 0
                                /\ \A o \in Monitors : told[o][k] <= told[w][k]
      BY <1>1, <1>5, <2>2 DEF AlertRemembered
    <3>2. ShouldSuppress(m, k) <=> /\ now - told[w][k] < TTL
                                   /\ now + skew[m] - (told[w][k] + skew[w]) < Interval
      <4>1. lastAlert[m][k].at = told[w][k] + skew[w] /\ lastAlert[m][k].written = told[w][k]
        BY <3>1 DEF AlertOf
      <4>2. now - told[w][k] >= TTL <=> ~(now - told[w][k] < TTL)
        BY <1>1, <1>2
      <4>3. /\ LastAlertTime(m, k) = IF now - told[w][k] < TTL THEN lastAlert[m][k] ELSE NoAlert
            /\ Window = Interval /\ Clock(m) = now + skew[m]
        BY <1>5, <2>2, <4>1, <4>2 DEF LastAlertTime, Window, Clock
      <4>. QED
        BY <1>1, <1>2, <2>2, <4>1, <4>3 DEF ShouldSuppress
    <3>3. OneClock => skew[m] = skew[w]
      BY DEF OneClock
    <3>4. OneClock => (ShouldSuppress(m, k) <=> now - told[w][k] < Interval)
      BY <1>1, <1>2, <3>2, <3>3
    <3>5. \A o \in Monitors : Recent(o, k, Interval) => now - told[w][k] < Interval
      BY <1>1, <1>2, <3>1 DEF Recent
    <3>6. /\ OneClock /\ ShouldSuppress(m, k) => Recent(w, k, Interval)
          /\ ShouldSuppress(m, k) => Recent(w, k, TTL)
      BY <3>1, <3>2, <3>4 DEF Recent
    <3>. QED
      BY <1>5, <3>4, <3>5, <3>6
  <2>. QED
    BY <2>1, <2>2
<1>. QED
  BY <1>1, <1>3, <1>4, <1>5


(* Of a monitor that a step leaves alone, and of what the time brings.     *)
LEMMA ProbeKept ==
  ASSUME NEW m \in Monitors, ProbeHolds(m), mstage'[m] = mstage[m], todo'[m] = todo[m],
         found'[m] = found[m], alerts'[m] = alerts[m]
  PROVE  ProbeHolds(m)'
  BY DEF ProbeHolds

LEMMA DueKept ==
  ASSUME MonitorTyped, NEW m \in Monitors, StaysDue(m), mstage'[m] = mstage[m],
         UNCHANGED <<kind, skew>>, now' \in Nat, now' >= now, m \in raced => m \in raced',
         mstage[m] \in AlertKeys =>
           \/ m \in raced'
           \/ \A o \in Monitors : told'[o][mstage[m]] = told[o][mstage[m]]
           \/ kind = "process" /\ told'[m] = told[m]
           \/ kind = "request"
  PROVE  StaysDue(m)'
<1>. SUFFICES ASSUME mstage[m] \in AlertKeys, m \notin raced'
              PROVE  /\ kind = "process" => ~Recent(m, mstage[m], Interval)'
                     /\ kind = "redis" /\ OneClock =>
                          \A o \in Monitors : ~Recent(o, mstage[m], Interval)'
  BY DEF StaysDue, OneClock, Recent
<1>. DEFINE k == mstage[m]
<1>1. /\ kind = "process" => ~Recent(m, k, Interval)
      /\ kind = "redis" /\ OneClock => \A o \in Monitors : ~Recent(o, k, Interval)
  BY DEF StaysDue
<1>2. \A o \in Monitors : told'[o][k] = told[o][k] /\ ~Recent(o, k, Interval) =>
                            ~Recent(o, k, Interval)'
  <2>1. \A o \in Monitors : told[o][k] \in Int
    BY DEF MonitorTyped
  <2>2. now \in Nat /\ Interval \in Nat
    BY MonitorAssumption DEF MonitorTyped
  <2>. QED
    BY <2>1, <2>2 DEF Recent
<1>. QED
  BY <1>1, <1>2 DEF OneClock

LEMMA RememberedKept ==
  ASSUME MonitorTyped, NEW m \in Monitors, NEW k \in AlertKeys, AlertRemembered(m, k),
         UNCHANGED <<kind, skew, told>>, now' \in Nat, now' >= now, lastAlert'[m] = lastAlert[m]
  PROVE  AlertRemembered(m, k)'
<1>1. told[m][k] \in Int /\ now \in Nat /\ skew[m] \in Int
  BY DEF MonitorTyped
<1>2. told'[m][k] \in -1 .. now'
  BY <1>1 DEF AlertRemembered
<1>3. kind = "request" => lastAlert'[m][k] = NoAlert \/ lastAlert'[m][k].at <= now' + skew[m]
  <2>1. lastAlert[m][k] = NoAlert \/ lastAlert[m][k].at \in Int
    BY DEF MonitorTyped, Alert
  <2>. QED
    BY <1>1, <2>1 DEF AlertRemembered
<1>. QED
  BY <1>2, <1>3 DEF AlertRemembered, AlertOf

LEMMA ProbeKeeps ==
  ASSUME MonitorInv, NEW a \in Monitors, Probe(a)
  PROVE  MonitorInv'
<1>1. MonitorTyped /\ ProbeHolds(a) /\ NoAlert \notin Alert
  BY MonitorAssumption DEF MonitorInv, Alert
<1>2. PICK anomalies \in SUBSET AlertKeys :
        /\ found' = [found EXCEPT ![a] = anomalies] /\ todo' = [todo EXCEPT ![a] = anomalies]
  BY DEF Probe
<1>3. /\ mstage[a] = "idle" /\ mstage' = [mstage EXCEPT ![a] = "probing"]
      /\ lastAlert' = IF kind = "request"
                        THEN [lastAlert EXCEPT ![a] = [k \in AlertKeys |-> NoAlert]]
                        ELSE lastAlert
      /\ UNCHANGED <<kind, skew, now, alerts, diagnosed, told, raced>>
  BY DEF Probe
<1>4. MonitorTyped'
  <2>1. [k \in AlertKeys |-> NoAlert] \in [AlertKeys -> Alert \union {NoAlert}]
    OBVIOUS
  <2>2. lastAlert' \in [Monitors -> [AlertKeys -> Alert \union {NoAlert}]]
    BY <1>1, <1>3, <2>1 DEF MonitorTyped
  <2>3. mstage' \in [Monitors -> {"idle", "probing"} \union AlertKeys]
    BY <1>1, <1>3 DEF MonitorTyped
  <2>. QED
    BY <1>1, <1>2, <1>3, <2>2, <2>3 DEF MonitorTyped
<1>5. ASSUME NEW m \in Monitors PROVE ProbeHolds(m)'
  BY <1>1, <1>2, <1>3, MonitorAssumption DEF MonitorInv, MonitorTyped, ProbeHolds
<1>6. ASSUME NEW m \in Monitors PROVE StaysDue(m)'
  <2>1. CASE m = a
    BY <1>1, <1>3, <2>1, MonitorAssumption DEF StaysDue, MonitorTyped
  <2>2. CASE m # a
    <3>1. mstage'[m] = mstage[m] /\ now' \in Nat /\ now' >= now /\ StaysDue(m)
      BY <1>1, <1>3, <2>2 DEF MonitorInv, MonitorTyped
    <3>. QED
      BY <1>1, <1>3, <3>1, DueKept
  <2>. QED
    BY <2>1, <2>2
<1>7. ASSUME NEW m \in Monitors, NEW k \in AlertKeys PROVE AlertRemembered(m, k)'
  <2>1. AlertRemembered(m, k) /\ now' \in Nat /\ now' >= now
    BY <1>1, <1>3 DEF MonitorInv, MonitorTyped
  <2>2. CASE lastAlert'[m] = lastAlert[m]
    BY <1>1, <1>3, <2>1, <2>2, RememberedKept
  <2>3. CASE kind = "request" /\ lastAlert'[m][k] = NoAlert
    BY <1>3, <2>1, <2>3 DEF AlertRemembered
  <2>. QED
    BY <1>1, <1>3, <2>2, <2>3 DEF MonitorTyped
<1>. QED
  BY <1>4, <1>5, <1>6, <1>7 DEF MonitorInv

LEMMA CheckAnomalyKeeps ==
  ASSUME MonitorInv, NEW a \in Monitors, CheckAnomaly(a)
  PROVE  MonitorInv'
<1>1. MonitorTyped /\ ProbeHolds(a)
  BY DEF MonitorInv
<1>2. PICK k \in todo[a] :
        /\ mstage[a] = "probing" /\ todo' = [todo EXCEPT ![a] = @ \ {k}]
        /\ IF ShouldSuppress(a, k) THEN UNCHANGED <<lastAlert, mstage>>
           ELSE mstage' = [mstage EXCEPT ![a] = k] /\ UNCHANGED lastAlert
        /\ UNCHANGED <<kind, skew, now, found, alerts, diagnosed, told, raced>>
  BY DEF CheckAnomaly, Silence
<1>3. k \in AlertKeys /\ k \in found[a]
  BY <1>1 DEF MonitorTyped, ProbeHolds
<1>4. MonitorTyped'
  <2>1. mstage' \in [Monitors -> {"idle", "probing"} \union AlertKeys]
    BY <1>1, <1>2, <1>3 DEF MonitorTyped
  <2>2. todo' \in [Monitors -> SUBSET AlertKeys] /\ lastAlert' = lastAlert
    BY <1>1, <1>2 DEF MonitorTyped
  <2>. QED
    BY <1>1, <1>2, <2>1, <2>2 DEF MonitorTyped
<1>5. ASSUME NEW m \in Monitors PROVE ProbeHolds(m)'
  BY <1>1, <1>2, <1>3, MonitorAssumption DEF MonitorInv, MonitorTyped, ProbeHolds
<1>6. ASSUME NEW m \in Monitors PROVE StaysDue(m)'
  <2>1. now' \in Nat /\ now' >= now /\ StaysDue(m) /\ UNCHANGED <<kind, skew, told, raced>>
    BY <1>1, <1>2 DEF MonitorInv, MonitorTyped
  <2>2. CASE mstage'[m] = mstage[m]
    BY <1>1, <2>1, <2>2, DueKept
  <2>3. CASE m = a /\ ~ShouldSuppress(a, k) /\ mstage'[m] = k
    <3>1. /\ kind = "process" => ~Recent(a, k, Interval)
          /\ kind = "redis" /\ OneClock => \A o \in Monitors : ~Recent(o, k, Interval)
      BY <1>3, <2>3, CheckedAlert
    <3>. QED
      BY <1>2, <2>3, <3>1 DEF StaysDue, Recent, OneClock
  <2>. QED
    BY <1>1, <1>2, <2>2, <2>3 DEF MonitorTyped
<1>7. ASSUME NEW m \in Monitors, NEW j \in AlertKeys PROVE AlertRemembered(m, j)'
  <2>1. /\ AlertRemembered(m, j) /\ now' \in Nat /\ now' >= now /\ lastAlert' = lastAlert
        /\ UNCHANGED <<kind, skew, told>>
    BY <1>1, <1>2 DEF MonitorInv, MonitorTyped
  <2>. QED
    BY <1>1, <2>1, RememberedKept
<1>. QED
  BY <1>4, <1>5, <1>6, <1>7 DEF MonitorInv

LEMMA RecordAlertKeeps ==
  ASSUME MonitorInv, NEW a \in Monitors, RecordAlert(a)
  PROVE  MonitorInv'
<1>0. PICK k \in AlertKeys : k = mstage[a]
  BY DEF RecordAlert
<1>. DEFINE entry == [at |-> now + skew[a], written |-> now]
<1>1. MonitorTyped /\ ProbeHolds(a) /\ mstage[a] = k /\ kind \in {"process", "redis", "request"}
  BY <1>0 DEF MonitorInv, MonitorTyped, Stores
<1>2. /\ lastAlert' = [o \in Monitors |-> IF o = a \/ kind = "redis"
                                            THEN [lastAlert[o] EXCEPT ![k] = entry]
                                            ELSE lastAlert[o]]
      /\ alerts' = [alerts EXCEPT ![a] = @ \union {k}]
      /\ mstage' = [mstage EXCEPT ![a] = "probing"]
      /\ told' = [told EXCEPT ![a][k] = now]
      /\ raced' = (raced \ {a}) \union {o \in Monitors \ {a} : mstage[o] = k}
      /\ UNCHANGED <<kind, skew, now, todo, found, diagnosed>>
  BY <1>0 DEF RecordAlert, Record, Clock
<1>3. entry \in Alert /\ now \in Nat /\ now \in Int
  BY <1>1 DEF MonitorTyped, Alert
<1>4. told' = [told EXCEPT ![a] = [told[a] EXCEPT ![k] = now]]
  BY <1>1, <1>2 DEF MonitorTyped
<1>5. MonitorTyped'
  <2>. HIDE DEF entry
  <2>1. lastAlert' \in [Monitors -> [AlertKeys -> Alert \union {NoAlert}]]
    BY <1>1, <1>2, <1>3 DEF MonitorTyped
  <2>2. told' \in [Monitors -> [AlertKeys -> Int]]
    BY <1>1, <1>3, <1>4 DEF MonitorTyped
  <2>. QED
    BY <1>1, <1>2, <2>1, <2>2 DEF MonitorTyped
<1>6. ASSUME NEW m \in Monitors PROVE ProbeHolds(m)'
  BY <1>1, <1>2, MonitorAssumption DEF MonitorInv, MonitorTyped, ProbeHolds
<1>7. ASSUME NEW m \in Monitors PROVE StaysDue(m)'
  <2>1. CASE m = a
    BY <1>1, <1>2, <2>1, MonitorAssumption DEF StaysDue, MonitorTyped
  <2>2. CASE m # a
    <3>1. /\ mstage'[m] = mstage[m] /\ now' \in Nat /\ now' >= now /\ StaysDue(m)
          /\ (m \in raced => m \in raced') /\ UNCHANGED <<kind, skew>>
      BY <1>1, <1>2, <2>2 DEF MonitorInv, MonitorTyped
    <3>2. mstage[m] \in AlertKeys /\ m \notin raced' =>
            \A o \in Monitors : told'[o][mstage[m]] = told[o][mstage[m]]
      <4>1. m \notin raced' => mstage[m] # k
        BY <1>2, <2>2
      <4>. QED
        BY <1>1, <1>4, <4>1 DEF MonitorTyped
    <3>. QED
      BY <1>1, <3>1, <3>2, DueKept
  <2>. QED
    BY <2>1, <2>2
<1>8. ASSUME NEW m \in Monitors, NEW j \in AlertKeys PROVE AlertRemembered(m, j)'
  <2>1. /\ told'[m][j] = (IF m = a /\ j = k THEN now ELSE told[m][j])
        /\ told'[a][k] = now /\ told'[a][k] >= 0
        /\ \A o \in Monitors : j # k => told'[o][j] = told[o][j]
        /\ \A o \in Monitors : told'[o][k] \in Int /\ told'[o][k] <= now
    <3>1. \A o \in Monitors : told[o][k] \in Int /\ told[o][k] <= now
      BY <1>1 DEF MonitorInv, MonitorTyped, AlertRemembered
    <3>. QED
      BY <1>1, <1>3, <1>4, <3>1 DEF MonitorTyped
  <2>2. /\ lastAlert'[m][j] =
             (IF j = k /\ (m = a \/ kind = "redis") THEN entry ELSE lastAlert[m][j])
        /\ now' = now /\ kind' = kind /\ skew' = skew
    BY <1>1, <1>2 DEF MonitorTyped
  <2>3. /\ AlertRemembered(m, j) /\ now \in Nat
        /\ \A o \in Monitors : skew[o] \in Int /\ told[o][j] \in Int
    BY <1>1 DEF MonitorInv, MonitorTyped
  <2>4. told'[m][j] \in -1 .. now'
    BY <2>1, <2>2, <2>3 DEF AlertRemembered
  <2>5. CASE j = k /\ (m = a \/ kind = "redis")
    <3>1. entry = AlertOf(a, k)' /\ lastAlert'[m][j] = entry /\ told'[a][k] >= 0
      BY <2>1, <2>2, <2>5 DEF AlertOf
    <3>2. entry.at = now + skew[a] /\ now + skew[a] <= now' + skew'[a]
      BY <2>2, <2>3
    <3>3. kind' = "process" \/ kind' = "request" => m = a
      BY <2>2, <2>5
    <3>4. \A o \in Monitors : told'[o][k] <= told'[a][k]
      BY <2>1
    <3>. HIDE DEF entry
    <3>. QED
      BY <2>4, <2>5, <3>1, <3>2, <3>3, <3>4 DEF AlertRemembered
  <2>6. CASE ~(j = k /\ (m = a \/ kind = "redis"))
    <3>1. lastAlert'[m][j] = lastAlert[m][j]
      BY <2>2, <2>6
    <3>2. kind = "process" => told'[m][j] = told[m][j]
      BY <2>1, <2>6
    <3>3. kind = "redis" => \A o \in Monitors : told'[o][j] = told[o][j]
      BY <2>1, <2>6
    <3>. QED
      BY <2>2, <2>3, <2>4, <3>1, <3>2, <3>3 DEF AlertRemembered, AlertOf
  <2>. QED
    BY <2>5, <2>6
<1>. QED
  BY <1>5, <1>6, <1>7, <1>8 DEF MonitorInv


LEMMA EndProbeKeeps ==
  ASSUME MonitorInv, NEW a \in Monitors, EndProbe(a)
  PROVE  MonitorInv'
<1>1. MonitorTyped
  BY DEF MonitorInv
<1>2. /\ mstage' = [mstage EXCEPT ![a] = "idle"] /\ todo' = [todo EXCEPT ![a] = {}]
      /\ found' = [found EXCEPT ![a] = {}] /\ alerts' = [alerts EXCEPT ![a] = {}]
      /\ raced' = raced \ {a} /\ diagnosed' \in {diagnosed \union {a}, diagnosed \ {a}}
      /\ UNCHANGED <<kind, skew, now, lastAlert, told>>
  BY DEF EndProbe
<1>3. MonitorTyped'
  BY <1>1, <1>2 DEF MonitorTyped
<1>4. ASSUME NEW m \in Monitors PROVE ProbeHolds(m)' /\ StaysDue(m)'
  <2>1. CASE m = a
    BY <1>1, <1>2, <2>1, MonitorAssumption DEF MonitorTyped, ProbeHolds, StaysDue
  <2>2. CASE m # a
    <3>1. /\ mstage'[m] = mstage[m] /\ todo'[m] = todo[m] /\ found'[m] = found[m]
          /\ alerts'[m] = alerts[m] /\ (m \in raced => m \in raced')
          /\ now' \in Nat /\ now' >= now
      BY <1>1, <1>2, <2>2 DEF MonitorTyped
    <3>. QED
      BY <1>1, <1>2, <3>1, ProbeKept, DueKept DEF MonitorInv
  <2>. QED
    BY <2>1, <2>2
<1>5. ASSUME NEW m \in Monitors, NEW k \in AlertKeys PROVE AlertRemembered(m, k)'
  <2>1. AlertRemembered(m, k) /\ now' \in Nat /\ now' >= now
    BY <1>1, <1>2 DEF MonitorInv, MonitorTyped
  <2>. QED
    BY <1>1, <1>2, <2>1, RememberedKept
<1>. QED
  BY <1>3, <1>4, <1>5 DEF MonitorInv

LEMMA RestartKeeps ==
  ASSUME MonitorInv, NEW a \in Monitors, Restart(a)
  PROVE  MonitorInv'
<1>1. MonitorTyped
  BY DEF MonitorInv
<1>2. /\ mstage[a] = "idle" /\ kind = "process"
      /\ lastAlert' = [lastAlert EXCEPT ![a] = [k \in AlertKeys |-> NoAlert]]
      /\ told' = [told EXCEPT ![a] = [k \in AlertKeys |-> -1]]
      /\ UNCHANGED <<kind, skew, now, mstage, todo, found, alerts, diagnosed, raced>>
  BY DEF Restart
<1>3. MonitorTyped'
  BY <1>1, <1>2 DEF MonitorTyped
<1>4. ASSUME NEW m \in Monitors PROVE ProbeHolds(m)' /\ StaysDue(m)'
  <2>1. ProbeHolds(m)'
    BY <1>2, ProbeKept DEF MonitorInv
  <2>2. /\ now' \in Nat /\ now' >= now
        /\ mstage[m] \in AlertKeys => kind = "process" /\ told'[m] = told[m]
    BY <1>1, <1>2, MonitorAssumption DEF MonitorTyped
  <2>3. StaysDue(m)'
    BY <1>1, <1>2, <2>2, DueKept DEF MonitorInv
  <2>. QED
    BY <2>1, <2>3
<1>5. ASSUME NEW m \in Monitors, NEW k \in AlertKeys PROVE AlertRemembered(m, k)'
  <2>1. AlertRemembered(m, k) /\ now \in Nat
    BY <1>1 DEF MonitorInv, MonitorTyped
  <2>2. CASE m = a
    <3>1. lastAlert'[m][k] = NoAlert /\ told'[m][k] = -1 /\ kind' = "process" /\ now' = now
      BY <1>1, <1>2, <2>2 DEF MonitorTyped
    <3>. QED
      BY <2>1, <3>1 DEF AlertRemembered
  <2>3. CASE m # a
    <3>1. lastAlert'[m] = lastAlert[m] /\ told'[m] = told[m] /\ kind' = "process" /\ now' = now
      BY <1>1, <1>2, <2>3 DEF MonitorTyped
    <3>. QED
      BY <1>2, <2>1, <3>1 DEF AlertRemembered, AlertOf
  <2>. QED
    BY <2>2, <2>3
<1>. QED
  BY <1>3, <1>4, <1>5 DEF MonitorInv

LEMMA PassKeeps ==
  ASSUME MonitorInv, Pass
  PROVE  MonitorInv'
<1>1. MonitorTyped
  BY DEF MonitorInv
<1>2. /\ now < MaxTime /\ now' = now + 1 /\ now' \in Nat /\ now' >= now
      /\ UNCHANGED <<kind, skew, lastAlert, mstage, todo, found, alerts, diagnosed, told, raced>>
  BY <1>1 DEF Pass, MonitorTyped
<1>3. MonitorTyped'
  BY <1>1, <1>2, MonitorAssumption DEF MonitorTyped
<1>4. ASSUME NEW m \in Monitors PROVE ProbeHolds(m)' /\ StaysDue(m)'
  BY <1>1, <1>2, ProbeKept, DueKept DEF MonitorInv
<1>5. ASSUME NEW m \in Monitors, NEW k \in AlertKeys PROVE AlertRemembered(m, k)'
  BY <1>1, <1>2, RememberedKept DEF MonitorInv
<1>. QED
  BY <1>3, <1>4, <1>5 DEF MonitorInv

LEMMA MonitorInvKept == MonitorInv /\ [MonitorNext]_monitorVars => MonitorInv'
<1>1. CASE UNCHANGED monitorVars
  <2>. SUFFICES ASSUME MonitorInv PROVE MonitorInv'
    BY <1>1
  <2>1. UNCHANGED <<kind, skew, now, lastAlert, mstage, todo, found, alerts, diagnosed, told,
                    raced>>
    BY <1>1 DEF monitorVars
  <2>2. MonitorTyped /\ MonitorTyped' /\ now' \in Nat /\ now' >= now
    BY <2>1 DEF MonitorInv, MonitorTyped
  <2>3. \A m \in Monitors : ProbeHolds(m)' /\ StaysDue(m)'
    BY <2>1, <2>2, ProbeKept, DueKept DEF MonitorInv
  <2>4. \A m \in Monitors, k \in AlertKeys : AlertRemembered(m, k)'
    BY <2>1, <2>2, RememberedKept DEF MonitorInv
  <2>. QED
    BY <2>2, <2>3, <2>4 DEF MonitorInv
<1>2. ASSUME MonitorInv, NEW m \in Monitors,
             \/ Probe(m) \/ CheckAnomaly(m) \/ RecordAlert(m) \/ EndProbe(m) \/ Restart(m)
      PROVE  MonitorInv'
  BY <1>2, ProbeKeeps, CheckAnomalyKeeps, RecordAlertKeeps, EndProbeKeeps, RestartKeeps
<1>. QED
  BY <1>1, <1>2, PassKeeps DEF MonitorNext

LEMMA MonitorInvAlways == MonitorSpec => []MonitorInv
  BY MonitorInvInitially, MonitorInvKept, PTL DEF MonitorSpec

(* The variables of the monitors keep their types; a probe alerts and has  *)
(* yet to check only what it found.                                        *)
THEOREM MonitorTypesHold == MonitorSpec => []MonitorTypeOK
<1>1. MonitorInv => MonitorTypeOK
  <2>. SUFFICES ASSUME MonitorInv PROVE MonitorTypeOK
    OBVIOUS
  <2>1. kind \in Stores /\ now \in 0 .. MaxTime
    BY MonitorAssumption DEF MonitorInv, MonitorTyped
  <2>2. \A m \in Monitors : /\ mstage[m] \in {"idle", "probing"} \union AlertKeys
                            /\ todo[m] \union alerts[m] \subseteq found[m]
    BY DEF MonitorInv, MonitorTyped, ProbeHolds
  <2>3. \A m \in Monitors, k \in AlertKeys : told[m][k] \in -1 .. now
    BY DEF MonitorInv, AlertRemembered
  <2>. QED
    BY <2>1, <2>2, <2>3 DEF MonitorTypeOK
<1>. QED
  BY <1>1, MonitorInvAlways, PTL

(* ProactiveMonitor.probe alerts again only when the interval has passed,  *)
(* unless another monitor alerted between its check and its record, and    *)
(* is silent only about what was alerted within the interval or the time   *)
(* to live: for any monitors, keys, spans and differences of the clocks.   *)
THEOREM AlertsAreSpacedHolds == MonitorSpec => AlertsAreSpaced
<1>1. ASSUME MonitorInv, MonitorNext, NEW m \in Monitors, NEW k \in AlertKeys
      PROVE  /\ alerts'[m] = alerts[m] \union {k} /\ k \notin alerts[m] /\ kind # "request" =>
                  /\ OneClock \/ kind = "process" => ~Recent(m, k, Interval) \/ m \in raced
                  /\ OneClock /\ kind = "redis" =>
                       (\A o \in Monitors : ~Recent(o, k, Interval)) \/ m \in raced
             /\ k \in todo[m] \ todo'[m] /\ mstage'[m] = "probing" =>
                  \E o \in Monitors :
                    Recent(o, k, IF OneClock \/ kind = "process" THEN Interval ELSE TTL)
  <2>1. MonitorTyped /\ StaysDue(m) /\ ProbeHolds(m)
    BY <1>1 DEF MonitorInv
  <2>2. CASE Pass
    BY <2>2 DEF Pass
  <2>3. ASSUME NEW a \in Monitors, Probe(a)
        PROVE  alerts' = alerts /\ todo[m] \ todo'[m] = {}
    BY <1>1, <2>3 DEF MonitorInv, MonitorTyped, ProbeHolds, Probe
  <2>4. ASSUME NEW a \in Monitors, Restart(a)
        PROVE  alerts' = alerts /\ todo[m] \ todo'[m] = {}
    BY <2>4 DEF Restart
  <2>5. ASSUME NEW a \in Monitors, EndProbe(a)
        PROVE  (alerts'[m] = alerts[m] \/ alerts'[m] = {})
               /\ (todo[m] \ todo'[m] = {} \/ mstage'[m] = "idle")
    BY <2>1, <2>5 DEF EndProbe, MonitorTyped
  <2>6. ASSUME NEW a \in Monitors, RecordAlert(a)
        PROVE  /\ todo' = todo /\ (m # a => alerts'[m] = alerts[m])
               /\ m = a => mstage[m] \in AlertKeys /\ alerts'[m] = alerts[m] \union {mstage[m]}
    BY <2>1, <2>6 DEF RecordAlert, MonitorTyped
  <2>7. ASSUME NEW a \in Monitors, CheckAnomaly(a), k \in todo[m] \ todo'[m],
               mstage'[m] = "probing"
        PROVE  ShouldSuppress(m, k)
    <3>1. PICK j \in todo[a] :
            /\ mstage[a] = "probing" /\ todo' = [todo EXCEPT ![a] = @ \ {j}]
            /\ IF ShouldSuppress(a, j) THEN UNCHANGED <<lastAlert, mstage>>
               ELSE mstage' = [mstage EXCEPT ![a] = j] /\ UNCHANGED lastAlert
      BY <2>7 DEF CheckAnomaly, Silence
    <3>2. m = a /\ j = k
      BY <2>1, <2>7, <3>1 DEF MonitorTyped
    <3>. QED
      BY <2>1, <2>7, <3>1, <3>2, MonitorAssumption DEF MonitorTyped
  <2>8. ASSUME NEW a \in Monitors, CheckAnomaly(a) PROVE alerts' = alerts
    BY <2>8 DEF CheckAnomaly
  <2>9. alerts'[m] = alerts[m] \union {k} /\ k \notin alerts[m] =>
          mstage[m] = k /\ k \in AlertKeys
    BY <1>1, <2>2, <2>3, <2>4, <2>5, <2>6, <2>8 DEF MonitorNext, Pass
  <2>10. k \in todo[m] \ todo'[m] /\ mstage'[m] = "probing" => ShouldSuppress(m, k)
    BY <1>1, <2>2, <2>3, <2>4, <2>5, <2>6, <2>7 DEF MonitorNext, Pass
  <2>11. ASSUME mstage[m] = k, k \in AlertKeys, kind # "request"
         PROVE  /\ OneClock \/ kind = "process" => ~Recent(m, k, Interval) \/ m \in raced
                /\ OneClock /\ kind = "redis" =>
                     (\A o \in Monitors : ~Recent(o, k, Interval)) \/ m \in raced
    <3>1. kind \in {"process", "redis"}
      BY <2>1, <2>11 DEF MonitorTyped, Stores
    <3>. QED
      BY <2>1, <2>11, <3>1 DEF StaysDue
  <2>12. ShouldSuppress(m, k) =>
           \E o \in Monitors :
             Recent(o, k, IF OneClock \/ kind = "process" THEN Interval ELSE TTL)
    BY <1>1, CheckedAlert
  <2>. QED
    BY <2>9, <2>10, <2>11, <2>12
<1>2. MonitorInv /\ [MonitorNext]_monitorVars =>
        [\A m \in Monitors, k \in AlertKeys :
           /\ alerts'[m] = alerts[m] \union {k} /\ k \notin alerts[m] /\ kind # "request" =>
                /\ OneClock \/ kind = "process" => ~Recent(m, k, Interval) \/ m \in raced
                /\ OneClock /\ kind = "redis" =>
                     (\A o \in Monitors : ~Recent(o, k, Interval)) \/ m \in raced
           /\ k \in todo[m] \ todo'[m] /\ mstage'[m] = "probing" =>
                \E o \in Monitors :
                  Recent(o, k, IF OneClock \/ kind = "process" THEN Interval
                                                              ELSE TTL)]_monitorVars
  BY <1>1
<1>. QED
  BY <1>2, MonitorInvAlways, PTL DEF MonitorSpec, AlertsAreSpaced
----------------------------------------------------------------------------
(* Reports: a run's row against what was told of it.                       *)

EventTypes == {"run_started", "decision", "tool_call", "tool_result", "recovery", "final_report",
               "handoff", "approval_required", "error", "approval_decision", "approval_resume"}
Stages == {"nothing", "run_started", "decision", "tool_call", "tool_result", "strong", "recovery",
           "complete", "hand over", "pause", "final_report", "handoff", "approval_required",
           "error", "return"}
HandlerStages == {"nothing", "resume", "decision", "handoff", "row", "over"}
RowStatuses ==
  {"none", "running", "completed", "waiting_approval", "handoff_required", "failed"}
RunRows == [status : RowStatuses, error : BOOLEAN, writes : Nat,
            by : {"nobody", "runtime", "handler"}]
Claimants == {"nobody", "graph", "runtime", "handler"}
RunEvents == [type : EventTypes, claims : Claimants, at : Nat]

RunsTyped ==
  /\ runRow \in [ReportedRuns -> RunRows]
  /\ runEvents \in [ReportedRuns -> Seq(RunEvents)]
  /\ ticks \in Nat
  /\ telling \in [ReportedRuns -> Stages]
  /\ deciding \in [ReportedRuns -> HandlerStages]
  /\ resumes \in [ReportedRuns -> Nat]

(* The events of a run are told one after the other.                       *)
Timed(r) ==
  /\ \A n \in DOMAIN runEvents[r] : runEvents[r][n].at < ticks
  /\ \A m, n \in DOMAIN runEvents[r] : m < n => runEvents[r][m].at < runEvents[r][n].at

Told(r, type) == {n \in DOMAIN runEvents[r] : runEvents[r][n].type = type}

(* Only a run in a call, or failed in it, has a call without a result.     *)
ResultsFollow(r) ==
  LET calls == Cardinality(Told(r, "tool_call"))
      results == Cardinality(Told(r, "tool_result"))
  IN \/ calls <= results
     \/ telling[r] = "tool_result" /\ calls <= results + 1
     \/ telling[r] = "error"
     \/ Told(r, "error") # {}

SpeakingTypes == {"handoff", "approval_resume", "approval_required", "decision"}

(* The last event that says anything of the status says handoff_required.  *)
HandedLast(r) ==
  \E n \in DOMAIN runEvents[r] :
    /\ \/ runEvents[r][n].type = "handoff"
       \/ runEvents[r][n].type = "decision" /\ runEvents[r][n].claims # "nobody"
    /\ \A m \in DOMAIN runEvents[r] : m > n => runEvents[r][m].type \notin SpeakingTypes

EventStands(r, n) ==
  LET e == runEvents[r][n] IN
  /\ e.type = "error" => runRow[r].error
  /\ (e.type = "handoff" /\ e.claims # "nobody") =>
       /\ runRow[r].status \in {"handoff_required", "failed"}
       /\ telling[r] \in {"return", "nothing", "error"}
  /\ (e.type = "handoff" /\ e.claims = "nobody") => deciding[r] \in {"row", "over"}
  /\ (e.type = "decision" /\ e.claims \notin {"nobody", "graph"}) =>
       deciding[r] \in {"handoff", "row", "over"}

(* What the row says against what was told and who tells next.             *)
RowAgrees(r) ==
  LET row == runRow[r] IN
  /\ row.status = "none" =>
       runEvents[r] = <<>> /\ telling[r] = "nothing" /\ deciding[r] = "nothing"
  /\ row.by = "nobody" => row.status = "none"
  /\ row.status \in {"handoff_required", "failed"} => row.error
  /\ telling[r] = "error" => row.error
  /\ telling[r] = "handoff" => row.status = "handoff_required"
  /\ deciding[r] = "over" => row.error
  /\ row.by = "handler" => row.status = "handoff_required" /\ deciding[r] = "over"
  /\ (row.by = "runtime" /\ row.status = "handoff_required") =>
       /\ telling[r] \in {"handoff", "return", "nothing"}
       /\ telling[r] = "handoff" \/ deciding[r] = "resume" \/ HandedLast(r)
  /\ \A n \in DOMAIN runEvents[r] : EventStands(r, n)

RunStands(r) == Timed(r) /\ ResultsFollow(r) /\ RowAgrees(r)

RunsInv == RunsTyped /\ \A r \in ReportedRuns : RunStands(r)

LEMMA RunsInvInitially == ReportsInit => RunsInv
<1>. SUFFICES ASSUME ReportsInit PROVE RunsInv
  OBVIOUS
<1>1. RunsTyped
  <2>1. \A r \in ReportedRuns : runEvents[r] = <<>> /\ <<>> \in Seq(RunEvents)
    BY DEF ReportsInit
  <2>. QED
    BY <2>1 DEF ReportsInit, RunsTyped, RunRows, Stages, HandlerStages, RowStatuses
<1>2. ASSUME NEW r \in ReportedRuns PROVE RunStands(r)
  <2>1. /\ runEvents[r] = <<>> /\ runRow[r].status = "none" /\ runRow[r].by = "nobody"
        /\ runRow[r].error = FALSE /\ telling[r] = "nothing" /\ deciding[r] = "nothing"
    BY DEF ReportsInit
  <2>2. Told(r, "tool_call") = {} /\ Told(r, "tool_result") = {}
    BY <2>1 DEF Told
  <2>3. ResultsFollow(r)
    BY <2>2, FS_EmptySet DEF ResultsFollow
  <2>. QED
    BY <2>1, <2>3 DEF RunStands, Timed, RowAgrees
<1>. QED
  BY <1>1, <1>2 DEF RunsInv

LEMMA FollowingIs ==
  /\ DOMAIN Following = {"run_started", "decision", "tool_call", "tool_result", "strong",
                         "recovery", "final_report", "handoff", "approval_required", "error"}
  /\ \A t \in DOMAIN Following :
       /\ Following[t] \subseteq Stages /\ TypeOf(t) \in EventTypes
       /\ "error" \notin Following[t] /\ "handoff" \notin Following[t]
       /\ ("tool_result" \in Following[t] => t = "tool_call")
       /\ TypeOf(t) \in {t, "decision"}
       /\ (TypeOf(t) = "decision" => t \in {"decision", "strong"})
  /\ Following["handoff"] = {"return"} /\ Following["error"] = {"nothing"}
  /\ Following["tool_call"] = {"tool_result"}
  /\ \A t \in DOMAIN Following :
       /\ ClaimsOf(t) \subseteq Claimants
       /\ t # "handoff" => ClaimsOf(t) \subseteq {"nobody", "graph"}
  /\ ClaimsOf("handoff") = {"runtime"}
<1>1. DOMAIN Following = {"run_started", "decision", "tool_call", "tool_result", "strong",
                          "recovery", "final_report", "handoff", "approval_required", "error"}
  BY DEF Following
<1>2. /\ Following["run_started"] = {"decision"}
      /\ Following["decision"] = {"tool_call", "complete"}
      /\ Following["tool_call"] = {"tool_result"}
      /\ Following["tool_result"] = {"strong", "recovery", "pause"}
      /\ Following["strong"] = {"complete"} /\ Following["recovery"] = {"hand over"}
      /\ Following["final_report"] = {"return"} /\ Following["handoff"] = {"return"}
      /\ Following["approval_required"] = {"return"} /\ Following["error"] = {"nothing"}
  BY DEF Following
<1>3. ASSUME NEW t \in DOMAIN Following
      PROVE  /\ Following[t] \subseteq Stages
             /\ "error" \notin Following[t] /\ "handoff" \notin Following[t]
             /\ ("tool_result" \in Following[t] => t = "tool_call")
  <2>1. Following[t] \subseteq {"decision", "tool_call", "complete", "tool_result", "strong",
                                "recovery", "pause", "hand over", "return", "nothing"}
    <3>1. CASE t \in {"run_started", "decision", "tool_call", "tool_result", "strong"}
      BY <1>2, <3>1
    <3>2. CASE t \in {"recovery", "final_report", "handoff", "approval_required", "error"}
      BY <1>2, <3>2
    <3>. QED
      BY <1>1, <3>1, <3>2
  <2>2. "tool_result" \in Following[t] => t = "tool_call"
    <3>1. CASE t \in {"run_started", "decision", "tool_call", "tool_result", "strong"}
      BY <1>2, <3>1
    <3>2. CASE t \in {"recovery", "final_report", "handoff", "approval_required", "error"}
      BY <1>2, <3>2
    <3>. QED
      BY <1>1, <3>1, <3>2
  <2>. QED
    BY <2>1, <2>2 DEF Stages
<1>4. ASSUME NEW t \in DOMAIN Following
      PROVE  /\ TypeOf(t) \in EventTypes /\ TypeOf(t) \in {t, "decision"}
             /\ (TypeOf(t) = "decision" => t \in {"decision", "strong"})
  BY <1>1 DEF TypeOf, EventTypes
<1>5. ASSUME NEW t \in DOMAIN Following
      PROVE  /\ ClaimsOf(t) \subseteq Claimants
             /\ t # "handoff" => ClaimsOf(t) \subseteq {"nobody", "graph"}
  BY DEF ClaimsOf, Claimants
<1>6. ClaimsOf("handoff") = {"runtime"}
  BY DEF ClaimsOf
<1>. QED
  BY <1>1, <1>2, <1>3, <1>4, <1>5, <1>6

LEMMA EventTold ==
  ASSUME RunsTyped, NEW r \in ReportedRuns, NEW type \in EventTypes, NEW claims \in Claimants,
         Tell(r, type, claims)
  PROVE  /\ runEvents' \in [ReportedRuns -> Seq(RunEvents)] /\ ticks' = ticks + 1
         /\ Len(runEvents[r]) \in Nat /\ DOMAIN runEvents[r] = 1 .. Len(runEvents[r])
         /\ DOMAIN runEvents'[r] = 1 .. Len(runEvents[r]) + 1
         /\ \A n \in 1 .. Len(runEvents[r]) : runEvents'[r][n] = runEvents[r][n]
         /\ LET e == runEvents'[r][Len(runEvents[r]) + 1]
            IN  e.type = type /\ e.claims = claims /\ e.at = ticks
         /\ \A q \in ReportedRuns \ {r} : runEvents'[q] = runEvents[q]
<1>. DEFINE e == [type |-> type, claims |-> claims, at |-> ticks]
            s == runEvents[r]
<1>1. e \in RunEvents /\ e.type = type /\ e.claims = claims /\ e.at = ticks
  BY DEF RunEvents, RunsTyped
<1>2. s \in Seq(RunEvents) /\ runEvents' = [runEvents EXCEPT ![r] = Append(s, e)]
  BY DEF Tell, RunsTyped
<1>. HIDE DEF e
<1>3. /\ Append(s, e) \in Seq(RunEvents) /\ Len(s) \in Nat /\ DOMAIN s = 1 .. Len(s)
      /\ DOMAIN Append(s, e) = 1 .. Len(s) + 1
      /\ \A n \in 1 .. Len(s) : Append(s, e)[n] = s[n]
      /\ Append(s, e)[Len(s) + 1] = e
  <2>. HIDE DEF s
  <2>. QED
    BY <1>1, <1>2
<1>4. runEvents'[r] = Append(s, e) /\ \A q \in ReportedRuns \ {r} : runEvents'[q] = runEvents[q]
  BY <1>2 DEF RunsTyped
<1>5. runEvents' \in [ReportedRuns -> Seq(RunEvents)]
  BY <1>2, <1>3 DEF RunsTyped
<1>6. ticks' = ticks + 1
  BY DEF Tell
<1>. QED
  BY <1>1, <1>3, <1>4, <1>5, <1>6

LEMMA OtherRunStands ==
  ASSUME RunsInv, RunsTyped', NEW q \in ReportedRuns, ticks' >= ticks,
         runRow'[q] = runRow[q], runEvents'[q] = runEvents[q],
         telling'[q] = telling[q], deciding'[q] = deciding[q]
  PROVE  RunStands(q)'
<1>1. /\ ticks \in Nat /\ ticks' \in Nat /\ runEvents[q] \in Seq(RunEvents)
      /\ Timed(q) /\ ResultsFollow(q) /\ RowAgrees(q)
  BY DEF RunsInv, RunsTyped, RunStands
<1>2. \A n \in DOMAIN runEvents[q] : runEvents[q][n].at \in Nat
  <2>1. \A n \in DOMAIN runEvents[q] : runEvents[q][n] \in RunEvents
    BY <1>1
  <2>2. \A e \in RunEvents : e.at \in Nat
    BY DEF RunEvents
  <2>. QED
    BY <2>1, <2>2
<1>3. Timed(q)'
  BY <1>1, <1>2 DEF Timed
<1>4. ResultsFollow(q)'
  BY <1>1 DEF ResultsFollow, Told
<1>5. RowAgrees(q)'
  BY <1>1 DEF RowAgrees, EventStands, HandedLast
<1>. QED
  BY <1>3, <1>4, <1>5 DEF RunStands

LEMMA EventTimed ==
  ASSUME RunsInv, NEW r \in ReportedRuns, NEW type \in EventTypes, NEW claims \in Claimants,
         Tell(r, type, claims)
  PROVE  Timed(r)'
<1>. DEFINE n == Len(runEvents[r])
<1>1. /\ ticks \in Nat /\ runEvents[r] \in Seq(RunEvents) /\ Timed(r) /\ RunsTyped
  BY DEF RunsInv, RunsTyped, RunStands
<1>2. /\ ticks' = ticks + 1 /\ n \in Nat /\ DOMAIN runEvents[r] = 1 .. n
      /\ DOMAIN runEvents'[r] = 1 .. n + 1
      /\ \A k \in 1 .. n : runEvents'[r][k] = runEvents[r][k]
      /\ runEvents'[r][n + 1].at = ticks
  BY <1>1, EventTold
<1>3. \A k \in 1 .. n : runEvents[r][k].at \in Nat /\ runEvents[r][k].at < ticks
  <2>1. \A k \in 1 .. n : runEvents[r][k] \in RunEvents
    BY <1>1, <1>2
  <2>2. \A e \in RunEvents : e.at \in Nat
    BY DEF RunEvents
  <2>. QED
    BY <1>1, <1>2, <2>1, <2>2 DEF Timed
<1>4. \A i, j \in 1 .. n : i < j => runEvents[r][i].at < runEvents[r][j].at
  BY <1>1, <1>2 DEF Timed
<1>. HIDE DEF n
<1>5. \A k \in 1 .. n + 1 : k \in 1 .. n \/ k = n + 1
  BY <1>2
<1>6. \A k \in DOMAIN runEvents'[r] : runEvents'[r][k].at < ticks'
  BY <1>1, <1>2, <1>3, <1>5
<1>7. \A i, j \in DOMAIN runEvents'[r] : i < j => runEvents'[r][i].at < runEvents'[r][j].at
  <2>. SUFFICES ASSUME NEW i \in 1 .. n + 1, NEW j \in 1 .. n + 1, i < j
                PROVE  runEvents'[r][i].at < runEvents'[r][j].at
    BY <1>2
  <2>1. i \in 1 .. n
    BY <1>2
  <2>. QED
    BY <1>2, <1>3, <1>4, <1>5, <2>1
<1>. QED
  BY <1>6, <1>7 DEF Timed

(* One event more of its type, and as many of every other type.            *)
LEMMA EventCounted ==
  ASSUME RunsTyped, NEW r \in ReportedRuns, NEW type \in EventTypes, NEW claims \in Claimants,
         Tell(r, type, claims)
  PROVE  \A t \in EventTypes :
           /\ Cardinality(Told(r, t)) \in Nat
           /\ Told(r, t) \subseteq Told(r, t)'
           /\ Cardinality(Told(r, t)') =
                IF t = type THEN Cardinality(Told(r, t)) + 1 ELSE Cardinality(Told(r, t))
<1>0. PICK n : n = Len(runEvents[r])
  OBVIOUS
<1>1. /\ n \in Nat /\ DOMAIN runEvents[r] = 1 .. n /\ DOMAIN runEvents'[r] = 1 .. n + 1
      /\ \A k \in 1 .. n : runEvents'[r][k] = runEvents[r][k]
      /\ runEvents'[r][n + 1].type = type
  BY <1>0, EventTold
<1>2. /\ n + 1 \notin 1 .. n /\ \A k \in 1 .. n + 1 : k \in 1 .. n \/ k = n + 1
      /\ n + 1 \in 1 .. n + 1 /\ \A k \in 1 .. n : k \in 1 .. n + 1
      /\ \A k \in 1 .. n : k \in Nat /\ k <= n
  BY <1>1
<1>. SUFFICES ASSUME NEW t \in EventTypes
              PROVE  /\ Cardinality(Told(r, t)) \in Nat
                     /\ Told(r, t) \subseteq Told(r, t)'
                     /\ Cardinality(Told(r, t)') =
                          IF t = type THEN Cardinality(Told(r, t)) + 1
                          ELSE Cardinality(Told(r, t))
  OBVIOUS
<1>3. Told(r, t)' = IF t = type THEN Told(r, t) \union {n + 1} ELSE Told(r, t)
  BY <1>1, <1>2 DEF Told
<1>4. Told(r, t) \subseteq 1 .. n
  BY <1>1 DEF Told
<1>5. IsFiniteSet(Told(r, t)) /\ n + 1 \notin Told(r, t)
  <2>1. Told(r, t) \in SUBSET Nat /\ \A k \in Told(r, t) : k <= n
    BY <1>2, <1>4
  <2>2. IsFiniteSet(Told(r, t))
    BY <1>1, <2>1, FS_BoundedSetOfNaturals
  <2>. QED
    BY <1>2, <1>4, <2>2
<1>6. Cardinality(Told(r, t)) \in Nat
  BY <1>5, FS_CardinalityType
<1>7. Cardinality(Told(r, t) \union {n + 1}) = Cardinality(Told(r, t)) + 1
  BY <1>5, FS_AddElement
<1>. QED
  BY <1>3, <1>6, <1>7

(* A step that tells nothing, and one that tells an event, as the count of *)
(* calls and results sees them.                                            *)
LEMMA ResultsKept ==
  ASSUME RunsInv, NEW r \in ReportedRuns, UNCHANGED runEvents,
         telling[r] = "tool_result" => telling'[r] \in {"tool_result", "error"},
         telling[r] = "error" => telling'[r] = "error"
  PROVE  ResultsFollow(r)'
  BY DEF RunsInv, RunStands, ResultsFollow, Told

LEMMA ResultsTold ==
  ASSUME RunsInv, NEW r \in ReportedRuns, NEW type \in EventTypes, NEW claims \in Claimants,
         Tell(r, type, claims),
         type = "tool_call" => telling[r] = "tool_call" /\ telling'[r] = "tool_result",
         telling[r] = "tool_result" => telling'[r] = "tool_result" \/ type = "tool_result",
         telling[r] = "error" => telling'[r] = "error" \/ type = "error"
  PROVE  ResultsFollow(r)'
<1>1. ResultsFollow(r) /\ RunsTyped
  BY DEF RunsInv, RunStands
<1>2. \A t \in EventTypes :
           /\ Cardinality(Told(r, t)) \in Nat
           /\ Told(r, t) \subseteq Told(r, t)'
           /\ Cardinality(Told(r, t)') =
                IF t = type THEN Cardinality(Told(r, t)) + 1 ELSE Cardinality(Told(r, t))
  BY <1>1, EventCounted
<1>. DEFINE calls == Cardinality(Told(r, "tool_call"))
            results == Cardinality(Told(r, "tool_result"))
<1>3. /\ calls \in Nat /\ results \in Nat
      /\ calls' = (IF type = "tool_call" THEN calls + 1 ELSE calls)
      /\ results' = (IF type = "tool_result" THEN results + 1 ELSE results)
      /\ Told(r, "error") \subseteq Told(r, "error")'
  BY <1>2 DEF EventTypes
<1>4. type = "error" => Told(r, "error")' # {}
  <2>1. /\ Len(runEvents[r]) + 1 \in DOMAIN runEvents'[r]
        /\ runEvents'[r][Len(runEvents[r]) + 1].type = type
    BY <1>1, EventTold
  <2>. QED
    BY <2>1 DEF Told
<1>5. \/ calls <= results
      \/ telling[r] = "tool_result" /\ calls <= results + 1
      \/ telling[r] = "error"
      \/ Told(r, "error") # {}
  BY <1>1 DEF ResultsFollow
<1>6. \/ calls' <= results'
      \/ telling'[r] = "tool_result" /\ calls' <= results' + 1
      \/ telling'[r] = "error"
      \/ Told(r, "error")' # {}
  <2>. HIDE DEF calls, results
  <2>. QED
    BY <1>3, <1>4, <1>5
<1>. QED
  BY <1>6 DEF ResultsFollow

(* What a step that tells an event has to show of the row it leaves alone. *)
LEMMA RowAgreesTold ==
  ASSUME RunsInv, NEW r \in ReportedRuns, NEW type \in EventTypes, NEW claims \in Claimants,
         Tell(r, type, claims), runRow' = runRow, runRow[r].status # "none",
         \* the runtime
         telling[r] \in {"return", "nothing"} => telling'[r] = telling[r],
         telling[r] = "error" => telling'[r] \in {"error", "nothing"},
         telling'[r] = "error" => telling[r] = "error",
         telling'[r] = "handoff" => telling[r] = "handoff",
         telling[r] = "handoff" =>
           telling'[r] = "handoff" \/ (telling'[r] = "return" /\ type = "handoff"),
         \* the handler
         deciding[r] \in {"row", "over"} => deciding'[r] = deciding[r],
         deciding'[r] = "over" => deciding[r] = "over",
         deciding[r] = "resume" => deciding'[r] = "resume",
         deciding[r] = "handoff" => deciding'[r] \in {"handoff", "row"},
         \* the event
         type = "error" => telling[r] = "error",
         type = "handoff" =>
           IF claims = "nobody" THEN deciding'[r] = "row"
                                ELSE telling[r] = "handoff" /\ telling'[r] = "return",
         type = "decision" => claims \in {"nobody", "graph"} \/ deciding'[r] = "handoff",
         type \in SpeakingTypes =>
           \/ telling[r] \notin {"handoff", "return", "nothing"}
           \/ type = "handoff" \/ (type = "decision" /\ claims # "nobody")
           \/ deciding'[r] = "resume"
  PROVE  RowAgrees(r)'
<1>0. PICK n : n = Len(runEvents[r])
  OBVIOUS
<1>1. RowAgrees(r) /\ RunsTyped
  BY DEF RunsInv, RunStands
<1>2. /\ n \in Nat /\ DOMAIN runEvents[r] = 1 .. n /\ DOMAIN runEvents'[r] = 1 .. n + 1
      /\ \A k \in 1 .. n : runEvents'[r][k] = runEvents[r][k]
      /\ runEvents'[r][n + 1].type = type /\ runEvents'[r][n + 1].claims = claims
  BY <1>0, <1>1, EventTold
<1>3. /\ n + 1 \in 1 .. n + 1 /\ \A k \in 1 .. n + 1 : k \in 1 .. n \/ k = n + 1
      /\ \A k \in 1 .. n : k \in 1 .. n + 1 /\ n + 1 > k
      /\ \A k \in 1 .. n + 1 : ~(k > n + 1)
  BY <1>2
<1>4. \A k \in 1 .. n + 1 : EventStands(r, k)'
  <2>1. \A k \in 1 .. n : EventStands(r, k)'
    BY <1>1, <1>2 DEF RowAgrees, EventStands
  <2>2. EventStands(r, n + 1)'
    <3>1. /\ telling[r] = "error" => runRow[r].error
          /\ telling[r] = "handoff" => runRow[r].status = "handoff_required"
      BY <1>1 DEF RowAgrees
    <3>2. runEvents'[r][n + 1].claims = claims /\ runEvents'[r][n + 1].type = type
      BY <1>2
    <3>. QED
      BY <3>1, <3>2 DEF EventStands
  <2>. QED
    BY <1>3, <2>1, <2>2
<1>5. ASSUME runRow[r].by = "runtime", runRow[r].status = "handoff_required"
      PROVE  /\ telling'[r] \in {"handoff", "return", "nothing"}
             /\ telling'[r] = "handoff" \/ deciding'[r] = "resume" \/ HandedLast(r)'
  <2>1. /\ telling[r] \in {"handoff", "return", "nothing"}
        /\ telling[r] = "handoff" \/ deciding[r] = "resume" \/ HandedLast(r)
    BY <1>1, <1>5 DEF RowAgrees
  <2>2. telling'[r] \in {"handoff", "return", "nothing"}
    BY <2>1
  <2>3. CASE type = "handoff" \/ (type = "decision" /\ claims # "nobody")
    <3>1. HandedLast(r)'
      BY <1>2, <1>3, <2>3 DEF HandedLast
    <3>. QED
      BY <2>2, <3>1
  <2>4. CASE type \notin SpeakingTypes
    <3>1. HandedLast(r) => HandedLast(r)'
      BY <1>2, <1>3, <2>4 DEF HandedLast
    <3>. QED
      BY <2>1, <2>2, <2>4, <3>1 DEF SpeakingTypes
  <2>5. CASE /\ type \in SpeakingTypes
             /\ ~(type = "handoff" \/ (type = "decision" /\ claims # "nobody"))
    BY <2>1, <2>2, <2>5
  <2>. QED
    BY <2>3, <2>4, <2>5
<1>. QED
  BY <1>1, <1>2, <1>4, <1>5 DEF RowAgrees

(* A step of one run leaves the others alone.                              *)
LEMMA RunStepTyped ==
  ASSUME RunsTyped, NEW r \in ReportedRuns,
         \/ StartReportedRun(r) \/ TellNext(r) \/ SettleReported(r) \/ FailReported(r)
         \/ ReturnReported(r) \/ DecideReported(r) \/ TellResume(r) \/ MarkReportedHandoff(r)
  PROVE  /\ RunsTyped' /\ ticks' >= ticks
         /\ \A q \in ReportedRuns \ {r} :
              /\ runRow'[q] = runRow[q] /\ runEvents'[q] = runEvents[q]
              /\ telling'[q] = telling[q] /\ deciding'[q] = deciding[q]
<1>1. /\ runRow \in [ReportedRuns -> RunRows]
      /\ runEvents \in [ReportedRuns -> Seq(RunEvents)] /\ ticks \in Nat
      /\ telling \in [ReportedRuns -> Stages] /\ deciding \in [ReportedRuns -> HandlerStages]
      /\ resumes \in [ReportedRuns -> Nat]
  BY DEF RunsTyped
<1>2. /\ runRow' \in [ReportedRuns -> RunRows]
      /\ \A q \in ReportedRuns \ {r} : runRow'[q] = runRow[q]
  <2>1. ASSUME NEW by \in {"runtime", "handler"}, NEW s \in RowStatuses, NEW e \in BOOLEAN,
               WriteRow(r, by, s, e)
        PROVE  /\ runRow' \in [ReportedRuns -> RunRows]
               /\ \A q \in ReportedRuns \ {r} : runRow'[q] = runRow[q]
    <3>1. runRow[r].writes \in Nat /\ runRow[r].error \in BOOLEAN
      BY <1>1 DEF RunRows
    <3>. DEFINE row == [status |-> s, error |-> runRow[r].error \/ e,
                        writes |-> runRow[r].writes + 1, by |-> by]
    <3>2. row \in RunRows
      BY <2>1, <3>1 DEF RunRows
    <3>3. runRow' = [runRow EXCEPT ![r] = row]
      BY <2>1 DEF WriteRow
    <3>. HIDE DEF row
    <3>. QED
      BY <1>1, <3>2, <3>3
  <2>2. CASE \/ StartReportedRun(r) \/ SettleReported(r) \/ FailReported(r)
    BY <2>1, <2>2 DEF StartReportedRun, SettleReported, FailReported, RowStatuses
  <2>3. CASE MarkReportedHandoff(r)
    BY <1>1, <2>1, <2>3 DEF MarkReportedHandoff, RowStatuses
  <2>4. CASE \/ TellNext(r) \/ ReturnReported(r) \/ DecideReported(r) \/ TellResume(r)
    BY <1>1, <2>4 DEF TellNext, ReturnReported, DecideReported, TellResume
  <2>. QED
    BY <2>2, <2>3, <2>4
<1>3. /\ runEvents' \in [ReportedRuns -> Seq(RunEvents)] /\ ticks' \in Nat /\ ticks' >= ticks
      /\ \A q \in ReportedRuns \ {r} : runEvents'[q] = runEvents[q]
  <2>1. ASSUME NEW type \in EventTypes, NEW claims \in Claimants, Tell(r, type, claims)
        PROVE  /\ runEvents' \in [ReportedRuns -> Seq(RunEvents)]
               /\ ticks' \in Nat /\ ticks' >= ticks
               /\ \A q \in ReportedRuns \ {r} : runEvents'[q] = runEvents[q]
    BY <1>1, <2>1, EventTold
  <2>2. CASE TellNext(r)
    BY <2>1, <2>2, FollowingIs DEF TellNext
  <2>3. CASE \/ DecideReported(r) \/ TellResume(r)
    BY <2>1, <2>3 DEF DecideReported, TellResume, TellPlain, EventTypes, Claimants
  <2>4. CASE MarkReportedHandoff(r)
    <3>1. CASE deciding[r] = "row"
      BY <1>1, <2>4, <3>1 DEF MarkReportedHandoff
    <3>2. CASE deciding[r] # "row"
      <4>1. Tell(r, "decision", "handler") \/ Tell(r, "handoff", "nobody")
        BY <2>4, <3>2 DEF MarkReportedHandoff, TellPlain
      <4>. QED
        BY <2>1, <4>1 DEF EventTypes, Claimants
    <3>. QED
      BY <3>1, <3>2
  <2>5. CASE \/ StartReportedRun(r) \/ SettleReported(r) \/ FailReported(r) \/ ReturnReported(r)
    <3>1. runEvents' = runEvents /\ ticks' = ticks
      BY <2>5 DEF StartReportedRun, SettleReported, FailReported, ReturnReported
    <3>. QED
      BY <1>1, <3>1
  <2>. QED
    BY <2>2, <2>3, <2>4, <2>5
<1>4. /\ telling' \in [ReportedRuns -> Stages]
      /\ \A q \in ReportedRuns \ {r} : telling'[q] = telling[q]
  <2>1. ASSUME NEW next \in Stages, Then(r, next)
        PROVE  /\ telling' \in [ReportedRuns -> Stages]
               /\ \A q \in ReportedRuns \ {r} : telling'[q] = telling[q]
    BY <1>1, <2>1 DEF Then
  <2>2. CASE TellNext(r)
    BY <2>1, <2>2, FollowingIs DEF TellNext
  <2>3. CASE \/ StartReportedRun(r) \/ SettleReported(r) \/ FailReported(r) \/ ReturnReported(r)
    BY <2>1, <2>3 DEF StartReportedRun, SettleReported, FailReported, ReturnReported, Stages
  <2>4. CASE \/ DecideReported(r) \/ TellResume(r) \/ MarkReportedHandoff(r)
    BY <1>1, <2>4 DEF DecideReported, TellResume, MarkReportedHandoff
  <2>. QED
    BY <2>2, <2>3, <2>4
<1>5. /\ deciding' \in [ReportedRuns -> HandlerStages] /\ resumes' \in [ReportedRuns -> Nat]
      /\ \A q \in ReportedRuns \ {r} : deciding'[q] = deciding[q]
  <2>1. CASE DecideReported(r) \/ MarkReportedHandoff(r)
    BY <1>1, <2>1 DEF DecideReported, MarkReportedHandoff, HandlerStages
  <2>2. CASE \/ StartReportedRun(r) \/ TellNext(r) \/ SettleReported(r) \/ FailReported(r)
             \/ ReturnReported(r) \/ TellResume(r)
    <3>1. deciding' = deciding
      BY <2>2 DEF StartReportedRun, TellNext, SettleReported, FailReported, ReturnReported,
                  TellResume
    <3>2. resumes' = resumes \/ resumes' = [resumes EXCEPT ![r] = @ + 1]
      BY <2>2 DEF StartReportedRun, TellNext, SettleReported, FailReported, ReturnReported,
                  TellResume
    <3>3. resumes' \in [ReportedRuns -> Nat]
      BY <1>1, <3>2
    <3>. QED
      BY <1>1, <3>1, <3>3
  <2>. QED
    BY <2>1, <2>2
<1>. QED
  BY <1>2, <1>3, <1>4, <1>5 DEF RunsTyped

LEMMA TellNextStands ==
  ASSUME RunsInv, NEW r \in ReportedRuns, TellNext(r)
  PROVE  RunStands(r)'
<1>. DEFINE type == TypeOf(telling[r])
<1>1. PICK next \in Following[telling[r]] : Then(r, next)
  BY DEF TellNext
<1>2. /\ telling[r] \in DOMAIN Following /\ telling'[r] = next
      /\ runRow' = runRow /\ deciding' = deciding
  BY <1>1 DEF TellNext, Then, RunsInv, RunsTyped
<1>0. PICK claims \in ClaimsOf(telling[r]) : Tell(r, type, claims)
  BY DEF TellNext
<1>3. /\ type \in EventTypes /\ claims \in Claimants /\ Tell(r, type, claims)
      /\ IF telling[r] = "handoff" THEN claims = "runtime" ELSE claims \in {"nobody", "graph"}
  BY <1>0, <1>2, FollowingIs
<1>4. /\ type \in {telling[r], "decision"}
      /\ type = "decision" => telling[r] \in {"decision", "strong"}
      /\ next # "error" /\ next # "handoff"
      /\ next = "tool_result" => telling[r] = "tool_call"
      /\ telling[r] = "handoff" => next = "return"
      /\ telling[r] = "error" => next = "nothing"
      /\ telling[r] = "tool_call" => next = "tool_result"
      /\ telling[r] \notin {"return", "nothing"}
  BY <1>1, <1>2, FollowingIs
<1>5. runRow[r].status # "none"
  BY <1>4 DEF RunsInv, RunStands, RowAgrees
<1>. HIDE DEF type
<1>6. Timed(r)'
  BY <1>3, EventTimed
<1>7. ResultsFollow(r)'
  <2>1. type = "tool_call" => telling[r] = "tool_call" /\ telling'[r] = "tool_result"
    BY <1>2, <1>4
  <2>2. telling[r] = "tool_result" => telling'[r] = "tool_result" \/ type = "tool_result"
    BY <1>4
  <2>3. telling[r] = "error" => telling'[r] = "error" \/ type = "error"
    BY <1>4
  <2>. QED
    BY <1>3, <2>1, <2>2, <2>3, ResultsTold
<1>8. RowAgrees(r)'
  <2>1. /\ telling[r] \in {"return", "nothing"} => telling'[r] = telling[r]
        /\ telling[r] = "error" => telling'[r] \in {"error", "nothing"}
        /\ telling'[r] = "error" => telling[r] = "error"
        /\ telling'[r] = "handoff" => telling[r] = "handoff"
        /\ telling[r] = "handoff" =>
             telling'[r] = "handoff" \/ (telling'[r] = "return" /\ type = "handoff")
    BY <1>2, <1>4
  <2>2. /\ deciding[r] \in {"row", "over"} => deciding'[r] = deciding[r]
        /\ deciding'[r] = "over" => deciding[r] = "over"
        /\ deciding[r] = "resume" => deciding'[r] = "resume"
        /\ deciding[r] = "handoff" => deciding'[r] \in {"handoff", "row"}
    BY <1>2
  <2>3. type = "error" => telling[r] = "error"
    BY <1>4
  <2>4. /\ type = "handoff" =>
             claims # "nobody" /\ telling[r] = "handoff" /\ telling'[r] = "return"
        /\ type = "decision" => claims \in {"nobody", "graph"}
    BY <1>2, <1>3, <1>4
  <2>5. type \in SpeakingTypes =>
          \/ telling[r] \notin {"handoff", "return", "nothing"}
          \/ type = "handoff" \/ (type = "decision" /\ claims # "nobody")
          \/ deciding'[r] = "resume"
    BY <1>4
  <2>. QED
    BY <1>2, <1>3, <1>5, <2>1, <2>2, <2>3, <2>4, <2>5, RowAgreesTold
<1>. QED
  BY <1>6, <1>7, <1>8 DEF RunStands

(* The handler tells its decision, a resumed execution, or a handoff.      *)
LEMMA HandlerTellsStands ==
  ASSUME RunsInv, NEW r \in ReportedRuns, NEW type \in EventTypes, NEW claims \in Claimants,
         Tell(r, type, claims), runRow' = runRow, telling' = telling, runRow[r].status # "none",
         \/ type = "approval_decision" /\ deciding[r] = "nothing"
              /\ deciding'[r] \in {"resume", "decision"}
         \/ type = "approval_resume" /\ deciding[r] = "resume" /\ deciding'[r] = "resume"
         \/ type = "decision" /\ claims = "handler" /\ deciding[r] = "decision"
              /\ deciding'[r] = "handoff"
         \/ type = "handoff" /\ claims = "nobody" /\ deciding[r] = "handoff"
              /\ deciding'[r] = "row"
  PROVE  RunStands(r)'
<1>1. Timed(r)'
  BY EventTimed
<1>2. ResultsFollow(r)'
  <2>1. type # "tool_call"
    OBVIOUS
  <2>. QED
    BY <2>1, ResultsTold
<1>3. RowAgrees(r)'
  <2>1. type # "error" /\ (type = "approval_decision" => type \notin SpeakingTypes)
    BY DEF SpeakingTypes
  <2>2. /\ telling[r] \in {"return", "nothing"} => telling'[r] = telling[r]
        /\ telling[r] = "error" => telling'[r] \in {"error", "nothing"}
        /\ telling'[r] = "error" => telling[r] = "error"
        /\ telling'[r] = "handoff" => telling[r] = "handoff"
        /\ telling[r] = "handoff" =>
             telling'[r] = "handoff" \/ (telling'[r] = "return" /\ type = "handoff")
    OBVIOUS
  <2>3. /\ deciding[r] \in {"row", "over"} => deciding'[r] = deciding[r]
        /\ deciding'[r] = "over" => deciding[r] = "over"
        /\ deciding[r] = "resume" => deciding'[r] = "resume"
        /\ deciding[r] = "handoff" => deciding'[r] \in {"handoff", "row"}
    OBVIOUS
  <2>4. /\ type = "handoff" => claims = "nobody" /\ deciding'[r] = "row"
        /\ type = "decision" => deciding'[r] = "handoff"
    OBVIOUS
  <2>5. type \in SpeakingTypes =>
          \/ telling[r] \notin {"handoff", "return", "nothing"}
          \/ type = "handoff" \/ (type = "decision" /\ claims # "nobody")
          \/ deciding'[r] = "resume"
    BY <2>1
  <2>. QED
    BY <2>1, <2>2, <2>3, <2>4, <2>5, RowAgreesTold
<1>. QED
  BY <1>1, <1>2, <1>3 DEF RunStands

(* The steps that write the row, or only move the runtime.                 *)
LEMMA RowWritten ==
  ASSUME RunsTyped, NEW r \in ReportedRuns, NEW by, NEW status, NEW error \in BOOLEAN,
         WriteRow(r, by, status, error)
  PROVE  /\ runRow'[r].status = status /\ runRow'[r].by = by
         /\ runRow'[r].error = (runRow[r].error \/ error)
         /\ runRow[r].error \in BOOLEAN /\ runRow[r].writes \in Nat
         /\ runRow'[r].writes = runRow[r].writes + 1
<1>1. runRow[r] \in RunRows
  BY DEF RunsTyped
<1>2. runRow[r].error \in BOOLEAN /\ runRow[r].writes \in Nat
  BY <1>1 DEF RunRows
<1>. DEFINE row == [status |-> status, error |-> runRow[r].error \/ error,
                    writes |-> runRow[r].writes + 1, by |-> by]
<1>3. runRow'[r] = row
  BY DEF WriteRow, RunsTyped
<1>. QED
  BY <1>2, <1>3

LEMMA RowStepStands ==
  ASSUME RunsInv, NEW r \in ReportedRuns,
         \/ StartReportedRun(r) \/ SettleReported(r) \/ FailReported(r) \/ ReturnReported(r)
  PROVE  RunStands(r)'
<1>1. RunsTyped /\ Timed(r) /\ ResultsFollow(r) /\ RowAgrees(r)
  BY DEF RunsInv, RunStands
<1>2. runEvents' = runEvents /\ ticks' = ticks /\ deciding' = deciding
  BY DEF StartReportedRun, SettleReported, FailReported, ReturnReported
<1>3. Timed(r)'
  BY <1>1, <1>2 DEF Timed
<1>4. PICK next : telling'[r] = next /\
        \/ next = "run_started" /\ StartReportedRun(r)
        \/ next \in {"final_report", "handoff", "approval_required"} /\ SettleReported(r)
        \/ next = "error" /\ FailReported(r)
        \/ next = "nothing" /\ ReturnReported(r)
  BY <1>1 DEF StartReportedRun, SettleReported, FailReported, ReturnReported, Then, RunsTyped
<1>5. ResultsFollow(r)'
  <2>1. telling[r] = "tool_result" => telling'[r] \in {"tool_result", "error"}
    <3>1. StartReportedRun(r) => telling[r] = "nothing"
      BY <1>1 DEF StartReportedRun, RowExists, RowAgrees
    <3>. QED
      BY <1>4, <3>1 DEF SettleReported, ReturnReported
  <2>2. telling[r] # "error"
    BY <1>1 DEF StartReportedRun, SettleReported, FailReported, ReturnReported, RowExists,
                RowAgrees
  <2>. QED
    BY <1>2, <2>1, <2>2, ResultsKept
<1>6. HandedLast(r)' <=> HandedLast(r)
  BY <1>2 DEF HandedLast
<1>7. RowAgrees(r)'
  <2>1. CASE StartReportedRun(r)
    <3>1. /\ runEvents[r] = <<>> /\ deciding[r] = "nothing" /\ telling'[r] = "run_started"
          /\ runRow'[r].status = "running" /\ runRow'[r].by = "runtime"
      BY <1>1, <1>4, <2>1, RowWritten
         DEF StartReportedRun, RowExists, RowAgrees, SettleReported, FailReported, ReturnReported
    <3>. QED
      BY <1>2, <3>1 DEF RowAgrees
  <2>2. CASE FailReported(r)
    <3>1. /\ runRow'[r].status = "failed" /\ runRow'[r].by = "runtime" /\ runRow'[r].error
          /\ telling'[r] = "error" /\ runRow[r].status # "none"
      BY <1>1, <2>2, RowWritten DEF FailReported, RowAgrees, Then, RunsTyped
    <3>2. \A n \in DOMAIN runEvents[r] : EventStands(r, n)'
      BY <1>1, <1>2, <3>1 DEF RowAgrees, EventStands
    <3>. QED
      BY <1>1, <1>2, <3>1, <3>2 DEF RowAgrees
  <2>3. CASE ReturnReported(r)
    <3>1. runRow' = runRow /\ telling[r] = "return" /\ telling'[r] = "nothing"
      BY <1>1, <2>3 DEF ReturnReported, Then, RunsTyped
    <3>2. \A n \in DOMAIN runEvents[r] : EventStands(r, n)'
      BY <1>1, <1>2, <3>1 DEF RowAgrees, EventStands
    <3>. QED
      BY <1>1, <1>2, <1>6, <3>1, <3>2 DEF RowAgrees
  <2>4. CASE SettleReported(r)
    <3>1. /\ telling[r] \in {"complete", "hand over", "pause"}
          /\ runRow'[r].by = "runtime" /\ (runRow[r].error => runRow'[r].error)
          /\ \/ runRow'[r].status = "completed" /\ telling'[r] = "final_report"
             \/ runRow'[r].status = "waiting_approval" /\ telling'[r] = "approval_required"
             \/ /\ runRow'[r].status = "handoff_required" /\ telling'[r] = "handoff"
                /\ runRow'[r].error
      BY <1>1, <2>4, RowWritten DEF SettleReported, Then, RunsTyped
    <3>2. ASSUME NEW n \in DOMAIN runEvents[r] PROVE EventStands(r, n)'
      <4>1. EventStands(r, n)
        BY <1>1 DEF RowAgrees
      <4>2. ~(runEvents[r][n].type = "handoff" /\ runEvents[r][n].claims # "nobody")
        BY <3>1, <4>1 DEF EventStands
      <4>. QED
        BY <1>2, <3>1, <4>1, <4>2 DEF EventStands
    <3>3. runRow[r].status # "none" /\ telling'[r] # "error"
      BY <1>1, <3>1 DEF RowAgrees
    <3>4. deciding'[r] = "over" => runRow'[r].error
      BY <1>1, <1>2, <3>1 DEF RowAgrees
    <3>. QED
      BY <1>2, <3>1, <3>2, <3>3, <3>4 DEF RowAgrees
  <2>. QED
    BY <2>1, <2>2, <2>3, <2>4
<1>. QED
  BY <1>3, <1>5, <1>7 DEF RunStands

LEMMA HandlerStands ==
  ASSUME RunsInv, NEW r \in ReportedRuns,
         DecideReported(r) \/ TellResume(r) \/ MarkReportedHandoff(r)
  PROVE  RunStands(r)'
<1>1. RunsTyped /\ Timed(r) /\ ResultsFollow(r) /\ RowAgrees(r)
  BY DEF RunsInv, RunStands
<1>2. runRow[r].status # "none" /\ telling' = telling
  BY <1>1 DEF DecideReported, TellResume, MarkReportedHandoff, RowExists, RowAgrees
<1>3. CASE DecideReported(r)
  <2>1. /\ Tell(r, "approval_decision", "nobody") /\ runRow' = runRow /\ deciding[r] = "nothing"
        /\ deciding'[r] \in {"resume", "decision"}
    BY <1>1, <1>3 DEF DecideReported, TellPlain, RunsTyped
  <2>. QED
    BY <1>2, <2>1, HandlerTellsStands DEF EventTypes, Claimants
<1>4. CASE TellResume(r)
  <2>1. /\ Tell(r, "approval_resume", "nobody") /\ runRow' = runRow /\ deciding[r] = "resume"
        /\ deciding'[r] = "resume"
    BY <1>1, <1>4 DEF TellResume, TellPlain, RunsTyped
  <2>. QED
    BY <1>2, <2>1, HandlerTellsStands DEF EventTypes, Claimants
<1>5. CASE MarkReportedHandoff(r) /\ deciding[r] = "decision"
  <2>1. Tell(r, "decision", "handler") /\ runRow' = runRow /\ deciding'[r] = "handoff"
    BY <1>1, <1>5 DEF MarkReportedHandoff, RunsTyped
  <2>. QED
    BY <1>2, <1>5, <2>1, HandlerTellsStands DEF EventTypes, Claimants
<1>6. CASE MarkReportedHandoff(r) /\ deciding[r] = "handoff"
  <2>1. Tell(r, "handoff", "nobody") /\ runRow' = runRow /\ deciding'[r] = "row"
    BY <1>1, <1>6 DEF MarkReportedHandoff, TellPlain, RunsTyped
  <2>. QED
    BY <1>2, <1>6, <2>1, HandlerTellsStands DEF EventTypes, Claimants
<1>7. CASE MarkReportedHandoff(r) /\ deciding[r] = "row"
  <2>1. /\ runRow'[r].status = "handoff_required" /\ runRow'[r].by = "handler"
        /\ runRow'[r].error /\ deciding'[r] = "over"
        /\ runEvents' = runEvents /\ ticks' = ticks
    BY <1>1, <1>7, RowWritten DEF MarkReportedHandoff, RunsTyped
  <2>2. \A n \in DOMAIN runEvents[r] : EventStands(r, n)'
    BY <1>1, <1>2, <2>1 DEF RowAgrees, EventStands
  <2>3. RowAgrees(r)'
    BY <1>1, <1>2, <2>1, <2>2 DEF RowAgrees
  <2>4. Timed(r)'
    BY <1>1, <2>1 DEF Timed
  <2>5. ResultsFollow(r)'
    BY <1>2, <2>1, ResultsKept
  <2>. QED
    BY <2>3, <2>4, <2>5 DEF RunStands
<1>. QED
  BY <1>3, <1>4, <1>5, <1>6, <1>7 DEF MarkReportedHandoff

LEMMA RunsInvKept ==
  ASSUME RunsInv, NEW r \in ReportedRuns, RunStep(r)
  PROVE  RunsInv'
<1>1. \/ StartReportedRun(r) \/ TellNext(r) \/ SettleReported(r) \/ FailReported(r)
      \/ ReturnReported(r) \/ DecideReported(r) \/ TellResume(r) \/ MarkReportedHandoff(r)
  BY DEF RunStep
<1>2. /\ RunsTyped' /\ ticks' >= ticks
      /\ \A q \in ReportedRuns \ {r} :
           /\ runRow'[q] = runRow[q] /\ runEvents'[q] = runEvents[q]
           /\ telling'[q] = telling[q] /\ deciding'[q] = deciding[q]
  BY <1>1, RunStepTyped DEF RunsInv
<1>3. RunStands(r)'
  BY <1>1, TellNextStands, RowStepStands, HandlerStands
<1>4. \A q \in ReportedRuns \ {r} : RunStands(q)'
  BY <1>2, OtherRunStands
<1>. QED
  BY <1>2, <1>3, <1>4 DEF RunsInv
----------------------------------------------------------------------------
(* Pages and summaries                                                     *)

ThenSeen == [row : RunRows, telling : Stages, deciding : HandlerStages]
RowReports == [kind : {"page", "summary"}, run : ReportedRuns, row : RunRows,
               events : Seq(RunEvents), ready : BOOLEAN, then : {"unknown"} \union ThenSeen]

(* A page or a summary: the row was the run's, and is still so unless it   *)
(* was written since.                                                      *)
RowSeen ==
  report.kind \in {"page", "summary"} =>
    /\ report \in RowReports
    /\ ~report.ready =>
         /\ report.row.writes <= runRow[report.run].writes
         /\ report.row.writes = runRow[report.run].writes => report.row = runRow[report.run]
    /\ PageIsTrue /\ SummaryIsTrue

LEMMA LatestIsHanded ==
  ASSUME RunsTyped, NEW r \in ReportedRuns, HandedLast(r), report'.events = runEvents[r]
  PROVE  LatestSaysHandoff'
<1>. DEFINE ev == runEvents[r]
<1>1. PICK n \in DOMAIN ev :
        /\ ev[n].type = "handoff" \/ (ev[n].type = "decision" /\ ev[n].claims # "nobody")
        /\ \A m \in DOMAIN ev : m > n => ev[m].type \notin SpeakingTypes
  BY DEF HandedLast
<1>2. \A m \in DOMAIN ev : m \in Nat
  BY DEF RunsTyped
<1>3. n \in LatestWord'
  BY <1>1, <1>2 DEF LatestWord, Events, SpeakingTypes
<1>. QED
  BY <1>1, <1>3 DEF LatestSaysHandoff

LEMMA ReadingIsTrue ==
  ASSUME RunsInv, NEW r \in ReportedRuns, report'.events = runEvents[r],
         report'.then = [row |-> runRow[r], telling |-> telling[r], deciding |-> deciding[r]],
         runRow[r].writes = report'.row.writes => report'.row = runRow[r]
  PROVE  PageIsTrue' /\ SummaryIsTrue'
<1>. DEFINE ev == runEvents[r]
            row == runRow[r]
<1>0. /\ RunsTyped /\ ResultsFollow(r) /\ RowAgrees(r) /\ \A n \in DOMAIN ev : EventStands(r, n)
      /\ row \in RunRows /\ row.by \in {"nobody", "runtime", "handler"}
  BY DEF RunsInv, RunStands, RowAgrees, RunsTyped, RunRows
<1>1. /\ report'.then.row = row /\ report'.then.telling = telling[r]
      /\ report'.then.deciding = deciding[r]
  OBVIOUS
<1>2. \A type : Events(type)' = Told(r, type)
  BY DEF Events, Told
<1>3. HandoffEvent' \subseteq Told(r, "handoff")
  BY <1>2 DEF HandoffEvent
<1>4. ~RowChanged' => report'.row = row
  BY <1>1 DEF RowChanged
<1>5. ASSUME ~RowChanged', HandoffRequired', row.status # "handoff_required"
      PROVE  row.status = "failed"
  <2>1. PICK n \in HandoffEvent' : ev[n].claims # "nobody"
    BY <1>4, <1>5 DEF HandoffRequired
  <2>2. n \in DOMAIN ev /\ ev[n].type = "handoff"
    BY <1>3 DEF Told
  <2>. QED
    BY <1>0, <1>5, <2>1, <2>2 DEF EventStands
<1>6. ASSUME ~RowChanged', HandoffEvent' # {}, ~HandoffRequired'
      PROVE  deciding[r] = "row" \/ (deciding[r] = "over" /\ row.by = "runtime")
  <2>1. PICK n \in HandoffEvent' : TRUE
    BY <1>6
  <2>2. n \in DOMAIN ev /\ ev[n].type = "handoff" /\ ev[n].claims = "nobody"
    BY <1>3, <1>6, <2>1 DEF Told, HandoffRequired
  <2>3. row.status # "handoff_required"
    BY <1>4, <1>6 DEF HandoffRequired
  <2>4. deciding[r] \in {"row", "over"}
    BY <1>0, <2>2 DEF EventStands
  <2>5. row.by # "nobody" /\ row.by # "handler"
    BY <1>0, <2>2, <2>3 DEF RowAgrees
  <2>. QED
    BY <1>0, <2>4, <2>5
<1>7. ASSUME ~RowChanged', row.status = "handoff_required", ~LatestSaysHandoff'
      PROVE  \/ telling[r] = "handoff" \/ deciding[r] = "resume"
             \/ deciding[r] = "over" /\ row.by = "handler"
  <2>1. ~HandedLast(r)
    BY <1>0, <1>7, LatestIsHanded
  <2>. QED
    BY <1>0, <1>7, <2>1 DEF RowAgrees
<1>8. ASSUME ~RowChanged', LatestSaysHandoff', row.status # "handoff_required",
             ~GraphHadLatestWord'
      PROVE  \/ row.status = "failed" \/ deciding[r] \in {"handoff", "row"}
             \/ deciding[r] = "over" /\ row.by = "runtime"
  <2>1. PICK n \in LatestWord' :
          ev[n].type = "handoff" \/ (ev[n].type = "decision" /\ ev[n].claims # "nobody")
    BY <1>8 DEF LatestSaysHandoff
  <2>2. n \in DOMAIN ev
    BY <2>1 DEF LatestWord, Events
  <2>3. ev[n].claims # "graph"
    BY <1>8, <2>1 DEF GraphHadLatestWord
  <2>4. row.status = "failed" \/ deciding[r] \in {"handoff", "row", "over"}
    BY <1>0, <1>8, <2>1, <2>2, <2>3 DEF EventStands
  <2>5. row.by # "nobody" /\ row.by # "handler"
    BY <1>0, <1>8, <2>2 DEF RowAgrees
  <2>. QED
    BY <1>0, <2>4, <2>5
<1>9. ASSUME Unanswered'
      PROVE  telling[r] \in {"tool_result", "error"} \/ Events("error")' # {}
  <2>. DEFINE calls == Cardinality(Told(r, "tool_call"))
              results == Cardinality(Told(r, "tool_result"))
  <2>1. calls > results
    BY <1>2, <1>9 DEF Unanswered
  <2>2. calls \in Nat /\ results \in Nat
    <3>1. ASSUME NEW t PROVE Cardinality(Told(r, t)) \in Nat
      <4>1. /\ ev \in Seq(RunEvents) /\ Told(r, t) \subseteq DOMAIN ev
            /\ Len(ev) \in Nat /\ DOMAIN ev = 1 .. Len(ev)
        BY <1>0 DEF RunsTyped, Told
      <4>2. Told(r, t) \in SUBSET Nat /\ \A k \in Told(r, t) : k <= Len(ev)
        BY <4>1
      <4>3. IsFiniteSet(Told(r, t))
        BY <4>1, <4>2, FS_BoundedSetOfNaturals
      <4>. QED
        BY <4>3, FS_CardinalityType
    <3>. QED
      BY <3>1
  <2>3. ~(calls <= results)
    <3>. HIDE DEF calls, results
    <3>. QED
      BY <2>1, <2>2
  <2>. QED
    BY <1>0, <1>2, <2>3 DEF ResultsFollow
<1>10. PageIsTrue'
  <2>1. (HandoffRequired' /\ report'.row.status # "handoff_required") =>
          RowChanged' \/ report'.row.status = "failed"
    BY <1>4, <1>5
  <2>2. (HandoffEvent' # {} /\ ~HandoffRequired') =>
          \/ RowChanged' \/ deciding[r] = "row"
          \/ deciding[r] = "over" /\ report'.row.by = "runtime"
    BY <1>4, <1>6
  <2>3. (report'.row.status = "handoff_required" /\ ~LatestSaysHandoff') =>
          \/ RowChanged' \/ telling[r] = "handoff" \/ deciding[r] = "resume"
          \/ deciding[r] = "over" /\ report'.row.by = "handler"
    BY <1>4, <1>7
  <2>4. (LatestSaysHandoff' /\ report'.row.status # "handoff_required") =>
          \/ RowChanged' \/ report'.row.status = "failed"
          \/ deciding[r] \in {"handoff", "row"}
          \/ deciding[r] = "over" /\ report'.row.by = "runtime"
          \/ GraphHadLatestWord'
    BY <1>4, <1>8
  <2>. QED
    BY <1>1, <1>9, <2>1, <2>2, <2>3, <2>4 DEF PageIsTrue
<1>11. SummaryIsTrue'
  <2>. SUFFICES ASSUME ConfirmSuggested', (Events("error") \union HandoffEvent)' # {},
                       ~RowChanged'
                PROVE  deciding[r] = "row"
    BY <1>1 DEF SummaryIsTrue
  <2>1. ~row.error
    BY <1>4 DEF ConfirmSuggested, FailureReasons
  <2>2. Told(r, "error") = {}
    BY <1>0, <2>1 DEF EventStands, Told
  <2>3. PICK n \in DOMAIN ev : ev[n].type = "handoff"
    BY <1>2, <1>3, <2>2 DEF Told
  <2>. QED
    BY <1>0, <2>1, <2>3 DEF EventStands, RowAgrees
<1>. QED
  BY <1>10, <1>11

LEMMA RowsGoOn ==
  ASSUME RunsTyped, NEW r \in ReportedRuns, RunStep(r), NEW q \in ReportedRuns
  PROVE  /\ runRow[q].writes \in Nat /\ runRow'[q].writes \in Nat
         /\ \/ runRow'[q] = runRow[q]
            \/ runRow'[q].writes = runRow[q].writes + 1 /\ runRow'[q].status # "none"
<1>1. runRow[q] \in RunRows
  BY DEF RunsTyped
<1>2. runRow[q].writes \in Nat
  BY <1>1 DEF RunRows
<1>. SUFFICES \/ runRow'[q] = runRow[q]
              \/ runRow'[q].writes = runRow[q].writes + 1 /\ runRow'[q].status # "none"
  BY <1>2
<1>3. ASSUME NEW by, NEW status, NEW error \in BOOLEAN, WriteRow(r, by, status, error),
             status # "none"
      PROVE  \/ runRow'[q] = runRow[q]
             \/ runRow'[q].writes = runRow[q].writes + 1 /\ runRow'[q].status # "none"
  <2>1. CASE q = r
    BY <1>3, <2>1, RowWritten
  <2>2. CASE q # r
    BY <1>3, <2>2 DEF WriteRow, RunsTyped
  <2>. QED
    BY <2>1, <2>2
<1>4. CASE StartReportedRun(r) \/ SettleReported(r) \/ FailReported(r)
  BY <1>3, <1>4 DEF StartReportedRun, SettleReported, FailReported
<1>5. CASE MarkReportedHandoff(r) /\ deciding[r] = "row"
  BY <1>3, <1>5 DEF MarkReportedHandoff
<1>6. CASE \/ TellNext(r) \/ ReturnReported(r) \/ DecideReported(r) \/ TellResume(r)
           \/ (MarkReportedHandoff(r) /\ deciding[r] # "row")
  BY <1>6 DEF TellNext, ReturnReported, DecideReported, TellResume, MarkReportedHandoff
<1>. QED
  BY <1>4, <1>5, <1>6 DEF RunStep

LEMMA RowSeenKept ==
  ASSUME RunsInv, RowSeen, ReportsNext
  PROVE  RowSeen'
<1>0. RunsTyped
  BY DEF RunsInv
<1>1. ASSUME report' = report
      PROVE  (PageIsTrue <=> PageIsTrue') /\ (SummaryIsTrue <=> SummaryIsTrue')
  BY <1>1 DEF PageIsTrue, SummaryIsTrue, HandoffRequired, HandoffEvent, RowChanged, LatestWord,
              LatestSaysHandoff, GraphHadLatestWord, Unanswered, Events, ConfirmSuggested,
              Evidence, FailureReasons
<1>2. ASSUME NEW r \in ReportedRuns, RunStep(r) PROVE RowSeen'
  <2>1. report' = report
    BY <1>2 DEF RunStep
  <2>2. SUFFICES ASSUME report.kind \in {"page", "summary"}, ~report.ready
                 PROVE  /\ report.row.writes <= runRow'[report.run].writes
                        /\ report.row.writes = runRow'[report.run].writes =>
                             report.row = runRow'[report.run]
    BY <1>1, <2>1 DEF RowSeen
  <2>3. /\ report.run \in ReportedRuns /\ report.row.writes \in Nat
        /\ report.row.writes <= runRow[report.run].writes
        /\ report.row.writes = runRow[report.run].writes => report.row = runRow[report.run]
    <3>1. report \in RowReports
      BY <2>2 DEF RowSeen
    <3>2. report.run \in ReportedRuns /\ report.row \in RunRows
      BY <3>1 DEF RowReports
    <3>3. report.row.writes \in Nat
      BY <3>2 DEF RunRows
    <3>. QED
      BY <2>2, <3>2, <3>3 DEF RowSeen
  <2>. QED
    BY <1>0, <1>2, <2>3, RowsGoOn
<1>3. CASE IncidentRequest
  <2>1. CASE \E r \in ReportedRuns : AddLink(r)
    BY <1>1, <2>1 DEF AddLink, reportedVars, RowSeen
  <2>2. CASE BeginTimeline
    BY <2>2 DEF BeginTimeline, RowSeen
  <2>3. CASE ReadLinked
    <3>1. report'.kind = report.kind
      BY <2>3 DEF ReadLinked
    <3>. QED
      BY <2>3, <3>1 DEF ReadLinked, RowSeen
  <2>. QED
    BY <1>3, <2>1, <2>2, <2>3 DEF IncidentRequest
<1>4. ASSUME NEW r \in ReportedRuns, NEW which \in {"page", "summary"}, ReadRunRow(which, r)
      PROVE  RowSeen'
  <2>1. /\ report' = [kind |-> which, run |-> r, row |-> runRow[r], events |-> <<>>,
                      ready |-> FALSE, then |-> "unknown"]
        /\ runRow' = runRow
    BY <1>4 DEF ReadRunRow, reportedVars
  <2>2. runRow[r] \in RunRows /\ <<>> \in Seq(RunEvents)
    BY <1>0 DEF RunsTyped
  <2>3. report' \in RowReports
    <3>. HIDE DEF RunRows
    <3>. QED
      BY <2>1, <2>2 DEF RowReports
  <2>4. runRow[r].writes \in Nat
    BY <2>2 DEF RunRows
  <2>5. report'.ready = FALSE
    BY <2>1
  <2>6. PageIsTrue' /\ SummaryIsTrue'
    BY <2>5 DEF PageIsTrue, SummaryIsTrue
  <2>. QED
    BY <2>1, <2>3, <2>4, <2>6 DEF RowSeen
<1>5. CASE ReadEvents
  <2>. DEFINE r == report.run
              thus == [row |-> runRow[r], telling |-> telling[r], deciding |-> deciding[r]]
  <2>1. /\ report \in RowReports /\ ~report.ready
        /\ report.row.writes = runRow[r].writes => report.row = runRow[r]
    BY <1>5 DEF ReadEvents, RowSeen
  <2>2. /\ report' = [report EXCEPT !.events = runEvents[r], !.ready = TRUE, !.then = thus]
        /\ r \in ReportedRuns
    BY <1>5, <2>1 DEF ReadEvents, RowReports
  <2>3. thus \in ThenSeen /\ runEvents[r] \in Seq(RunEvents)
    BY <1>0, <2>2 DEF RunsTyped, ThenSeen
  <2>. HIDE DEF thus
  <2>4. /\ report' \in RowReports /\ report'.run = r /\ report'.row = report.row
        /\ report'.events = runEvents[r] /\ report'.then = thus /\ report'.ready
    <3>. HIDE DEF RunRows, RunEvents, ThenSeen
    <3>. QED
      BY <2>1, <2>2, <2>3 DEF RowReports
  <2>5. PageIsTrue' /\ SummaryIsTrue'
    <3>1. PICK q \in ReportedRuns : q = r
      BY <2>2
    <3>2. /\ report'.events = runEvents[q]
          /\ report'.then = [row |-> runRow[q], telling |-> telling[q], deciding |-> deciding[q]]
          /\ runRow[q].writes = report'.row.writes => report'.row = runRow[q]
      BY <2>1, <2>4, <3>1 DEF thus
    <3>. QED
      BY <3>2, ReadingIsTrue
  <2>. QED
    BY <2>4, <2>5 DEF RowSeen
<1>. QED
  BY <1>2, <1>3, <1>4, <1>5 DEF ReportsNext, RunReportRequest
----------------------------------------------------------------------------
(* Timelines                                                               *)

TimelineReports == [kind : {"timeline"}, linked : Seq(ReportedRuns), left : Seq(ReportedRuns),
                    read : Seq([run : ReportedRuns, upTo : Nat]), before : [ReportedRuns -> Nat]]

Reads(r) == {k \in DOMAIN report.read : report.read[k].run = r}
LinkedUpto(r, p) == {k \in 1 .. p : report.linked[k] = r}
Visited == Len(report.linked) - Len(report.left)

(* A timeline has read every linked run that it passed and that had a row  *)
(* by then, as often as the run is linked.                                 *)
TimelineRead ==
  report.kind = "timeline" =>
    /\ report \in TimelineReports
    /\ Visited \in Nat
    /\ \A k \in 1 .. Len(report.left) : report.left[k] = report.linked[Visited + k]
    /\ \A k \in DOMAIN report.read :
         /\ report.before[report.read[k].run] <= report.read[k].upTo
         /\ report.read[k].upTo <= Len(runEvents[report.read[k].run])
    /\ \A r \in ReportedRuns :
         /\ report.before[r] <= Len(runEvents[r])
         /\ report.before[r] > 0 => RowExists(r)
         /\ Cardinality(Reads(r)) <= Cardinality(LinkedUpto(r, Visited))
         /\ report.before[r] > 0 => Cardinality(Reads(r)) = Cardinality(LinkedUpto(r, Visited))

LEMMA PositionsFinite ==
  ASSUME NEW n \in Nat, NEW S \in SUBSET (1 .. n)
  PROVE  IsFiniteSet(S) /\ Cardinality(S) \in Nat
<1>1. S \in SUBSET Nat /\ \A k \in S : k <= n
  OBVIOUS
<1>2. IsFiniteSet(S)
  BY <1>1, FS_BoundedSetOfNaturals
<1>. QED
  BY <1>2, FS_CardinalityType

(* One position more.                                                      *)
LEMMA PositionAdded ==
  ASSUME NEW n \in Nat, NEW S \in SUBSET (1 .. n)
  PROVE  Cardinality(S \union {n + 1}) = Cardinality(S) + 1
<1>1. n + 1 \notin S
  OBVIOUS
<1>2. IsFiniteSet(S)
  BY PositionsFinite
<1>. QED
  BY <1>1, <1>2, FS_AddElement

LEMMA EventsGoOn ==
  ASSUME RunsTyped, NEW r \in ReportedRuns, RunStep(r), NEW q \in ReportedRuns
  PROVE  Len(runEvents[q]) <= Len(runEvents'[q])
<1>1. \/ runEvents' = runEvents
      \/ \E type \in EventTypes, claims \in Claimants : Tell(r, type, claims)
  <2>1. CASE TellNext(r)
    BY <2>1, FollowingIs DEF TellNext
  <2>2. CASE DecideReported(r) \/ TellResume(r)
    BY <2>2 DEF DecideReported, TellResume, TellPlain, EventTypes, Claimants
  <2>3. CASE MarkReportedHandoff(r)
    BY <2>3 DEF MarkReportedHandoff, TellPlain, EventTypes, Claimants
  <2>4. CASE StartReportedRun(r) \/ SettleReported(r) \/ FailReported(r) \/ ReturnReported(r)
    BY <2>4 DEF StartReportedRun, SettleReported, FailReported, ReturnReported
  <2>. QED
    BY <2>1, <2>2, <2>3, <2>4 DEF RunStep
<1>2. CASE runEvents' = runEvents
  BY <1>2 DEF RunsTyped
<1>3. ASSUME NEW type \in EventTypes, NEW claims \in Claimants, Tell(r, type, claims)
      PROVE  Len(runEvents[q]) <= Len(runEvents'[q])
  <2>1. /\ runEvents' \in [ReportedRuns -> Seq(RunEvents)]
        /\ DOMAIN runEvents'[r] = 1 .. Len(runEvents[r]) + 1
        /\ q # r => runEvents'[q] = runEvents[q]
        /\ Len(runEvents[q]) \in Nat /\ Len(runEvents[r]) \in Nat
    BY <1>3, EventTold DEF RunsTyped
  <2>2. Len(runEvents'[r]) = Len(runEvents[r]) + 1
    BY <2>1
  <2>. QED
    BY <2>1, <2>2
<1>. QED
  BY <1>1, <1>2, <1>3

LEMMA LinkedRead ==
  ASSUME RunsTyped, TimelineRead, ReadLinked
  PROVE  TimelineRead'
<1>. DEFINE r == Head(report.left)
            row == RowExists(r)
            one == [run |-> r, upTo |-> Len(runEvents[r])]
            read == report.read
            n == Len(read)
<1>1. /\ report \in TimelineReports /\ report.left # <<>>
      /\ report' = [report EXCEPT !.left = Tail(@), !.read = IF row THEN Append(@, one) ELSE @]
      /\ runEvents' = runEvents /\ runRow' = runRow
  BY DEF ReadLinked, TimelineRead, reportedVars
<1>2. /\ report.left \in Seq(ReportedRuns) /\ report.linked \in Seq(ReportedRuns)
      /\ read \in Seq([run : ReportedRuns, upTo : Nat])
      /\ report.before \in [ReportedRuns -> Nat]
  BY <1>1 DEF TimelineReports
<1>3. /\ r \in ReportedRuns /\ Tail(report.left) \in Seq(ReportedRuns)
      /\ Len(report.left) \in Nat \ {0} /\ Len(Tail(report.left)) = Len(report.left) - 1
      /\ \A k \in 1 .. Len(report.left) - 1 : Tail(report.left)[k] = report.left[k + 1]
      /\ r = report.left[1] /\ Len(report.linked) \in Nat /\ n \in Nat /\ DOMAIN read = 1 .. n
  BY <1>1, <1>2
<1>4. one \in [run : ReportedRuns, upTo : Nat] /\ one.run = r /\ one.upTo = Len(runEvents[r])
  BY <1>3 DEF RunsTyped
<1>. HIDE DEF one, row
<1>5. PICK more : more = IF row THEN Append(read, one) ELSE read
  OBVIOUS
<1>6. /\ more \in Seq([run : ReportedRuns, upTo : Nat])
      /\ \A k \in 1 .. n : more[k] = read[k]
      /\ row => DOMAIN more = 1 .. n + 1 /\ more[n + 1] = one
      /\ ~row => more = read
  <2>. HIDE DEF read, n
  <2>1. CASE row
    <3>1. more = Append(read, one)
      BY <1>5, <2>1
    <3>2. n = Len(read)
      BY DEF n
    <3>. QED
      BY <1>2, <1>3, <1>4, <2>1, <3>1, <3>2
  <2>2. CASE ~row
    BY <1>2, <1>3, <1>5, <2>2
  <2>. QED
    BY <2>1, <2>2
<1>7. /\ report' \in TimelineReports /\ report'.kind = "timeline"
      /\ report'.linked = report.linked /\ report'.before = report.before
      /\ report'.left = Tail(report.left) /\ report'.read = more
  <2>1. report' = [report EXCEPT !.left = Tail(report.left), !.read = more]
    BY <1>1, <1>5
  <2>. QED
    BY <1>1, <1>2, <1>3, <1>6, <2>1 DEF TimelineReports
<1>8. PICK p \in Nat : Visited = p /\ Visited' = p + 1
  <2>1. PICK a, b \in Nat : a = Len(report.linked) /\ b = Len(report.left)
    BY <1>3
  <2>2. Visited \in Nat /\ Visited = a - b
    BY <1>1, <2>1 DEF Visited, TimelineRead, TimelineReports
  <2>3. Visited' = a - (b - 1)
    BY <1>3, <1>7, <2>1 DEF Visited
  <2>4. Visited' = Visited + 1
    <3>. HIDE DEF Visited
    <3>1. PICK c : c = Visited'
      OBVIOUS
    <3>. QED
      BY <2>2, <2>3, <3>1
  <2>. QED
    BY <2>2, <2>4
<1>9. \A k \in 1 .. Len(report.left) : report.left[k] = report.linked[p + k]
  BY <1>1, <1>8 DEF TimelineRead, TimelineReports
<1>10. r = report.linked[p + 1]
  BY <1>3, <1>9
<1>11. \A k \in 1 .. Len(report'.left) : report'.left[k] = report'.linked[p + 1 + k]
  <2>. SUFFICES ASSUME NEW k \in 1 .. Len(report.left) - 1
                PROVE  Tail(report.left)[k] = report.linked[p + 1 + k]
    BY <1>3, <1>7
  <2>1. k + 1 \in 1 .. Len(report.left) /\ p + (k + 1) = p + 1 + k
    BY <1>3
  <2>. QED
    BY <1>3, <1>9, <2>1
<1>12. \A q \in ReportedRuns :
         /\ LinkedUpto(q, p + 1)' =
              IF q = r THEN LinkedUpto(q, p) \union {p + 1} ELSE LinkedUpto(q, p)
         /\ Reads(q)' = IF row /\ q = r THEN Reads(q) \union {n + 1} ELSE Reads(q)
         /\ LinkedUpto(q, p) \in SUBSET (1 .. p) /\ Reads(q) \in SUBSET (1 .. n)
  <2>1. ASSUME NEW q \in ReportedRuns
        PROVE  LinkedUpto(q, p + 1)' =
                 IF q = r THEN LinkedUpto(q, p) \union {p + 1} ELSE LinkedUpto(q, p)
    <3>1. \A k : k \in 1 .. p + 1 <=> k \in 1 .. p \/ k = p + 1
      OBVIOUS
    <3>. HIDE DEF r
    <3>. QED
      BY <1>7, <1>10, <3>1 DEF LinkedUpto
  <2>2. ASSUME NEW q \in ReportedRuns
        PROVE  Reads(q)' = IF row /\ q = r THEN Reads(q) \union {n + 1} ELSE Reads(q)
    <3>1. \A k : k \in 1 .. n + 1 <=> k \in 1 .. n \/ k = n + 1
      BY <1>3
    <3>2. CASE row
      <4>. HIDE DEF n, r
      <4>. QED
        BY <1>3, <1>4, <1>6, <1>7, <3>1, <3>2 DEF Reads
    <3>3. CASE ~row
      BY <1>6, <1>7, <3>3 DEF Reads
    <3>. QED
      BY <3>2, <3>3
  <2>3. ASSUME NEW q \in ReportedRuns
        PROVE  LinkedUpto(q, p) \in SUBSET (1 .. p) /\ Reads(q) \in SUBSET (1 .. n)
    BY <1>3 DEF LinkedUpto, Reads
  <2>. QED
    BY <2>1, <2>2, <2>3
<1>13. \A q \in ReportedRuns :
         /\ Cardinality(LinkedUpto(q, p)) \in Nat /\ Cardinality(Reads(q)) \in Nat
         /\ Cardinality(LinkedUpto(q, p + 1)') =
              IF q = r THEN Cardinality(LinkedUpto(q, p)) + 1 ELSE Cardinality(LinkedUpto(q, p))
         /\ Cardinality(Reads(q)') =
              IF row /\ q = r THEN Cardinality(Reads(q)) + 1 ELSE Cardinality(Reads(q))
  <2>. SUFFICES ASSUME NEW q \in ReportedRuns
       PROVE /\ Cardinality(LinkedUpto(q, p)) \in Nat /\ Cardinality(Reads(q)) \in Nat
             /\ Cardinality(LinkedUpto(q, p + 1)') =
                  IF q = r THEN Cardinality(LinkedUpto(q, p)) + 1
                  ELSE Cardinality(LinkedUpto(q, p))
             /\ Cardinality(Reads(q)') =
                  IF row /\ q = r THEN Cardinality(Reads(q)) + 1 ELSE Cardinality(Reads(q))
    OBVIOUS
  <2>1. /\ LinkedUpto(q, p) \in SUBSET (1 .. p) /\ Reads(q) \in SUBSET (1 .. n) /\ n \in Nat
    BY <1>3, <1>12
  <2>. HIDE DEF n, r
  <2>2. /\ Cardinality(LinkedUpto(q, p) \union {p + 1}) = Cardinality(LinkedUpto(q, p)) + 1
        /\ Cardinality(LinkedUpto(q, p)) \in Nat
    BY <2>1, PositionsFinite, PositionAdded
  <2>3. /\ Cardinality(Reads(q) \union {n + 1}) = Cardinality(Reads(q)) + 1
        /\ Cardinality(Reads(q)) \in Nat
    BY <2>1, PositionsFinite, PositionAdded
  <2>. QED
    BY <1>12, <2>2, <2>3
<1>14. ASSUME NEW q \in ReportedRuns
       PROVE  /\ report'.before[q] <= Len(runEvents'[q])
              /\ report'.before[q] > 0 => RowExists(q)'
              /\ Cardinality(Reads(q)') <= Cardinality(LinkedUpto(q, p + 1)')
              /\ report'.before[q] > 0 =>
                   Cardinality(Reads(q)') = Cardinality(LinkedUpto(q, p + 1)')
  <2>1. /\ report.before[q] <= Len(runEvents[q])
        /\ report.before[q] > 0 => RowExists(q)
        /\ Cardinality(Reads(q)) <= Cardinality(LinkedUpto(q, p))
        /\ report.before[q] > 0 => Cardinality(Reads(q)) = Cardinality(LinkedUpto(q, p))
    BY <1>1, <1>8 DEF TimelineRead, TimelineReports
  <2>2. row <=> RowExists(r)
    BY DEF row
  <2>3. report'.before[q] = report.before[q] /\ (RowExists(q)' <=> RowExists(q))
    BY <1>1, <1>7 DEF RowExists
  <2>. HIDE DEF r
  <2>. QED
    BY <1>1, <1>13, <2>1, <2>2, <2>3
<1>15. ASSUME NEW k \in DOMAIN report'.read
       PROVE  /\ report'.before[report'.read[k].run] <= report'.read[k].upTo
              /\ report'.read[k].upTo <= Len(runEvents'[report'.read[k].run])
  <2>1. report.before[r] <= Len(runEvents[r]) /\ Len(runEvents[r]) \in Nat
    BY <1>1, <1>3, <1>4 DEF TimelineRead, TimelineReports, RunsTyped
  <2>2. CASE k \in 1 .. n
    <3>1. report'.read[k] = report.read[k] /\ k \in DOMAIN report.read
      BY <1>3, <1>6, <1>7, <2>2
    <3>. QED
      BY <1>1, <1>7, <3>1 DEF TimelineRead, TimelineReports
  <2>3. CASE k \notin 1 .. n
    <3>1. row /\ k = n + 1
      BY <1>3, <1>6, <1>7, <2>3
    <3>. QED
      BY <1>1, <1>4, <1>6, <1>7, <2>1, <3>1
  <2>. QED
    BY <2>2, <2>3
<1>16. Visited' \in Nat /\ Visited' = p + 1
  BY <1>8
<1>17. \A q \in ReportedRuns : LinkedUpto(q, Visited)' = LinkedUpto(q, p + 1)'
  BY <1>16
<1>. QED
  BY <1>7, <1>11, <1>14, <1>15, <1>16, <1>17 DEF TimelineRead

LinksTyped == links \in Seq(ReportedRuns)

LEMMA TimelineReadKept ==
  ASSUME RunsInv, LinksTyped, RowSeen, TimelineRead, ReportsNext
  PROVE  TimelineRead'
<1>0. RunsTyped
  BY DEF RunsInv
<1>1. ASSUME NEW r \in ReportedRuns, RunStep(r) PROVE TimelineRead'
  <2>1. report' = report
    BY <1>1 DEF RunStep
  <2>. SUFFICES ASSUME report.kind = "timeline" PROVE TimelineRead'
    BY <2>1 DEF TimelineRead
  <2>2. report \in TimelineReports
    BY DEF TimelineRead
  <2>3. Visited' = Visited /\ \A q, p : /\ Reads(q)' = Reads(q)
                                      /\ LinkedUpto(q, p)' = LinkedUpto(q, p)
    BY <2>1 DEF Visited, Reads, LinkedUpto
  <2>4. ASSUME NEW q \in ReportedRuns
        PROVE  /\ Len(runEvents[q]) <= Len(runEvents'[q])
               /\ Len(runEvents[q]) \in Nat /\ Len(runEvents'[q]) \in Nat
               /\ RowExists(q) => RowExists(q)'
    <3>1. Len(runEvents[q]) <= Len(runEvents'[q])
      BY <1>0, <1>1, EventsGoOn
    <3>2. RunsTyped'
      BY <1>1, RunsInvKept DEF RunsInv, ReportsNext
    <3>3. RowExists(q) => RowExists(q)'
      BY <1>0, <1>1, RowsGoOn DEF RowExists
    <3>. QED
      BY <1>0, <3>1, <3>2, <3>3 DEF RunsTyped
  <2>5. ASSUME NEW k \in DOMAIN report.read
        PROVE  /\ report.before[report.read[k].run] <= report.read[k].upTo
               /\ report.read[k].upTo <= Len(runEvents'[report.read[k].run])
    <3>1. report.read \in Seq([run : ReportedRuns, upTo : Nat])
      BY <2>2 DEF TimelineReports
    <3>. DEFINE T == [run : ReportedRuns, upTo : Nat]
                read == report.read
    <3>3. report.read[k] \in [run : ReportedRuns, upTo : Nat]
      <4>1. read \in Seq(T) /\ k \in DOMAIN read
        BY <3>1
      <4>. HIDE DEF T, read
      <4>2. read[k] \in T
        BY <4>1
      <4>. QED
        BY <4>2 DEF T, read
    <3>2. report.read[k].run \in ReportedRuns /\ report.read[k].upTo \in Nat
      BY <3>3
    <3>. QED
      BY <2>4, <3>2 DEF TimelineRead
  <2>6. ASSUME NEW q \in ReportedRuns PROVE report.before[q] <= Len(runEvents'[q])
    <3>1. report.before[q] \in Nat
      BY <2>2 DEF TimelineReports
    <3>. QED
      BY <2>4, <3>1 DEF TimelineRead
  <2>7. \A q \in ReportedRuns : LinkedUpto(q, Visited)' = LinkedUpto(q, Visited)
    BY <2>1, <2>3 DEF LinkedUpto
  <2>. QED
    BY <2>1, <2>2, <2>3, <2>4, <2>5, <2>6, <2>7 DEF TimelineRead
<1>2. ASSUME NEW r \in ReportedRuns, AddLink(r) PROVE TimelineRead'
  <2>1. report' = report /\ runEvents' = runEvents /\ runRow' = runRow
    BY <1>2 DEF AddLink, reportedVars
  <2>2. Visited' = Visited /\ \A q \in ReportedRuns :
          Reads(q)' = Reads(q) /\ LinkedUpto(q, Visited)' = LinkedUpto(q, Visited)
    BY <2>1 DEF Visited, Reads, LinkedUpto
  <2>. QED
    BY <2>1, <2>2 DEF TimelineRead, RowExists
<1>3. CASE BeginTimeline
  <2>. DEFINE before == [r \in ReportedRuns |-> Len(runEvents[r])]
  <2>1. /\ report' = [kind |-> "timeline", linked |-> links, left |-> links, read |-> <<>>,
                      before |-> before]
        /\ runEvents' = runEvents /\ runRow' = runRow
    BY <1>3 DEF BeginTimeline, reportedVars
  <2>2. /\ before \in [ReportedRuns -> Nat] /\ Len(links) \in Nat
        /\ \A r \in ReportedRuns : Len(runEvents[r]) \in Nat
    BY <1>0 DEF RunsTyped, LinksTyped
  <2>3. report' \in TimelineReports
    BY <2>1, <2>2 DEF TimelineReports, LinksTyped
  <2>4. Visited' = 0
    BY <2>1, <2>2 DEF Visited
  <2>5. ASSUME NEW r \in ReportedRuns PROVE Reads(r)' = {} /\ LinkedUpto(r, Visited)' = {}
    BY <2>1, <2>4 DEF Reads, LinkedUpto
  <2>6. ASSUME NEW r \in ReportedRuns, Len(runEvents[r]) > 0 PROVE RowExists(r)
    BY <2>6 DEF RunsInv, RunStands, RowAgrees, RowExists
  <2>7. Cardinality({}) = 0
    BY FS_EmptySet
  <2>8. \A k \in 1 .. Len(links) : 0 + k = k
    BY <2>2
  <2>9. /\ report'.linked = links /\ report'.left = links /\ report'.read = <<>>
        /\ report'.before = before /\ \A r \in ReportedRuns : before[r] = Len(runEvents[r])
    BY <2>1
  <2>10. \A k \in 1 .. Len(report'.left) : report'.left[k] = report'.linked[Visited' + k]
    BY <2>4, <2>8, <2>9
  <2>11. \A k : k \notin DOMAIN report'.read
    BY <2>9
  <2>. HIDE DEF before, Reads, LinkedUpto, Visited
  <2>12. ASSUME NEW r \in ReportedRuns
         PROVE  /\ report'.before[r] <= Len(runEvents'[r])
                /\ report'.before[r] > 0 => RowExists(r)'
                /\ Cardinality(Reads(r))' = 0 /\ Cardinality(LinkedUpto(r, Visited))' = 0
    <3>1. report'.before[r] = Len(runEvents'[r]) /\ Len(runEvents'[r]) \in Nat
      BY <2>1, <2>2, <2>9
    <3>2. Len(runEvents[r]) > 0 => RowExists(r)'
      BY <2>1, <2>6 DEF RowExists
    <3>3. Cardinality(Reads(r))' = 0 /\ Cardinality(LinkedUpto(r, Visited))' = 0
      <4>1. Reads(r)' = {} /\ LinkedUpto(r, Visited)' = {}
        BY <2>5
      <4>. QED
        BY <4>1, <2>7
    <3>. QED
      BY <2>1, <3>1, <3>2, <3>3
  <2>. QED
    BY <2>3, <2>4, <2>10, <2>11, <2>12 DEF TimelineRead
<1>4. CASE ReadLinked
  BY <1>0, <1>4, LinkedRead
<1>5. CASE RunReportRequest
  <2>1. ASSUME NEW r \in ReportedRuns, NEW which \in {"page", "summary"}, ReadRunRow(which, r)
        PROVE  report'.kind # "timeline"
    BY <2>1 DEF ReadRunRow
  <2>2. ASSUME ReadEvents PROVE report'.kind # "timeline"
    <3>1. report.kind \in {"page", "summary"} /\ report \in RowReports
      BY <2>2 DEF ReadEvents, RowSeen
    <3>2. PICK events, then : report' =
            [report EXCEPT !.events = events, !.ready = TRUE, !.then = then]
      BY <2>2 DEF ReadEvents
    <3>3. report'.kind = report.kind
      BY <3>1, <3>2 DEF RowReports
    <3>. QED
      BY <3>1, <3>3
  <2>. QED
    BY <1>5, <2>1, <2>2 DEF RunReportRequest, TimelineRead
<1>. QED
  BY <1>1, <1>2, <1>3, <1>4, <1>5 DEF ReportsNext, IncidentRequest
----------------------------------------------------------------------------
(* What a timeline shows                                                   *)

Shows(e) == /\ e[1] \in DOMAIN report.read /\ e[2] \in 1 .. report.read[e[1]].upTo
            /\ e = <<e[1], e[2]>>

(* What a timeline has read, once it has read every linked run.            *)
WhollyRead ==
  /\ report.read \in Seq([run : ReportedRuns, upTo : Nat])
  /\ report.before \in [ReportedRuns -> Nat]
  /\ \A k \in DOMAIN report.read :
       LET r == report.read[k].run IN
       r \in ReportedRuns /\ report.before[r] <= report.read[k].upTo
         /\ report.read[k].upTo \in Nat /\ report.read[k].upTo <= Len(runEvents[r])
  /\ \A r \in ReportedRuns :
       LET linked == Cardinality({k \in DOMAIN report.linked : report.linked[k] = r}) IN
       /\ Cardinality(Reads(r)) <= linked
       /\ report.before[r] > 0 => Cardinality(Reads(r)) = linked

LEMMA WhollyReadHolds ==
  ASSUME RunsInv, TimelineRead, report.kind = "timeline", report.left = <<>>
  PROVE  WhollyRead
<1>1. report \in TimelineReports
  BY DEF TimelineRead
<1>2. /\ report.read \in Seq([run : ReportedRuns, upTo : Nat])
      /\ report.before \in [ReportedRuns -> Nat] /\ report.linked \in Seq(ReportedRuns)
  BY <1>1 DEF TimelineReports
<1>3. ASSUME NEW k \in DOMAIN report.read
      PROVE  report.read[k].run \in ReportedRuns /\ report.read[k].upTo \in Nat
  <2>. DEFINE T == [run : ReportedRuns, upTo : Nat]
              read == report.read
  <2>1. read \in Seq(T) /\ k \in DOMAIN read
    BY <1>2
  <2>2. read[k] \in T
    <3>. HIDE DEF T, read
    <3>. QED
      BY <2>1
  <2>. QED
    BY <2>2
<1>4. Visited = Len(report.linked) /\ DOMAIN report.linked = 1 .. Len(report.linked)
  <2>1. PICK a \in Nat : a = Len(report.linked) /\ DOMAIN report.linked = 1 .. a
    BY <1>2
  <2>2. Len(report.left) = 0
    OBVIOUS
  <2>3. Visited = a - 0
    BY <2>1, <2>2 DEF Visited
  <2>. QED
    BY <2>1, <2>3
<1>5. \A r \in ReportedRuns :
        LinkedUpto(r, Visited) = {k \in DOMAIN report.linked : report.linked[k] = r}
  BY <1>4 DEF LinkedUpto
<1>. QED
  BY <1>2, <1>3, <1>5 DEF TimelineRead, WhollyRead

(* Every event that was read is listed once for each read, by time.        *)
LEMMA EntriesAre ==
  ASSUME RunsInv, WhollyRead
  PROVE  /\ IsFiniteSet(Entries)
         /\ \A e : e \in Entries <=> Shows(e)
         /\ \A e \in Entries :
              /\ e[1] \in Nat /\ e[2] \in Nat /\ e = <<e[1], e[2]>> /\ ToldAt(e) \in Nat
              /\ RunShown(e) \in ReportedRuns /\ e[2] \in DOMAIN runEvents[RunShown(e)]
<1>. DEFINE read == report.read
            Part(k) == {k} \X (1 .. read[k].upTo)
            parts == {Part(k) : k \in DOMAIN read}
            f == [k \in DOMAIN read |-> Part(k)]
<1>1. /\ \A k \in DOMAIN read : read[k].upTo \in Nat
      /\ Len(read) \in Nat /\ DOMAIN read = 1 .. Len(read)
  BY DEF WhollyRead
<1>2. \A e : e \in Entries <=> Shows(e)
  <2>1. \A e : e \in Entries <=> \E k \in DOMAIN read : e \in Part(k)
    BY DEF Entries
  <2>2. \A e, k : e \in Part(k) <=> e[1] = k /\ e[2] \in 1 .. read[k].upTo /\ e = <<e[1], e[2]>>
    OBVIOUS
  <2>. HIDE DEF Part
  <2>. QED
    BY <2>1, <2>2 DEF Shows
<1>3. IsFiniteSet(DOMAIN read)
  BY <1>1, PositionsFinite
<1>4. \A k \in DOMAIN read : IsFiniteSet(Part(k))
  <2>1. ASSUME NEW k \in DOMAIN read PROVE IsFiniteSet(Part(k))
    <3>1. IsFiniteSet({k})
      BY FS_Singleton
    <3>2. IsFiniteSet(1 .. read[k].upTo)
      BY <1>1, PositionsFinite
    <3>. QED
      BY <3>1, <3>2, FS_Product
  <2>. QED
    BY <2>1
<1>5. Entries = UNION parts
  BY DEF Entries
<1>. HIDE DEF Part
<1>6. f \in Surjection(DOMAIN read, parts)
  BY DEF Surjection
<1>7. IsFiniteSet(parts)
  <2>. HIDE DEF f, parts
  <2>. QED
    BY <1>3, <1>6, FS_Surjection
<1>8. IsFiniteSet(Entries)
  <2>1. \A part \in parts : IsFiniteSet(part)
    BY <1>4
  <2>. HIDE DEF parts
  <2>. QED
    BY <1>5, <1>7, <2>1, FS_UNION
<1>9. ASSUME NEW e \in Entries
      PROVE  /\ e[1] \in Nat /\ e[2] \in Nat /\ e = <<e[1], e[2]>> /\ ToldAt(e) \in Nat
             /\ RunShown(e) \in ReportedRuns /\ e[2] \in DOMAIN runEvents[RunShown(e)]
  <2>. DEFINE r == read[e[1]].run
              ev == runEvents[r]
  <2>1. e[1] \in DOMAIN read /\ e[2] \in 1 .. read[e[1]].upTo /\ e = <<e[1], e[2]>>
    BY <1>2 DEF Shows
  <2>2. r \in ReportedRuns /\ read[e[1]].upTo \in Nat /\ read[e[1]].upTo <= Len(ev)
    BY <2>1 DEF WhollyRead
  <2>3. ev \in Seq(RunEvents)
    BY <2>2 DEF RunsInv, RunsTyped
  <2>4. Len(ev) \in Nat /\ DOMAIN ev = 1 .. Len(ev)
    BY <2>3
  <2>5. e[2] \in DOMAIN ev /\ e[1] \in Nat /\ e[2] \in Nat
    BY <1>1, <2>1, <2>2, <2>4
  <2>6. ev[e[2]] \in RunEvents
    <3>. HIDE DEF ev
    <3>. QED
      BY <2>3, <2>5
  <2>7. ev[e[2]].at \in Nat
    BY <2>6 DEF RunEvents
  <2>. QED
    BY <2>1, <2>2, <2>5, <2>7 DEF ToldAt, RunShown
<1>. QED
  BY <1>2, <1>8, <1>9

LEMMA TimelineLists ==
  ASSUME RunsInv, WhollyRead
  PROVE  /\ Cardinality(Entries) \in Nat
         /\ Timeline \in [1 .. Cardinality(Entries) -> Entries]
         /\ \A e \in Entries : \E k \in DOMAIN Timeline : Timeline[k] = e
         /\ \A i, j \in DOMAIN Timeline : /\ i < j => Earlier(Timeline[i], Timeline[j])
                                          /\ Timeline[i] = Timeline[j] => i = j
<1>. DEFINE S == Entries
            R == {p \in S \X S : Earlier(p[1], p[2])}
            rank == [e \in S |-> Cardinality({f \in S : Earlier(f, e)})]
            s == Enumerated(S, rank)
<1>1. /\ IsFiniteSet(S)
      /\ \A e \in S : e[1] \in Nat /\ e[2] \in Nat /\ e = <<e[1], e[2]>> /\ ToldAt(e) \in Nat
  BY EntriesAre
<1>2. \A e, f \in S : <<e, f>> \in R <=> Earlier(e, f)
  OBVIOUS
<1>3. \A e \in S : rank[e] = Cardinality(Below(R, S, e))
  <2>1. \A e \in S : Below(R, S, e) = {f \in S : Earlier(f, e)}
    BY DEF Below
  <2>. QED
    BY <2>1
<1>4. Timeline = s
  BY DEF Timeline, SortedBy
<1>. HIDE DEF S, R, rank
<1>5. ASSUME NEW e \in S, NEW f \in S
      PROVE  ~Earlier(e, e) /\ (e = f \/ Earlier(e, f) \/ Earlier(f, e))
  BY <1>1 DEF Earlier
<1>6. ASSUME NEW e \in S, NEW f \in S, NEW g \in S, Earlier(e, f), Earlier(f, g)
      PROVE  Earlier(e, g)
  BY <1>1, <1>6 DEF Earlier
<1>7. Orders(R, S)
  BY <1>2, <1>5, <1>6 DEF Orders
<1>. HIDE DEF s
<1>8. Lists(s, S, R)
  BY <1>1, <1>3, <1>7, RanksEnumerate DEF s
<1>9. /\ Cardinality(S) \in Nat /\ s \in [1 .. Cardinality(S) -> S]
      /\ DOMAIN s = 1 .. Cardinality(S)
  BY <1>8 DEF Lists
<1>. QED
  BY <1>2, <1>4, <1>8, <1>9 DEF Lists, S

(* An entry is shown as often as its run was read far enough.              *)
LEMMA TimesShown ==
  ASSUME RunsInv, WhollyRead, NEW r \in ReportedRuns, NEW n \in Nat \ {0}
  PROVE  LET reached == {k \in DOMAIN report.read :
                           report.read[k].run = r /\ n <= report.read[k].upTo}
             places == {k \in DOMAIN Timeline :
                          RunShown(Timeline[k]) = r /\ Timeline[k][2] = n}
         IN  /\ reached \in SUBSET Reads(r) /\ IsFiniteSet(Reads(r))
             /\ Cardinality(places) = Cardinality(reached)
<1>. DEFINE read == report.read
            reached == {k \in DOMAIN read : read[k].run = r /\ n <= read[k].upTo}
            shown == Timeline
            places == {k \in DOMAIN shown : RunShown(shown[k]) = r /\ shown[k][2] = n}
            f == [k \in places |-> shown[k][1]]
<1>1. /\ \A k \in DOMAIN read : read[k].upTo \in Nat
      /\ Len(read) \in Nat /\ DOMAIN read = 1 .. Len(read)
  BY DEF WhollyRead
<1>2. /\ reached \in SUBSET Reads(r) /\ Reads(r) \in SUBSET (1 .. Len(read))
      /\ IsFiniteSet(Reads(r))
  <2>1. reached \in SUBSET Reads(r) /\ Reads(r) \in SUBSET (1 .. Len(read))
    BY <1>1 DEF Reads
  <2>. QED
    BY <1>1, <2>1, PositionsFinite
<1>3. /\ \A e : e \in Entries <=> Shows(e)
      /\ \A e \in Entries : e = <<e[1], e[2]>>
  BY EntriesAre
<1>4. /\ \A k \in DOMAIN shown : shown[k] \in Entries
      /\ \A e \in Entries : \E k \in DOMAIN shown : shown[k] = e
      /\ \A i, j \in DOMAIN shown : shown[i] = shown[j] => i = j
  BY TimelineLists
<1>. HIDE DEF shown
<1>5. ASSUME NEW i \in places PROVE shown[i][1] \in reached
  BY <1>3, <1>4, <1>5 DEF Shows, RunShown
<1>6. ASSUME NEW i \in places, NEW j \in places, shown[i][1] = shown[j][1] PROVE i = j
  <2>1. shown[i] = <<shown[i][1], n>> /\ shown[j] = <<shown[j][1], n>>
    BY <1>3, <1>4, <1>6
  <2>. QED
    BY <1>4, <1>6, <2>1
<1>7. ASSUME NEW k \in reached PROVE \E i \in places : shown[i][1] = k
  <2>1. <<k, n>> \in Entries
    BY <1>1, <1>3, <1>7 DEF Shows
  <2>2. PICK i \in DOMAIN shown : shown[i] = <<k, n>>
    BY <1>4, <2>1
  <2>. QED
    BY <1>7, <2>2 DEF RunShown
<1>. HIDE DEF places, reached
<1>8. f \in Injection(places, reached)
  <2>1. f \in [places -> reached] /\ \A i \in places : f[i] = shown[i][1]
    BY <1>5
  <2>. HIDE DEF f
  <2>2. \A i, j \in places : f[i] = f[j] => i = j
    BY <1>6, <2>1
  <2>. QED
    BY <2>1, <2>2 DEF Injection, IsInjective
<1>9. f \in Surjection(places, reached)
  BY <1>5, <1>7 DEF Surjection
<1>10. IsFiniteSet(reached)
  BY <1>2, FS_Subset
<1>11. IsFiniteSet(places)
  BY <1>8, <1>10, FS_Injection
<1>12. ExistsBijection(places, reached)
  BY <1>8, <1>9 DEF ExistsBijection, Bijection
<1>13. Cardinality(reached) = Cardinality(places)
  <2>. HIDE DEF f
  <2>. QED
    BY <1>11, <1>12, FS_Bijection
<1>. QED
  BY <1>2, <1>13 DEF shown, places, reached

LEMMA TimelineHolds ==
  ASSUME RunsInv, TimelineRead
  PROVE  TimelineIsTrue
<1>. SUFFICES ASSUME report.kind = "timeline", report.left = <<>>
              PROVE  TimelineIsTrue
  BY DEF TimelineIsTrue
<1>. DEFINE shown == Timeline
            Times(r, n) ==
              Cardinality({k \in DOMAIN shown : RunShown(shown[k]) = r /\ shown[k][2] = n})
            Linked(r) == Cardinality({k \in DOMAIN report.linked : report.linked[k] = r})
            Reached(r, n) == {k \in DOMAIN report.read :
                                report.read[k].run = r /\ n <= report.read[k].upTo}
<1>1. WhollyRead
  BY WhollyReadHolds
<1>2. ASSUME NEW r \in ReportedRuns, NEW n \in Nat \ {0}
      PROVE  /\ Times(r, n) = Cardinality(Reached(r, n)) /\ Times(r, n) \in Nat
             /\ Reached(r, n) \in SUBSET Reads(r) /\ IsFiniteSet(Reads(r))
             /\ Cardinality(Reads(r)) \in Nat
  <2>1. /\ Times(r, n) = Cardinality(Reached(r, n))
        /\ Reached(r, n) \in SUBSET Reads(r) /\ IsFiniteSet(Reads(r))
    BY <1>1, TimesShown
  <2>. HIDE DEF Reached, Times
  <2>2. IsFiniteSet(Reached(r, n))
    BY <2>1, FS_Subset
  <2>. QED
    BY <2>1, <2>2, FS_CardinalityType
<1>3. \A k \in DOMAIN report.read :
        /\ report.read[k].upTo \in Nat
        /\ report.before[report.read[k].run] <= report.read[k].upTo
  BY <1>1 DEF WhollyRead
<1>4. ASSUME NEW r \in ReportedRuns, NEW n \in DOMAIN runEvents[r]
      PROVE  /\ Times(r, n) <= Linked(r)
             /\ n <= report.before[r] => Times(r, n) = Linked(r)
             /\ \A m \in 1 .. n : Times(r, n) <= Times(r, m)
  <2>1. n \in Nat \ {0}
    BY DEF RunsInv, RunsTyped
  <2>2. Cardinality(Reads(r)) <= Linked(r) /\ report.before[r] \in Nat
    BY <1>1 DEF WhollyRead
  <2>3. Times(r, n) <= Cardinality(Reads(r)) /\ Cardinality(Reads(r)) \in Nat
    <3>. HIDE DEF Reached, Times
    <3>. QED
      BY <1>2, <2>1, FS_Subset
  <2>4. ASSUME n <= report.before[r] PROVE Times(r, n) = Linked(r)
    <3>1. report.before[r] > 0
      BY <2>1, <2>2, <2>4
    <3>2. Cardinality(Reads(r)) = Linked(r)
      BY <1>1, <3>1 DEF WhollyRead
    <3>3. ASSUME NEW k \in DOMAIN report.read, report.read[k].run = r
          PROVE  n <= report.read[k].upTo
      BY <1>3, <2>1, <2>2, <2>4, <3>3
    <3>4. Reached(r, n) = Reads(r)
      BY <3>3 DEF Reads
    <3>. QED
      BY <1>2, <2>1, <3>2, <3>4
  <2>5. ASSUME NEW m \in 1 .. n PROVE Times(r, n) <= Times(r, m)
    <3>1. m \in Nat \ {0} /\ m <= n
      BY <2>1
    <3>2. Reached(r, n) \in SUBSET Reached(r, m)
      BY <1>3, <2>1, <3>1
    <3>. HIDE DEF Reached, Times
    <3>3. IsFiniteSet(Reached(r, m))
      BY <1>2, <3>1, FS_Subset
    <3>4. Cardinality(Reached(r, n)) <= Cardinality(Reached(r, m))
      BY <3>2, <3>3, FS_Subset
    <3>. QED
      BY <1>2, <2>1, <3>1, <3>4
  <2>6. Linked(r) \in Nat
    <3>1. report.linked \in Seq(ReportedRuns)
      BY DEF TimelineRead, TimelineReports
    <3>2. /\ Len(report.linked) \in Nat
          /\ {k \in DOMAIN report.linked : report.linked[k] = r}
               \in SUBSET (1 .. Len(report.linked))
      BY <3>1
    <3>. QED
      BY <3>2, PositionsFinite
  <2>7. Times(r, n) \in Nat
    BY <1>2, <2>1
  <2>8. Times(r, n) <= Linked(r)
    <3>. HIDE DEF Times, Linked
    <3>. QED
      BY <2>2, <2>3, <2>6, <2>7
  <2>. QED
    BY <2>4, <2>5, <2>8
<1>5. ASSUME NEW k \in DOMAIN shown, NEW j \in 1 .. k
      PROVE  /\ ToldAt(shown[j]) <= ToldAt(shown[k])
             /\ RunShown(shown[j]) = RunShown(shown[k]) => shown[j][2] <= shown[k][2]
  <2>1. /\ j \in DOMAIN shown /\ shown[j] \in Entries /\ shown[k] \in Entries
        /\ j = k \/ Earlier(shown[j], shown[k])
    BY <1>1, TimelineLists
  <2>. HIDE DEF shown
  <2>2. PICK e \in Entries, f \in Entries : e = shown[j] /\ f = shown[k]
    BY <2>1
  <2>3. /\ ToldAt(e) \in Nat /\ ToldAt(f) \in Nat /\ RunShown(e) \in ReportedRuns
        /\ e[2] \in Nat /\ f[2] \in Nat
        /\ e[2] \in DOMAIN runEvents[RunShown(e)] /\ f[2] \in DOMAIN runEvents[RunShown(f)]
    BY <1>1, EntriesAre
  <2>4. ToldAt(e) <= ToldAt(f)
    <3>1. e = f \/ Earlier(e, f)
      BY <2>1, <2>2
    <3>. QED
      BY <2>3, <3>1 DEF Earlier
  <2>5. ASSUME RunShown(e) = RunShown(f) PROVE e[2] <= f[2]
    <3>1. Timed(RunShown(e))
      BY <2>3 DEF RunsInv, RunStands
    <3>2. f[2] < e[2] => ToldAt(f) < ToldAt(e)
      BY <2>3, <2>5, <3>1 DEF Timed, ToldAt
    <3>. QED
      BY <2>3, <2>4, <3>2
  <2>. QED
    BY <2>2, <2>4, <2>5
<1>. QED
  BY <1>4, <1>5 DEF TimelineIsTrue

(* The inductive invariant of the reports.                                 *)
ReportsInv ==
  /\ RunsInv
  /\ LinksTyped
  /\ report.kind \in {"none", "timeline", "page", "summary"}
  /\ RowSeen
  /\ TimelineRead

LEMMA ReportsInvInitially == ReportsInit => ReportsInv
<1>. SUFFICES ASSUME ReportsInit PROVE ReportsInv
  OBVIOUS
<1>1. report.kind = "none" /\ links \in Seq(ReportedRuns)
  BY DEF ReportsInit, NoReport
<1>. QED
  BY <1>1, RunsInvInitially DEF ReportsInv, LinksTyped, RowSeen, TimelineRead

LEMMA RunsAreUntouched == RunsInv /\ UNCHANGED reportedVars => RunsInv'
<1>. SUFFICES ASSUME RunsInv, UNCHANGED reportedVars PROVE RunsInv'
  OBVIOUS
<1>1. /\ runRow' = runRow /\ runEvents' = runEvents /\ ticks' = ticks /\ telling' = telling
      /\ deciding' = deciding /\ resumes' = resumes
  BY DEF reportedVars
<1>2. RunsTyped'
  BY <1>1 DEF RunsInv, RunsTyped
<1>3. ASSUME NEW r \in ReportedRuns PROVE RunStands(r)'
  <2>1. RunStands(r)
    BY DEF RunsInv
  <2>. QED
    BY <1>1, <2>1 DEF RunStands, Timed, ResultsFollow, Told, RowAgrees, HandedLast, EventStands
<1>. QED
  BY <1>2, <1>3 DEF RunsInv

LEMMA ReportsInvKept == ReportsInv /\ [ReportsNext]_reportsVars => ReportsInv'
<1>. SUFFICES ASSUME ReportsInv, [ReportsNext]_reportsVars PROVE ReportsInv'
  OBVIOUS
<1>1. CASE ReportsNext
  <2>0. RunsInv /\ LinksTyped /\ RowSeen /\ TimelineRead
    BY DEF ReportsInv
  <2>1. RowSeen' /\ TimelineRead'
    BY <1>1, <2>0, RowSeenKept, TimelineReadKept
  <2>4. RunsInv'
    <3>1. CASE \E r \in ReportedRuns : RunStep(r)
      BY <2>0, <3>1, RunsInvKept
    <3>2. CASE UNCHANGED reportedVars
      BY <2>0, <3>2, RunsAreUntouched
    <3>. QED
      BY <1>1, <3>1, <3>2 DEF ReportsNext, IncidentRequest, AddLink, BeginTimeline, ReadLinked,
                             RunReportRequest, ReadRunRow, ReadEvents
  <2>2. LinksTyped'
    <3>1. ASSUME NEW r \in ReportedRuns, AddLink(r) PROVE LinksTyped'
      BY <3>1 DEF AddLink, LinksTyped, ReportsInv
    <3>2. CASE UNCHANGED links
      BY <3>2 DEF LinksTyped, ReportsInv
    <3>. QED
      BY <1>1, <3>1, <3>2 DEF ReportsNext, RunStep, IncidentRequest, BeginTimeline, ReadLinked,
                             RunReportRequest, ReadRunRow, ReadEvents
  <2>3. report'.kind \in {"none", "timeline", "page", "summary"}
    <3>1. CASE UNCHANGED report
      BY <3>1 DEF ReportsInv
    <3>2. CASE BeginTimeline \/ \E r \in ReportedRuns, which \in {"page", "summary"} :
                                  ReadRunRow(which, r)
      BY <3>2 DEF BeginTimeline, ReadRunRow
    <3>3. CASE ReadLinked
      <4>1. report \in TimelineReports
        BY <3>3 DEF ReadLinked, ReportsInv, TimelineRead
      <4>2. PICK left, read : report' = [report EXCEPT !.left = left, !.read = read]
        BY <3>3 DEF ReadLinked
      <4>. QED
        BY <4>1, <4>2 DEF TimelineReports
    <3>4. CASE ReadEvents
      <4>1. report \in RowReports
        BY <3>4 DEF ReadEvents, ReportsInv, RowSeen
      <4>2. PICK events, then : report' =
              [report EXCEPT !.events = events, !.ready = TRUE, !.then = then]
        BY <3>4 DEF ReadEvents
      <4>. QED
        BY <4>1, <4>2 DEF RowReports
    <3>. QED
      BY <1>1, <3>1, <3>2, <3>3, <3>4 DEF ReportsNext, RunStep, IncidentRequest, AddLink,
                                         RunReportRequest
  <2>. QED
    BY <2>1, <2>2, <2>3, <2>4 DEF ReportsInv
<1>2. CASE UNCHANGED reportsVars
  <2>1. UNCHANGED <<runRow, runEvents, ticks, telling, deciding, resumes, links, report>>
    BY <1>2 DEF reportsVars, reportedVars
  <2>2. RunsInv'
    BY <1>2, RunsAreUntouched DEF ReportsInv, reportsVars
  <2>3. PageIsTrue' /\ SummaryIsTrue' <=> PageIsTrue /\ SummaryIsTrue
    BY <2>1 DEF PageIsTrue, SummaryIsTrue, HandoffRequired, HandoffEvent, RowChanged,
                LatestWord, LatestSaysHandoff, GraphHadLatestWord, Unanswered, Events,
                ConfirmSuggested, Evidence, FailureReasons
  <2>4. TimelineRead'
    BY <2>1 DEF ReportsInv, TimelineRead, Visited, Reads, LinkedUpto, RowExists
  <2>. QED
    BY <2>1, <2>2, <2>3, <2>4 DEF ReportsInv, LinksTyped, RowSeen
<1>. QED
  BY <1>1, <1>2

LEMMA ReportsInvAlways == ReportsSpec => []ReportsInv
BY ReportsInvInitially, ReportsInvKept, PTL DEF ReportsSpec

(* The rows, the events and the report keep their types, the error of a    *)
(* row stays, and no event is told of a run without a row.                 *)
THEOREM ReportsTypesHold == ReportsSpec => []ReportsTypeOK
<1>1. ReportsInv => ReportsTypeOK
  <2>. SUFFICES ASSUME ReportsInv PROVE ReportsTypeOK
    OBVIOUS
  <2>1. ASSUME NEW r \in ReportedRuns
        PROVE  /\ runRow[r].status \in RowStatuses
               /\ runRow[r].status \in {"handoff_required", "failed"} => runRow[r].error
               /\ \A n \in DOMAIN runEvents[r] : runEvents[r][n].at < ticks
               /\ RowExists(r) \/ runEvents[r] = <<>>
    <3>1. runRow[r] \in RunRows /\ Timed(r) /\ RowAgrees(r)
      BY DEF ReportsInv, RunsInv, RunsTyped, RunStands
    <3>2. runRow[r].status \in RowStatuses
      BY <3>1 DEF RunRows
    <3>. QED
      BY <3>1, <3>2 DEF Timed, RowAgrees, RowExists
  <2>2. ToSet(links) \subseteq ReportedRuns
    BY DEF ReportsInv, LinksTyped, ToSet
  <2>. QED
    BY <2>1, <2>2 DEF ReportsInv, ReportsTypeOK, RowStatuses
<1>. QED
  BY <1>1, ReportsInvAlways, PTL

(* A timeline misses nothing that was told before it was asked for, shows  *)
(* nothing twice and is in order; a page contradicts itself only if it was *)
(* overtaken or the latest word is the graph's or of a resumed execution,  *)
(* and a summary overlooks a failure only if it was overtaken by a write.  *)
THEOREM ReportsAreFaithfulHolds == ReportsSpec => []ReportsAreFaithful
<1>1. ReportsInv => ReportsAreFaithful
  <2>. SUFFICES ASSUME ReportsInv PROVE ReportsAreFaithful
    OBVIOUS
  <2>1. TimelineIsTrue
    BY TimelineHolds DEF ReportsInv
  <2>2. PageIsTrue
    BY DEF ReportsInv, RowSeen, PageIsTrue
  <2>3. SummaryIsTrue
    BY DEF ReportsInv, RowSeen, SummaryIsTrue
  <2>. QED
    BY <2>1, <2>2, <2>3 DEF ReportsAreFaithful
<1>. QED
  BY <1>1, ReportsInvAlways, PTL
----------------------------------------------------------------------------
(* Conversations.                                                          *)

Versions == Exchanges \X ChatKinds
Early == {"idle", "row", "loaded", "input"}
Late  == {"answer", "saved", "done", "failed"}

ChatTyped ==
  /\ newest \in Versions \union {NoVersion}
  /\ DOMAIN blobs \subseteq Versions /\ blobs \in [DOMAIN blobs -> Seq(Versions)]
  /\ transcript \in Seq(Exchanges) /\ toolEvents \subseteq Exchanges \X Exchanges
  /\ xstage \in [Exchanges -> ExchangeStages]
  /\ xversion \in [Exchanges -> Versions \union {NoVersion}]
  /\ memory \in [Exchanges -> Seq(Versions)]
  /\ clstage \in [Clearers -> {"idle", "transcript", "done"}]
  /\ cleared \in [Clearers -> SUBSET {"memory", "transcript"}]
  /\ forgotten \in [Clearers -> SUBSET Exchanges]
  /\ namespace \in {"chat", "root"} /\ reworded \subseteq Exchanges

(* A message is of an exchange that has got that far.                      *)
Uttered(m) == xstage[m[1]] \notin Early /\ (m[2] = "answer" => xstage[m[1]] \in Late)

SaidInv ==
  /\ begun = {e \in Exchanges : xstage[e] # "idle"}
  /\ \A e \in Exchanges : /\ xstage[e] \in {"idle", "row"} => memory[e] = <<>>
                          /\ \A m \in ToSet(memory[e]) : Uttered(m)
  /\ \A v \in DOMAIN blobs : blobs[v] # <<>> /\ \A m \in ToSet(blobs[v]) : Uttered(m)

(* What an exchange that is past its answer has left where.                *)
ShownInv ==
  /\ \A e \in Exchanges :
       /\ xstage[e] \in {"saved", "done"} => e \in ToSet(transcript) \union unwritten
       /\ xstage[e] \in ChatKinds \union {"saved"} => <<e, "question">> \in ToSet(memory[e])
       /\ xstage[e] \in {"answer", "saved"} => <<e, "answer">> \in ToSet(memory[e])
  /\ \A e \in ToSet(transcript) : /\ xstage[e] \in {"saved", "done", "failed"}
                                  /\ <<e, "answer">> \in ToSet(memory[e])

(* What a clearing made forgotten is of nobody who goes on, and nowhere    *)
(* from where an exchange could be told it, if the rows are under the      *)
(* namespace of the chat.                                                  *)
ForgottenInv ==
  \A c \in Clearers :
    /\ \A e \in forgotten[c] : xstage[e] \in {"done", "failed"}
    /\ namespace = "chat" =>
         /\ \A v \in DOMAIN blobs : \A m \in ToSet(blobs[v]) : m[1] \notin forgotten[c]
         /\ \A e \in Exchanges \ forgotten[c] :
              \A m \in ToSet(memory[e]) : m[1] \notin forgotten[c]
    /\ cleared[c] = {"memory", "transcript"} /\ begun \subseteq forgotten[c] => transcript = <<>>

EventsInv ==
  \A ev \in toolEvents :
    /\ xstage[ev[1]] = "done"
    /\ ev[1] # ev[2] => ev[1] \notin streams
    /\ <<ev[2], "call">> \in ToSet(memory[ev[1]]) \/ (ev[1] = ev[2] /\ ev[1] \in reworded)

(* An answer that was not the agent's own is told by a tool event.         *)
RewordedInv ==
  \A e \in reworded :
    /\ e \notin streams
    /\ e \in ToSet(transcript) /\ xstage[e] = "done" => <<e, e>> \in toolEvents

(* While nobody has met and nothing was cleared, one exchange at a time    *)
(* carries on what is remembered.                                          *)
Calm == met = {} /\ \A c \in Clearers : clstage[c] = "idle"

CarriedOn(e) ==
  /\ xstage[e] \in {"row", "loaded"} => xversion[e] = newest
  /\ xstage[e] \in {"loaded", "input", "saved"} \union ChatKinds => memory[e] = Remembered
  /\ xstage[e] = "answer" =>
       \A i \in DOMAIN Remembered : Remembered[i] = <<e, "answer">> => i = Len(Remembered)

InOrder ==
  /\ \A k \in DOMAIN transcript :
       {transcript[k]} \X {"question", "answer"} \subseteq ToSet(Remembered)
  /\ \A k, l \in DOMAIN transcript, i, j \in DOMAIN Remembered :
       Remembered[i] = <<transcript[k], "answer">> /\ Remembered[j] = <<transcript[l], "answer">>
         => ((i < j) <=> (k < l))

CalmInv == Calm => /\ \A d, e \in InFlight : d = e
                   /\ \A e \in Exchanges : CarriedOn(e)
                   /\ InOrder

ChatInv == /\ ChatTyped /\ SaidInv /\ ShownInv /\ ForgottenInv
           /\ EventsInv /\ RewordedInv /\ CalmInv

LEMMA MessageSet ==
  ASSUME NEW T, NEW s \in Seq(T), NEW x \in T
  PROVE  /\ ToSet(Append(s, x)) = ToSet(s) \union {x}
         /\ ToSet(s) \subseteq T /\ ToSet(<<>>) = {}
         /\ Append(s, x) \in Seq(T) /\ Append(s, x) # <<>>
<1>1. /\ DOMAIN Append(s, x) = 1 .. Len(s) + 1 /\ DOMAIN s = 1 .. Len(s)
      /\ Append(s, x)[Len(s) + 1] = x /\ \A i \in 1 .. Len(s) : Append(s, x)[i] = s[i]
  OBVIOUS
<1>2. 1 .. Len(s) + 1 = (1 .. Len(s)) \union {Len(s) + 1}
  OBVIOUS
<1>3. ToSet(Append(s, x)) = ToSet(s) \union {x}
  BY <1>1, <1>2 DEF ToSet
<1>4. ToSet(s) \subseteq T /\ ToSet(<<>>) = {}
  BY DEF ToSet
<1>. QED
  BY <1>1, <1>3, <1>4

LEMMA ChatInvInitially == ChatInit => ChatInv
<1>. SUFFICES ASSUME ChatInit PROVE ChatInv
  OBVIOUS
<1>1. ToSet(<<>>) = {} /\ DOMAIN <<>> = {}
  BY DEF ToSet
<1>2. ChatTyped /\ SaidInv
  BY <1>1 DEF ChatInit, ChatTyped, SaidInv, Uttered, ExchangeStages
<1>3. ShownInv /\ ForgottenInv /\ EventsInv /\ RewordedInv
  BY <1>1 DEF ChatInit, ShownInv, ForgottenInv, EventsInv, RewordedInv, ChatKinds
<1>4. CalmInv
  <2>1. InFlight = {}
    BY DEF ChatInit, InFlight
  <2>. QED
    BY <1>1, <2>1 DEF ChatInit, CalmInv, CarriedOn, InOrder, ChatKinds
<1>. QED
  BY <1>2, <1>3, <1>4 DEF ChatInv

(* What was uttered stays so while exchanges go on.                        *)
LEMMA StillUttered ==
  ASSUME ChatTyped, NEW e \in Exchanges, NEW s \in ExchangeStages, Stage(e, s),
         xstage[e] \notin Early => s \notin Early, xstage[e] \in Late => s \in Late
  PROVE  /\ \A m \in Versions : Uttered(m) => Uttered(m)'
         /\ xstage'[e] = s /\ \A d \in Exchanges \ {e} : xstage'[d] = xstage[d]
         /\ xstage' \in [Exchanges -> ExchangeStages]
         /\ InFlight' \subseteq InFlight \union {e}
<1>1. /\ xstage'[e] = s /\ \A d \in Exchanges \ {e} : xstage'[d] = xstage[d]
      /\ xstage' \in [Exchanges -> ExchangeStages]
  BY DEF ChatTyped, Stage
<1>. QED
  BY <1>1 DEF Uttered, Versions, InFlight

(* Nothing of the past comes back while the messages of no one change.     *)
LEMMA MessagesTyped ==
  ASSUME ChatTyped
  PROVE  /\ \A e \in Exchanges : ToSet(memory[e]) \subseteq Versions
         /\ \A v \in DOMAIN blobs : ToSet(blobs[v]) \subseteq Versions
         /\ Remembered \in Seq(Versions) /\ ToSet(Remembered) \subseteq Versions
         /\ \A v : Stored(v) \in Seq(Versions)
<1>1. \A s \in Seq(Versions) : ToSet(s) \subseteq Versions
  BY DEF ToSet
<1>2. \A v : Stored(v) \in Seq(Versions)
  BY DEF Stored, ChatTyped
<1>. QED
  BY <1>1, <1>2 DEF ChatTyped, Remembered

(* The steps of an exchange that leave the messages of the others alone    *)
(* keep what was said, forgotten and shown; what is left are its own.      *)
Moves(e, s) ==
  /\ Stage(e, s)
  /\ s \in ExchangeStages
  /\ xstage[e] \notin {"done", "failed"} /\ s # "idle"
  /\ xstage[e] \notin Early => s \notin Early
  /\ xstage[e] \in Late => s \in Late

LEMMA MovesKeepSaid ==
  ASSUME ChatInv, ChatTyped', NEW e \in Exchanges, NEW s, Moves(e, s),
         UNCHANGED <<blobs, memory>>, begun' = begun \union {e}, s # "row" \/ memory[e] = <<>>
  PROVE  SaidInv'
<1>1. /\ \A m \in Versions : Uttered(m) => Uttered(m)'
      /\ xstage'[e] = s /\ \A d \in Exchanges \ {e} : xstage'[d] = xstage[d]
      /\ xstage' \in [Exchanges -> ExchangeStages]
  BY StillUttered DEF Moves, ChatInv
<1>2. begun' = {d \in Exchanges : xstage'[d] # "idle"}
  BY <1>1 DEF ChatInv, SaidInv, Moves
<1>. QED
  BY <1>1, <1>2, MessagesTyped DEF ChatInv, SaidInv, Moves

LEMMA MovesKeepForgotten ==
  ASSUME ChatInv, NEW e \in Exchanges, NEW s, Moves(e, s),
         UNCHANGED <<blobs, memory, transcript, clstage, cleared, forgotten, namespace>>,
         begun \subseteq begun'
  PROVE  ForgottenInv'
<1>1. \A c \in Clearers : e \notin forgotten[c]
  BY DEF Moves, ChatInv, ForgottenInv
<1>2. \A d \in Exchanges \ {e} : xstage'[d] = xstage[d]
  BY StillUttered DEF Moves, ChatInv
<1>3. forgotten \in [Clearers -> SUBSET Exchanges]
  BY DEF ChatInv, ChatTyped
<1>. QED
  BY <1>1, <1>2, <1>3 DEF ChatInv, ForgottenInv

LEMMA MovesKeepEvents ==
  ASSUME ChatInv, NEW e \in Exchanges, NEW s, Moves(e, s), UNCHANGED <<toolEvents, streams>>,
         reworded \subseteq reworded', \A d \in Exchanges \ {e} : memory'[d] = memory[d]
  PROVE  EventsInv'
<1>1. \A d \in Exchanges \ {e} : xstage'[d] = xstage[d]
  BY StillUttered DEF Moves, ChatInv
<1>2. \A ev \in toolEvents : ev[1] \in Exchanges \ {e}
  BY DEF Moves, ChatInv, ChatTyped, EventsInv
<1>. QED
  BY <1>1, <1>2 DEF ChatInv, EventsInv

LEMMA MovesKeepReworded ==
  ASSUME ChatInv, NEW e \in Exchanges, NEW s, Moves(e, s), s # "done",
         UNCHANGED <<toolEvents, streams, reworded, transcript>>
  PROVE  RewordedInv'
<1>1. xstage'[e] = s /\ \A d \in Exchanges \ {e} : xstage'[d] = xstage[d]
  BY StillUttered DEF Moves, ChatInv
<1>. QED
  BY <1>1 DEF ChatInv, ChatTyped, RewordedInv

LEMMA MovesKeepShown ==
  ASSUME ChatInv, NEW e \in Exchanges, NEW s, Moves(e, s), UNCHANGED <<transcript, unwritten>>,
         \A d \in Exchanges \ {e} : memory'[d] = memory[d],
         \/ s \notin {"saved", "done"} \union ChatKinds /\ memory' = memory
         \/ s = "done" /\ xstage[e] = "saved" /\ memory' = memory
         \/ s = "loaded" /\ xstage[e] = "row"
  PROVE  ShownInv'
<1>1. /\ xstage'[e] = s /\ \A d \in Exchanges \ {e} : xstage'[d] = xstage[d]
  BY StillUttered DEF Moves, ChatInv
<1>2. \A d \in ToSet(transcript) : d \in Exchanges
  BY DEF ChatInv, ChatTyped, ToSet
<1>3. e \in ToSet(transcript) => xstage[e] = "saved"
  BY DEF Moves, ChatInv, ShownInv
<1>4. e \in ToSet(transcript) => s \in {"saved", "done", "failed"} /\ memory' = memory
  BY <1>3 DEF Moves, Late, ChatKinds, Early
<1>. QED
  BY <1>1, <1>2, <1>4 DEF ChatInv, ShownInv, ChatKinds

(* In calm there is nobody but the exchange that moves.                    *)
LEMMA MovesKeepCalm ==
  ASSUME ChatInv, NEW e \in InFlight, NEW s, Moves(e, s), UNCHANGED <<met, clstage>>,
         Calm /\ CarriedOn(e) /\ InOrder => CarriedOn(e)' /\ InOrder'
  PROVE  CalmInv'
<1>. SUFFICES ASSUME Calm' PROVE /\ \A d, f \in InFlight' : d = f
                                 /\ \A d \in Exchanges : CarriedOn(d)'
                                 /\ InOrder'
  BY DEF CalmInv
<1>1. e \in Exchanges
  BY DEF InFlight
<1>2. /\ InFlight' \subseteq InFlight \union {e}
      /\ \A d \in Exchanges \ {e} : xstage'[d] = xstage[d]
  BY <1>1, StillUttered DEF Moves, ChatInv
<1>3. Calm
  BY DEF Calm
<1>4. /\ \A d \in InFlight : d = e
      /\ CarriedOn(e)' /\ InOrder'
  BY <1>1, <1>3 DEF ChatInv, CalmInv
<1>5. ASSUME NEW d \in Exchanges, d # e
      PROVE  CarriedOn(d)'
  <2>1. xstage'[d] \in {"idle", "done", "failed"}
    BY <1>2, <1>4, <1>5 DEF InFlight
  <2>. QED
    BY <2>1 DEF CarriedOn, ChatKinds
<1>. QED
  BY <1>2, <1>4, <1>5

LEMMA ReadRowKeeps ==
  ASSUME ChatInv, NEW e \in Exchanges, ReadRow(e)
  PROVE  ChatInv'
<1>1. /\ xstage[e] = "idle" /\ Moves(e, "row")
      /\ xversion' = [xversion EXCEPT ![e] = newest] /\ begun' = begun \union {e}
      /\ UNCHANGED <<newest, blobs, session, transcript, toolEvents, streams, namespace,
                     reworded, memory, clstage, cleared, forgotten, unwritten>>
  BY DEF ReadRow, Moves, ExchangeStages, Early, Late
<1>2. /\ xstage'[e] = "row" /\ \A d \in Exchanges \ {e} : xstage'[d] = xstage[d]
      /\ xstage' \in [Exchanges -> ExchangeStages] /\ InFlight' \subseteq InFlight \union {e}
  BY <1>1, StillUttered DEF Moves, ChatInv
<1>3. ChatTyped'
  BY <1>1, <1>2 DEF ChatInv, ChatTyped
<1>4. SaidInv'
  <2>1. memory[e] = <<>>
    BY <1>1 DEF ChatInv, SaidInv
  <2>. QED
    BY <1>1, <1>3, <2>1, MovesKeepSaid
<1>5. ShownInv' /\ ForgottenInv' /\ EventsInv' /\ RewordedInv'
  BY <1>1, MovesKeepShown, MovesKeepForgotten, MovesKeepEvents, MovesKeepReworded
     DEF ChatKinds
<1>6. CalmInv'
  <2>. SUFFICES ASSUME Calm' PROVE /\ \A d, f \in InFlight' : d = f
                                   /\ \A d \in Exchanges : CarriedOn(d)'
                                   /\ InOrder'
    BY DEF CalmInv
  <2>1. met' = IF InFlight = {} /\ Clearing = {} THEN met ELSE met \union InFlight \union {e}
    BY DEF ReadRow, Overlap
  <2>2. InFlight = {} /\ met' = met
    BY <2>1 DEF Calm
  <2>3. Calm /\ InOrder
    BY <1>1, <2>2 DEF Calm, ChatInv, CalmInv
  <2>4. InOrder'
    BY <1>1, <2>3 DEF InOrder, Remembered, Stored
  <2>5. CarriedOn(e)'
    <3>1. xversion'[e] = newest
      BY <1>1 DEF ChatInv, ChatTyped
    <3>. QED
      BY <1>1, <1>2, <3>1 DEF CarriedOn, ChatKinds
  <2>6. ASSUME NEW d \in Exchanges, d # e
        PROVE  CarriedOn(d)'
    <3>1. xstage'[d] \in {"idle", "done", "failed"}
      BY <1>2, <2>2, <2>6 DEF InFlight
    <3>. QED
      BY <3>1 DEF CarriedOn, ChatKinds
  <2>. QED
    BY <1>2, <2>2, <2>4, <2>5, <2>6
<1>. QED
  BY <1>3, <1>4, <1>5, <1>6 DEF ChatInv

LEMMA LoadBlobsKeeps ==
  ASSUME ChatInv, NEW e \in Exchanges, LoadBlobs(e)
  PROVE  ChatInv'
<1>1. /\ xstage[e] = "row" /\ Moves(e, "loaded") /\ e \in InFlight
      /\ memory' = [memory EXCEPT ![e] = Stored(xversion[e])]
      /\ UNCHANGED <<newest, blobs, session, transcript, toolEvents, streams, namespace,
                     reworded, xversion, clstage, cleared, met, begun, forgotten, unwritten>>
  BY DEF LoadBlobs, Moves, ExchangeStages, Early, Late, InFlight
<1>2. /\ xstage'[e] = "loaded" /\ \A d \in Exchanges \ {e} : xstage'[d] = xstage[d]
      /\ xstage' \in [Exchanges -> ExchangeStages]
      /\ \A m \in Versions : Uttered(m) => Uttered(m)'
  BY <1>1, StillUttered DEF Moves, ChatInv
<1>3. /\ memory'[e] = Stored(xversion[e]) /\ memory' \in [Exchanges -> Seq(Versions)]
      /\ \A d \in Exchanges \ {e} : memory'[d] = memory[d]
  BY <1>1, MessagesTyped DEF ChatInv, ChatTyped
<1>4. ChatTyped'
  BY <1>1, <1>2, <1>3 DEF ChatInv, ChatTyped
<1>5. /\ memory'[e] = <<>> \/ \E v \in DOMAIN blobs : memory'[e] = blobs[v]
      /\ ToSet(<<>>) = {}
  BY <1>3 DEF Stored, ToSet
<1>6. SaidInv'
  <2>1. begun' = {d \in Exchanges : xstage'[d] # "idle"}
    BY <1>1, <1>2 DEF ChatInv, SaidInv
  <2>2. \A m \in ToSet(memory'[e]) : Uttered(m)'
    BY <1>2, <1>5, MessagesTyped DEF ChatInv, SaidInv
  <2>3. \A d \in Exchanges : \A m \in ToSet(memory'[d]) : Uttered(m)'
    BY <1>2, <1>3, <2>2, MessagesTyped DEF ChatInv, SaidInv
  <2>4. \A v \in DOMAIN blobs : blobs[v] # <<>> /\ \A m \in ToSet(blobs[v]) : Uttered(m)'
    BY <1>2, MessagesTyped DEF ChatInv, SaidInv
  <2>5. \A d \in Exchanges : xstage'[d] \in {"idle", "row"} => memory'[d] = <<>>
    BY <1>2, <1>3 DEF ChatInv, SaidInv
  <2>. QED
    BY <1>1, <2>1, <2>3, <2>4, <2>5 DEF SaidInv
<1>7. ShownInv' /\ EventsInv' /\ RewordedInv'
  BY <1>1, <1>3, MovesKeepShown, MovesKeepEvents, MovesKeepReworded
<1>8. ForgottenInv'
  <2>. SUFFICES ASSUME NEW c \in Clearers
                PROVE  /\ \A d \in forgotten[c] : xstage'[d] \in {"done", "failed"}
                       /\ namespace = "chat" =>
                            /\ \A v \in DOMAIN blobs :
                                 \A m \in ToSet(blobs[v]) : m[1] \notin forgotten[c]
                            /\ \A d \in Exchanges \ forgotten[c] :
                                 \A m \in ToSet(memory'[d]) : m[1] \notin forgotten[c]
                       /\ cleared[c] = {"memory", "transcript"} /\ begun \subseteq forgotten[c]
                            => transcript = <<>>
    BY <1>1 DEF ForgottenInv
  <2>1. e \notin forgotten[c] /\ forgotten[c] \subseteq Exchanges
    BY <1>1 DEF ChatInv, ChatTyped, ForgottenInv
  <2>2. namespace = "chat" => \A m \in ToSet(memory'[e]) : m[1] \notin forgotten[c]
    BY <1>5 DEF ChatInv, ForgottenInv
  <2>. QED
    BY <1>2, <1>3, <2>1, <2>2 DEF ChatInv, ForgottenInv
<1>9. CalmInv'
  <2>1. ASSUME CarriedOn(e), InOrder
        PROVE  CarriedOn(e)' /\ InOrder'
    BY <1>1, <1>2, <1>3, <2>1 DEF CarriedOn, InOrder, Remembered, Stored, ChatKinds
  <2>. QED
    BY <1>1, <2>1, MovesKeepCalm
<1>. QED
  BY <1>4, <1>6, <1>7, <1>8, <1>9 DEF ChatInv

(* The steps that change no message.                                       *)
LEMMA OtherStepsKeep ==
  ASSUME ChatInv, NEW e \in Exchanges, PutInput(e) \/ AppendToolEvents(e) \/ Abandon(e)
  PROVE  ChatInv'
<1>1. /\ e \in InFlight
      /\ UNCHANGED <<blobs, transcript, streams, namespace, reworded, xversion, memory,
                     clstage, cleared, met, begun, forgotten, unwritten>>
  BY DEF PutInput, AppendToolEvents, Abandon, InFlight
<1>2. PICK s : /\ Moves(e, s)
               /\ \/ s = "input" /\ xstage[e] = "loaded" /\ newest' = xversion[e]
                       /\ toolEvents' = toolEvents
                  \/ s = "failed" /\ newest' = newest /\ toolEvents' = toolEvents
                  \/ s = "done" /\ xstage[e] = "saved" /\ newest' = newest
                       /\ toolEvents' = toolEvents \union {<<e, o>> : o \in EventsOf(e)}
  <2>1. CASE PutInput(e)
    <3>1. Moves(e, "input")
      BY <2>1 DEF PutInput, Moves, ExchangeStages, Early, Late
    <3>. QED
      BY <2>1, <3>1 DEF PutInput
  <2>2. CASE Abandon(e)
    <3>1. Moves(e, "failed")
      BY <2>2 DEF Abandon, InFlight, Moves, ExchangeStages, Early, Late
    <3>. QED
      BY <2>2, <3>1 DEF Abandon
  <2>3. CASE AppendToolEvents(e)
    <3>1. Stage(e, "done") => Moves(e, "done")
      BY <2>3 DEF AppendToolEvents, Moves, ExchangeStages, Early, Late
    <3>2. Stage(e, "failed") => Moves(e, "failed")
      BY <2>3 DEF AppendToolEvents, Moves, ExchangeStages, Early, Late
    <3>. QED
      BY <2>3, <3>1, <3>2 DEF AppendToolEvents
  <2>. QED
    BY <2>1, <2>2, <2>3
<1>3. /\ xstage'[e] = s /\ \A d \in Exchanges \ {e} : xstage'[d] = xstage[d]
      /\ xstage' \in [Exchanges -> ExchangeStages]
  BY <1>2, StillUttered DEF Moves, ChatInv
<1>4. ASSUME NEW o \in EventsOf(e)
      PROVE  /\ o \in Exchanges
             /\ o # e => e \notin streams
             /\ <<o, "call">> \in ToSet(memory[e]) \/ (o = e /\ e \in reworded)
  BY <1>4 DEF EventsOf, Callers
<1>5. ChatTyped'
  <2>1. newest' \in Versions \union {NoVersion}
    BY <1>2 DEF ChatInv, ChatTyped
  <2>2. toolEvents' \subseteq Exchanges \X Exchanges
    <3>1. \A o \in EventsOf(e) : <<e, o>> \in Exchanges \X Exchanges
      BY <1>4
    <3>2. {<<e, o>> : o \in EventsOf(e)} \subseteq Exchanges \X Exchanges
      BY <3>1
    <3>. QED
      BY <1>2, <3>2 DEF ChatInv, ChatTyped
  <2>. QED
    BY <1>1, <1>3, <2>1, <2>2 DEF ChatInv, ChatTyped
<1>6. SaidInv'
  <2>1. begun' = begun \union {e}
    BY <1>1 DEF InFlight, ChatInv, SaidInv
  <2>. QED
    BY <1>1, <1>2, <1>5, <2>1, MovesKeepSaid
<1>7. ShownInv' /\ ForgottenInv'
  BY <1>1, <1>2, MovesKeepShown, MovesKeepForgotten DEF ChatKinds
<1>8. EventsInv'
  <2>1. CASE toolEvents' = toolEvents
    BY <1>1, <1>2, <2>1, MovesKeepEvents
  <2>2. CASE s = "done" /\ toolEvents' = toolEvents \union {<<e, o>> : o \in EventsOf(e)}
    <3>2. ASSUME NEW ev \in toolEvents
          PROVE  xstage'[ev[1]] = "done"
      BY <1>3, <2>2 DEF ChatInv, ChatTyped, EventsInv
    <3>3. ASSUME NEW o \in EventsOf(e)
          PROVE  /\ xstage'[e] = "done" /\ <<e, o>>[1] = e /\ <<e, o>>[2] = o
                 /\ o # e => e \notin streams
                 /\ <<o, "call">> \in ToSet(memory[e]) \/ (o = e /\ e \in reworded)
      BY <1>3, <1>4, <2>2
    <3>. SUFFICES ASSUME NEW ev \in toolEvents'
                  PROVE  /\ xstage'[ev[1]] = "done"
                         /\ ev[1] # ev[2] => ev[1] \notin streams
                         /\ \/ <<ev[2], "call">> \in ToSet(memory[ev[1]])
                            \/ ev[1] = ev[2] /\ ev[1] \in reworded
      BY <1>1 DEF EventsInv
    <3>4. CASE ev \in toolEvents
      BY <3>2, <3>4 DEF ChatInv, EventsInv
    <3>5. CASE ev \notin toolEvents
      <4>1. PICK o \in EventsOf(e) : ev = <<e, o>>
        BY <2>2, <3>5
      <4>. QED
        BY <3>3, <4>1
    <3>. QED
      BY <3>4, <3>5
  <2>. QED
    BY <1>2, <2>1, <2>2
<1>9. CalmInv'
  <2>1. ASSUME CarriedOn(e), InOrder
        PROVE  CarriedOn(e)' /\ InOrder'
    <3>1. newest' = newest
      BY <1>2, <2>1 DEF CarriedOn
    <3>2. CarriedOn(e)'
      BY <1>1, <1>2, <1>3, <2>1, <3>1 DEF CarriedOn, Remembered, Stored, ChatKinds
    <3>3. InOrder'
      BY <1>1, <2>1, <3>1 DEF InOrder, Remembered, Stored
    <3>. QED
      BY <3>2, <3>3
  <2>. QED
    BY <1>1, <1>2, <2>1, MovesKeepCalm
<1>10. RewordedInv'
  <2>1. CASE s # "done"
    <3>1. toolEvents' = toolEvents
      BY <1>2, <2>1
    <3>. QED
      BY <1>1, <1>2, <2>1, <3>1, MovesKeepReworded
  <2>2. CASE s = "done"
    <3>1. toolEvents' = toolEvents \union {<<e, o>> : o \in EventsOf(e)}
      BY <1>2, <2>2
    <3>2. e \in reworded => e \notin streams /\ <<e, e>> \in toolEvents'
      BY <3>1 DEF EventsOf, ChatInv, RewordedInv
    <3>. QED
      BY <1>1, <1>3, <3>1, <3>2 DEF ChatInv, ChatTyped, RewordedInv
  <2>. QED
    BY <2>1, <2>2
<1>. QED
  BY <1>5, <1>6, <1>7, <1>8, <1>9, <1>10 DEF ChatInv

LEMMA PutMessageKeeps ==
  ASSUME ChatInv, NEW e \in Exchanges, PutMessage(e)
  PROVE  ChatInv'
<1>1. PICK said \in FollowsMessage(xstage[e]) :
        /\ Stage(e, said)
        /\ memory' = [memory EXCEPT ![e] = Append(memory[e], <<e, said>>)]
        /\ xversion' = [xversion EXCEPT ![e] = <<e, said>>]
        /\ blobs' = [v \in DOMAIN blobs \union {<<e, said>>} |->
                       IF v = <<e, said>> THEN Append(memory[e], <<e, said>>) ELSE blobs[v]]
        /\ newest' = <<e, said>>
        /\ UNCHANGED <<session, transcript, toolEvents, streams, namespace, reworded, clstage,
                       cleared, met, begun, forgotten, unwritten>>
  BY DEF PutMessage
<1>2. /\ said \in ChatKinds /\ xstage[e] \in {"input", "question", "call", "result"}
      /\ xstage[e] = "input" => said = "question"
      /\ xstage[e] # "input" => said # "question"
  BY DEF FollowsMessage, ChatKinds
<1>3. Moves(e, said) /\ e \in InFlight
  BY <1>1, <1>2 DEF Moves, ExchangeStages, ChatKinds, Early, Late, InFlight
<1>4. /\ xstage'[e] = said /\ \A d \in Exchanges \ {e} : xstage'[d] = xstage[d]
      /\ xstage' \in [Exchanges -> ExchangeStages]
      /\ \A m \in Versions : Uttered(m) => Uttered(m)'
  BY <1>3, StillUttered DEF Moves, ChatInv
<1>5. PICK version \in Versions : version = <<e, said>>
  BY <1>2 DEF Versions
<1>6. PICK old \in Seq(Versions), list \in Seq(Versions) :
        old = memory[e] /\ list = Append(old, version)
  <2>1. memory[e] \in Seq(Versions)
    BY DEF ChatInv, ChatTyped
  <2>2. Append(memory[e], version) \in Seq(Versions)
    BY <1>5, <2>1, MessageSet
  <2>. QED
    BY <2>1, <2>2
<1>7. ToSet(list) = ToSet(old) \union {version} /\ list # <<>> /\ ToSet(old) \subseteq Versions
  BY <1>6, MessageSet
<1>8. /\ memory' \in [Exchanges -> Seq(Versions)] /\ memory'[e] = list
      /\ \A d \in Exchanges \ {e} : memory'[d] = memory[d]
  BY <1>1, <1>5, <1>6 DEF ChatInv, ChatTyped
<1>9. /\ DOMAIN blobs' = DOMAIN blobs \union {version} /\ blobs'[version] = list
      /\ blobs' \in [DOMAIN blobs' -> Seq(Versions)]
      /\ \A v \in DOMAIN blobs' : blobs'[v] = list \/ (v \in DOMAIN blobs /\ blobs'[v] = blobs[v])
  BY <1>1, <1>5, <1>6 DEF ChatInv, ChatTyped
<1>10. ChatTyped'
  BY <1>1, <1>4, <1>5, <1>8, <1>9 DEF ChatInv, ChatTyped
<1>11. \A m \in ToSet(list) : Uttered(m)'
  <2>1. Uttered(version)'
    BY <1>2, <1>4, <1>5 DEF Uttered, Early, Late, ChatKinds
  <2>2. \A m \in ToSet(old) : Uttered(m)'
    BY <1>4, <1>6, <1>7 DEF ChatInv, SaidInv
  <2>. QED
    BY <1>7, <2>1, <2>2
<1>12. SaidInv'
  <2>1. begun' = {d \in Exchanges : xstage'[d] # "idle"}
    BY <1>1, <1>2, <1>4 DEF ChatInv, SaidInv, ChatKinds
  <2>2. \A d \in Exchanges : \A m \in ToSet(memory'[d]) : Uttered(m)'
    BY <1>4, <1>8, <1>11, MessagesTyped DEF ChatInv, SaidInv
  <2>3. \A v \in DOMAIN blobs' : blobs'[v] # <<>> /\ \A m \in ToSet(blobs'[v]) : Uttered(m)'
    BY <1>4, <1>7, <1>9, <1>11, MessagesTyped DEF ChatInv, SaidInv
  <2>4. \A d \in Exchanges : xstage'[d] \in {"idle", "row"} => memory'[d] = <<>>
    BY <1>2, <1>4, <1>8 DEF ChatInv, SaidInv, ChatKinds
  <2>. QED
    BY <2>1, <2>2, <2>3, <2>4 DEF SaidInv
<1>13. ShownInv'
  <2>1. e \notin ToSet(transcript)
    BY <1>2 DEF ChatInv, ShownInv
  <2>2. \A d \in ToSet(transcript) : d \in Exchanges \ {e}
    BY <2>1 DEF ChatInv, ChatTyped, ToSet
  <2>3. <<e, "question">> \in ToSet(list) /\ (said = "answer" => <<e, "answer">> \in ToSet(list))
    BY <1>2, <1>5, <1>6, <1>7 DEF ChatInv, ShownInv, ChatKinds
  <2>4. said # "saved" /\ said # "done"
    BY <1>2 DEF ChatKinds
  <2>5. \A d \in Exchanges :
          /\ xstage'[d] \in {"saved", "done"} => d \in ToSet(transcript) \union unwritten
          /\ xstage'[d] \in ChatKinds \union {"saved"} => <<d, "question">> \in ToSet(memory'[d])
          /\ xstage'[d] \in {"answer", "saved"} => <<d, "answer">> \in ToSet(memory'[d])
    BY <1>4, <1>8, <2>3, <2>4 DEF ChatInv, ShownInv
  <2>6. \A d \in ToSet(transcript) : /\ xstage'[d] \in {"saved", "done", "failed"}
                                     /\ <<d, "answer">> \in ToSet(memory'[d])
    BY <1>4, <1>8, <2>2 DEF ChatInv, ShownInv
  <2>. QED
    BY <1>1, <2>5, <2>6 DEF ShownInv
<1>14. EventsInv' /\ RewordedInv'
  <2>1. said # "done"
    BY <1>2 DEF ChatKinds
  <2>. QED
    BY <1>1, <1>3, <1>8, <2>1, MovesKeepEvents, MovesKeepReworded
<1>15. ForgottenInv'
  <2>. SUFFICES ASSUME NEW c \in Clearers
                PROVE  /\ \A d \in forgotten[c] : xstage'[d] \in {"done", "failed"}
                       /\ namespace = "chat" =>
                            /\ \A v \in DOMAIN blobs' :
                                 \A m \in ToSet(blobs'[v]) : m[1] \notin forgotten[c]
                            /\ \A d \in Exchanges \ forgotten[c] :
                                 \A m \in ToSet(memory'[d]) : m[1] \notin forgotten[c]
                       /\ cleared[c] = {"memory", "transcript"} /\ begun \subseteq forgotten[c]
                            => transcript = <<>>
    BY <1>1 DEF ForgottenInv
  <2>1. e \notin forgotten[c] /\ forgotten[c] \subseteq Exchanges
    BY <1>2 DEF ChatInv, ChatTyped, ForgottenInv
  <2>2. namespace = "chat" => \A m \in ToSet(list) : m[1] \notin forgotten[c]
    <3>1. version[1] = e
      BY <1>5
    <3>. QED
      BY <1>6, <1>7, <2>1, <3>1 DEF ChatInv, ForgottenInv
  <2>3. namespace = "chat" =>
          \A v \in DOMAIN blobs' : \A m \in ToSet(blobs'[v]) : m[1] \notin forgotten[c]
    BY <1>9, <2>2 DEF ChatInv, ForgottenInv
  <2>. QED
    BY <1>4, <1>8, <2>1, <2>2, <2>3 DEF ChatInv, ForgottenInv
<1>16. CalmInv'
  <2>1. ASSUME CarriedOn(e), InOrder
        PROVE  CarriedOn(e)' /\ InOrder'
    <3>1. old = Remembered /\ Remembered' = list /\ memory'[e] = list
      <4>1. old = Remembered
        BY <1>2, <1>6, <2>1 DEF CarriedOn, ChatKinds
      <4>2. newest' = version /\ version \in DOMAIN blobs'
        BY <1>1, <1>5, <1>9
      <4>. QED
        BY <1>8, <1>9, <4>1, <4>2 DEF Remembered, Stored
    <3>2. PICK n \in Nat : n = Len(old)
      OBVIOUS
    <3>3. /\ DOMAIN list = 1 .. n + 1 /\ list[n + 1] = version /\ Len(list) = n + 1
          /\ DOMAIN old = 1 .. n /\ \A i \in 1 .. n : list[i] = old[i]
      BY <1>5, <1>6, <3>2
    <3>4. \A i \in 1 .. n + 1 : i \in 1 .. n \/ i = n + 1
      BY <3>2
    <3>5. CarriedOn(e)'
      <4>1. ASSUME said = "answer", NEW i \in 1 .. n + 1, list[i] = <<e, "answer">>
            PROVE  i = n + 1
        <5>1. CASE i \in 1 .. n
          <6>1. old[i] \in ToSet(old) /\ old[i] = <<e, "answer">>
            BY <3>3, <4>1, <5>1 DEF ToSet
          <6>2. Uttered(<<e, "answer">>)
            BY <1>6, <6>1 DEF ChatInv, SaidInv
          <6>. QED
            BY <1>2, <6>2 DEF Uttered, Late
        <5>. QED
          BY <3>4, <5>1
      <4>2. said \notin {"row", "loaded"}
        BY <1>2 DEF ChatKinds
      <4>. QED
        BY <1>4, <3>1, <3>3, <4>1, <4>2 DEF CarriedOn
    <3>6. \A k \in DOMAIN transcript : transcript[k] # e
      BY <1>2 DEF ChatInv, ShownInv, ToSet
    <3>7. \A i \in 1 .. n + 1, k \in DOMAIN transcript :
            list[i] = <<transcript[k], "answer">> => i \in 1 .. n /\ old[i] = list[i]
      BY <1>5, <3>3, <3>4, <3>6
    <3>8. \A k \in DOMAIN transcript :
            {transcript[k]} \X {"question", "answer"} \subseteq ToSet(list)
      BY <1>7, <2>1, <3>1 DEF InOrder
    <3>9. ASSUME NEW k \in DOMAIN transcript, NEW l \in DOMAIN transcript,
                 NEW i \in 1 .. n + 1, NEW j \in 1 .. n + 1,
                 list[i] = <<transcript[k], "answer">>, list[j] = <<transcript[l], "answer">>
          PROVE  (i < j) <=> (k < l)
      <4>1. i \in 1 .. n /\ old[i] = list[i] /\ j \in 1 .. n /\ old[j] = list[j]
        BY <3>7, <3>9
      <4>. QED
        BY <2>1, <3>1, <3>3, <3>9, <4>1 DEF InOrder
    <3>10. InOrder'
      <4>1. transcript' = transcript /\ DOMAIN list = 1 .. n + 1
        BY <1>1, <3>3
      <4>. QED
        BY <3>1, <3>8, <3>9, <4>1 DEF InOrder
    <3>. QED
      BY <3>5, <3>10
  <2>. QED
    BY <1>1, <1>3, <2>1, MovesKeepCalm
<1>. QED
  BY <1>10, <1>12, <1>13, <1>14, <1>15, <1>16 DEF ChatInv

LEMMA SaveExchangeKeeps ==
  ASSUME ChatInv, NEW e \in Exchanges, SaveExchange(e)
  PROVE  ChatInv'
<1>1. /\ xstage[e] = "answer" /\ Moves(e, "saved") /\ e \in InFlight
      /\ transcript' = Append(transcript, e)
      /\ reworded' = reworded \/ (e \notin streams /\ reworded' = reworded \union {e})
      /\ UNCHANGED <<newest, blobs, toolEvents, streams, namespace, xversion, memory, clstage,
                     cleared, met, begun, forgotten, unwritten>>
  BY DEF SaveExchange, Moves, ExchangeStages, Early, Late, InFlight
<1>2. /\ xstage'[e] = "saved" /\ \A d \in Exchanges \ {e} : xstage'[d] = xstage[d]
      /\ xstage' \in [Exchanges -> ExchangeStages]
  BY <1>1, StillUttered DEF Moves, ChatInv
<1>3. /\ transcript' \in Seq(Exchanges) /\ ToSet(transcript') = ToSet(transcript) \union {e}
      /\ transcript \in Seq(Exchanges)
  BY <1>1, MessageSet DEF ChatInv, ChatTyped
<1>4. ChatTyped'
  BY <1>1, <1>2, <1>3 DEF ChatInv, ChatTyped
<1>5. SaidInv'
  <2>1. begun' = begun \union {e}
    BY <1>1 DEF InFlight, ChatInv, SaidInv
  <2>. QED
    BY <1>1, <1>4, <2>1, MovesKeepSaid
<1>6. ShownInv'
  <2>1. <<e, "question">> \in ToSet(memory[e]) /\ <<e, "answer">> \in ToSet(memory[e])
    BY <1>1 DEF ChatInv, ShownInv, ChatKinds
  <2>2. \A d \in ToSet(transcript') : d = e \/ (d \in Exchanges \ {e} /\ d \in ToSet(transcript))
    BY <1>3, MessageSet
  <2>3. \A d \in Exchanges :
          /\ xstage'[d] \in {"saved", "done"} => d \in ToSet(transcript') \union unwritten
          /\ xstage'[d] \in ChatKinds \union {"saved"} => <<d, "question">> \in ToSet(memory[d])
          /\ xstage'[d] \in {"answer", "saved"} => <<d, "answer">> \in ToSet(memory[d])
    BY <1>2, <1>3, <2>1 DEF ChatInv, ShownInv
  <2>4. \A d \in ToSet(transcript') : /\ xstage'[d] \in {"saved", "done", "failed"}
                                      /\ <<d, "answer">> \in ToSet(memory[d])
    BY <1>2, <2>1, <2>2 DEF ChatInv, ShownInv
  <2>. QED
    BY <1>1, <2>3, <2>4 DEF ShownInv
<1>7. EventsInv' /\ RewordedInv'
  <2>1. EventsInv'
    BY <1>1, MovesKeepEvents
  <2>2. \A d \in reworded' : d \notin streams /\ (d = e \/ (d \in reworded /\ d \in Exchanges))
    BY <1>1 DEF ChatInv, ChatTyped, RewordedInv
  <2>3. \A d \in Exchanges \ {e} : d \in ToSet(transcript') => d \in ToSet(transcript)
    BY <1>3
  <2>. QED
    BY <1>1, <1>2, <2>1, <2>2, <2>3 DEF ChatInv, RewordedInv
<1>8. ForgottenInv'
  <2>1. \A c \in Clearers : e \notin forgotten[c] /\ forgotten[c] \subseteq Exchanges
    BY <1>1 DEF ChatInv, ChatTyped, ForgottenInv
  <2>2. e \in begun
    BY <1>1 DEF ChatInv, SaidInv
  <2>. QED
    BY <1>1, <1>2, <2>1, <2>2 DEF ChatInv, ForgottenInv
<1>9. CalmInv'
  <2>1. ASSUME CarriedOn(e), InOrder
        PROVE  CarriedOn(e)' /\ InOrder'
    <3>1. memory[e] = Remembered /\ Remembered' = Remembered /\ Remembered \in Seq(Versions)
      BY <1>1, <2>1, MessagesTyped DEF CarriedOn, ChatKinds, Remembered, Stored, ChatInv
    <3>2. CarriedOn(e)'
      BY <1>1, <1>2, <3>1 DEF CarriedOn
    <3>3. PICK n \in Nat : n = Len(transcript)
      BY <1>3
    <3>4. /\ DOMAIN transcript' = 1 .. n + 1 /\ transcript'[n + 1] = e
          /\ DOMAIN transcript = 1 .. n /\ \A k \in 1 .. n : transcript'[k] = transcript[k]
      BY <1>1, <1>3, <3>3
    <3>5. \A k \in 1 .. n + 1 : k \in 1 .. n \/ k = n + 1
      BY <3>3
    <3>6. \A k \in 1 .. n : transcript[k] # e
      BY <1>1, <3>4 DEF ChatInv, ShownInv, ToSet
    <3>7. PICK z \in Nat : z = Len(Remembered) /\ DOMAIN Remembered = 1 .. z
      BY <3>1
    <3>8. \A i \in 1 .. z : Remembered[i] = <<e, "answer">> => i = z
      BY <1>1, <2>1, <3>7 DEF CarriedOn
    <3>9. \A k \in 1 .. n + 1 :
            {transcript'[k]} \X {"question", "answer"} \subseteq ToSet(Remembered)
      <4>1. {e} \X {"question", "answer"} \subseteq ToSet(Remembered)
        <5>1. <<e, "question">> \in ToSet(memory[e]) /\ <<e, "answer">> \in ToSet(memory[e])
          BY <1>1 DEF ChatInv, ShownInv, ChatKinds
        <5>. QED
          BY <3>1, <5>1
      <4>. QED
        BY <2>1, <3>4, <3>5, <4>1 DEF InOrder
    <3>10. ASSUME NEW k \in 1 .. n + 1, NEW l \in 1 .. n + 1, NEW i \in 1 .. z, NEW j \in 1 .. z,
                  Remembered[i] = <<transcript'[k], "answer">>,
                  Remembered[j] = <<transcript'[l], "answer">>
           PROVE  (i < j) <=> (k < l)
      <4>1. CASE k \in 1 .. n /\ l \in 1 .. n
        BY <2>1, <3>4, <3>7, <3>10, <4>1 DEF InOrder
      <4>2. CASE k = n + 1
        <5>1. i = z
          BY <3>4, <3>8, <3>10, <4>2
        <5>. QED
          BY <3>3, <3>7, <4>2, <5>1
      <4>3. CASE k \in 1 .. n /\ l = n + 1
        <5>1. j = z
          BY <3>4, <3>8, <3>10, <4>3
        <5>2. i # z
          BY <3>4, <3>6, <3>10, <4>3, <5>1
        <5>. QED
          BY <3>3, <3>7, <4>3, <5>1, <5>2
      <4>. QED
        BY <3>5, <4>1, <4>2, <4>3
    <3>11. InOrder'
      <4>1. \A k \in DOMAIN transcript' :
              {transcript'[k]} \X {"question", "answer"} \subseteq ToSet(Remembered)
        BY <3>4, <3>9
      <4>2. \A k, l \in DOMAIN transcript', i, j \in DOMAIN Remembered :
              /\ Remembered[i] = <<transcript'[k], "answer">>
              /\ Remembered[j] = <<transcript'[l], "answer">>
              => ((i < j) <=> (k < l))
        BY <3>4, <3>7, <3>10
      <4>3. Remembered' = Remembered
        BY <3>1
      <4>. QED
        BY <4>1, <4>2, <4>3 DEF InOrder
    <3>. QED
      BY <3>2, <3>11
  <2>. QED
    BY <1>1, <2>1, MovesKeepCalm
<1>. QED
  BY <1>4, <1>5, <1>6, <1>7, <1>8, <1>9 DEF ChatInv

(* A clearing of the memory forgets what was said, if nobody is at it.     *)
LEMMA ClearMemoryKeeps ==
  ASSUME ChatInv, NEW c \in Clearers, ClearMemory(c)
  PROVE  ChatInv'
<1>1. /\ clstage' = [clstage EXCEPT ![c] = "transcript"]
      /\ \/ /\ cleared' = [cleared EXCEPT ![c] = {"memory"}] /\ Forget(c)
            /\ IF namespace = "chat" THEN newest' = NoVersion /\ blobs' = <<>>
               ELSE UNCHANGED <<newest, blobs>>
         \/ UNCHANGED <<cleared, newest, blobs, forgotten>>
      /\ UNCHANGED <<session, transcript, toolEvents, streams, namespace, reworded, xstage,
                     xversion, memory, begun, unwritten>>
  BY DEF ClearMemory, DeleteNamespace
<1>2. clstage' \in [Clearers -> {"idle", "transcript", "done"}] /\ ~Calm'
  BY <1>1 DEF ChatInv, ChatTyped, Calm
<1>3. begun \subseteq Exchanges
  BY DEF ChatInv, SaidInv
<1>4. /\ cleared' \in [Clearers -> SUBSET {"memory", "transcript"}]
      /\ cleared' = cleared
         \/ (cleared'[c] = {"memory"} /\ \A d \in Clearers \ {c} : cleared'[d] = cleared[d])
  BY <1>1 DEF ChatInv, ChatTyped
<1>5. /\ forgotten' \in [Clearers -> SUBSET Exchanges]
      /\ forgotten' = forgotten
         \/ (/\ InFlight = {} /\ forgotten'[c] = begun
             /\ cleared'[c] = {"memory"} /\ (namespace = "chat" => blobs' = <<>>)
             /\ \A d \in Clearers \ {c} : forgotten'[d] = forgotten[d])
  BY <1>1, <1>3 DEF ChatInv, ChatTyped, Forget
<1>6. /\ newest' \in Versions \union {NoVersion}
      /\ DOMAIN blobs' \subseteq Versions /\ blobs' \in [DOMAIN blobs' -> Seq(Versions)]
      /\ DOMAIN blobs' = {} \/ blobs' = blobs
  <2>1. CASE newest' = NoVersion /\ blobs' = <<>>
    <3>1. DOMAIN <<>> = {} /\ <<>> \in [{} -> Seq(Versions)]
      OBVIOUS
    <3>. QED
      BY <2>1, <3>1
  <2>2. CASE UNCHANGED <<newest, blobs>>
    BY <2>2 DEF ChatInv, ChatTyped
  <2>. QED
    BY <1>1, <2>1, <2>2
<1>7. ChatTyped'
  BY <1>1, <1>2, <1>4, <1>5, <1>6 DEF ChatInv, ChatTyped
<1>8. SaidInv'
  <2>1. \A m : Uttered(m)' <=> Uttered(m)
    BY <1>1 DEF Uttered
  <2>2. \A v \in DOMAIN blobs' : blobs'[v] # <<>> /\ \A m \in ToSet(blobs'[v]) : Uttered(m)'
    BY <1>6, <2>1 DEF ChatInv, SaidInv
  <2>. QED
    BY <1>1, <2>1, <2>2 DEF ChatInv, SaidInv
<1>9. ShownInv' /\ EventsInv' /\ RewordedInv'
  BY <1>1 DEF ChatInv, ShownInv, EventsInv, RewordedInv
<1>10. ForgottenInv'
  <2>. SUFFICES ASSUME NEW d \in Clearers
                PROVE  /\ \A e \in forgotten'[d] : xstage[e] \in {"done", "failed"}
                       /\ namespace = "chat" =>
                            /\ \A v \in DOMAIN blobs' :
                                 \A m \in ToSet(blobs'[v]) : m[1] \notin forgotten'[d]
                            /\ \A e \in Exchanges \ forgotten'[d] :
                                 \A m \in ToSet(memory[e]) : m[1] \notin forgotten'[d]
                       /\ cleared'[d] = {"memory", "transcript"} /\ begun \subseteq forgotten'[d]
                            => transcript = <<>>
    BY <1>1 DEF ForgottenInv
  <2>1. CASE forgotten'[d] = forgotten[d]
    <3>1. cleared'[d] = cleared[d] \/ cleared'[d] = {"memory"}
      BY <1>4
    <3>2. {"memory"} # {"memory", "transcript"}
      OBVIOUS
    <3>. QED
      BY <1>6, <2>1, <3>1, <3>2 DEF ChatInv, ForgottenInv
  <2>2. CASE forgotten'[d] # forgotten[d]
    <3>1. /\ d = c /\ InFlight = {} /\ forgotten'[c] = begun
          /\ cleared'[c] = {"memory"} /\ (namespace = "chat" => blobs' = <<>>)
      BY <1>5, <2>2
    <3>2. \A e \in begun : xstage[e] \in {"done", "failed"}
      BY <3>1 DEF InFlight, ChatInv, SaidInv
    <3>3. \A e \in Exchanges \ begun : memory[e] = <<>>
      BY DEF ChatInv, SaidInv
    <3>4. ToSet(<<>>) = {} /\ DOMAIN <<>> = {} /\ {"memory"} # {"memory", "transcript"}
      BY DEF ToSet
    <3>. QED
      BY <3>1, <3>2, <3>3, <3>4
  <2>. QED
    BY <2>1, <2>2
<1>. QED
  BY <1>2, <1>7, <1>8, <1>9, <1>10 DEF ChatInv, CalmInv

LEMMA ClearTranscriptKeeps ==
  ASSUME ChatInv, NEW c \in Clearers, ClearTranscript(c)
  PROVE  ChatInv'
<1>1. /\ clstage' = [clstage EXCEPT ![c] = "done"]
      /\ \/ /\ transcript' = <<>> /\ toolEvents' = {}
            /\ unwritten' = unwritten \union ToSet(transcript)
            /\ cleared' = [cleared EXCEPT ![c] = @ \union {"transcript"}]
         \/ UNCHANGED <<session, transcript, toolEvents, cleared, unwritten>>
      /\ UNCHANGED <<newest, blobs, streams, namespace, reworded, xstage, xversion, memory,
                     met, begun, forgotten>>
  BY DEF ClearTranscript
<1>2. clstage' \in [Clearers -> {"idle", "transcript", "done"}] /\ ~Calm'
  BY <1>1 DEF ChatInv, ChatTyped, Calm
<1>3. /\ cleared' \in [Clearers -> SUBSET {"memory", "transcript"}]
      /\ (cleared' = cleared /\ transcript' = transcript) \/ transcript' = <<>>
  BY <1>1 DEF ChatInv, ChatTyped
<1>4. ToSet(<<>>) = {} /\ <<>> \in Seq(Exchanges)
  BY DEF ToSet
<1>5. ChatTyped'
  BY <1>1, <1>2, <1>3, <1>4 DEF ChatInv, ChatTyped
<1>6. SaidInv'
  BY <1>1 DEF ChatInv, SaidInv, Uttered
<1>7. ShownInv'
  <2>1. /\ ToSet(transcript') \subseteq ToSet(transcript)
        /\ ToSet(transcript) \union unwritten \subseteq ToSet(transcript') \union unwritten'
    BY <1>1, <1>4
  <2>. QED
    BY <1>1, <2>1 DEF ChatInv, ShownInv
<1>8. EventsInv' /\ RewordedInv'
  BY <1>1, <1>4 DEF ChatInv, EventsInv, RewordedInv
<1>9. ForgottenInv'
  BY <1>1, <1>3 DEF ChatInv, ForgottenInv
<1>. QED
  BY <1>2, <1>5, <1>6, <1>7, <1>8, <1>9 DEF ChatInv, CalmInv

LEMMA ChatInvKept == ChatInv /\ [ChatNext]_chatVars => ChatInv'
<1>. SUFFICES ASSUME ChatInv, [ChatNext]_chatVars PROVE ChatInv'
  OBVIOUS
<1>1. ASSUME NEW e \in Exchanges, ExchangeStep(e)
      PROVE  ChatInv'
  BY <1>1, ReadRowKeeps, LoadBlobsKeeps, OtherStepsKeep, PutMessageKeeps, SaveExchangeKeeps
     DEF ExchangeStep
<1>2. ASSUME NEW c \in Clearers, ClearMemory(c) \/ ClearTranscript(c)
      PROVE  ChatInv'
  BY <1>2, ClearMemoryKeeps, ClearTranscriptKeeps
<1>3. CASE UNCHANGED chatVars
  <2>1. UNCHANGED <<newest, blobs, transcript, toolEvents, streams, namespace, reworded,
                    xstage, xversion, memory, clstage, cleared, met, begun, forgotten, unwritten>>
    BY <1>3 DEF chatVars
  <2>2. ChatTyped' /\ SaidInv' /\ ShownInv'
    BY <2>1 DEF ChatInv, ChatTyped, SaidInv, ShownInv, Uttered
  <2>3. ForgottenInv' /\ EventsInv' /\ RewordedInv'
    BY <2>1 DEF ChatInv, ForgottenInv, EventsInv, RewordedInv
  <2>4. CalmInv'
    BY <2>1 DEF ChatInv, CalmInv, Calm, CarriedOn, InOrder, InFlight, Remembered, Stored
  <2>. QED
    BY <2>2, <2>3, <2>4 DEF ChatInv
<1>. QED
  BY <1>1, <1>2, <1>3 DEF ChatNext

LEMMA ChatInvAlways == ChatSpec => []ChatInv
  BY ChatInvInitially, ChatInvKept, PTL DEF ChatSpec

(* The variables of a conversation keep their types.                       *)
THEOREM ChatTypesHold == ChatSpec => []ChatTypeOK
<1>1. ChatInv => ChatTypeOK
  BY MessagesTyped DEF ChatInv, ChatTyped, ChatTypeOK, Versions
<1>. QED
  BY <1>1, ChatInvAlways, PTL

(* The agent's memory and the transcript tell the same finished exchanges  *)
(* in the same order as long as requests of a session do not meet, and     *)
(* what a clearing deleted is not told again.                              *)
THEOREM ConversationAgreesHolds == ChatSpec => []ConversationAgrees
<1>1. ChatInv => MemoryFollowsTranscript
  <2>. SUFFICES ASSUME ChatInv PROVE MemoryFollowsTranscript
    OBVIOUS
  <2>1. \A k \in DOMAIN transcript :
          transcript[k] \in ToSet(transcript) /\ transcript[k] \in Exchanges
    BY DEF ChatInv, ChatTyped, ToSet
  <2>2. {k \in DOMAIN transcript : transcript[k] \in Exchanges} = DOMAIN transcript
    BY <2>1
  <2>3. (\A c \in Clearers : clstage[c] = "idle") /\ met = {} => InOrder
    BY DEF ChatInv, CalmInv, Calm
  <2>4. ASSUME NEW e \in Exchanges, <<e, "answer">> \in ToSet(Remembered)
        PROVE  e \in ToSet(transcript) \union unwritten \/ xstage[e] \in {"answer", "failed"}
    <3>1. newest \in DOMAIN blobs /\ <<e, "answer">> \in ToSet(blobs[newest])
      BY <2>4 DEF Remembered, Stored, ToSet
    <3>2. Uttered(<<e, "answer">>)
      BY <3>1 DEF ChatInv, SaidInv
    <3>3. xstage[e] \in Late
      BY <3>2 DEF Uttered
    <3>. QED
      BY <3>3 DEF Late, ChatInv, ShownInv
  <2>5. \A k \in DOMAIN transcript :
          /\ xstage[transcript[k]] \in {"saved", "done", "failed"}
          /\ <<transcript[k], "answer">> \in ToSet(memory[transcript[k]])
    BY <2>1 DEF ChatInv, ShownInv
  <2>6. \A k \in DOMAIN transcript : LET e == transcript[k] IN
          e \in reworded => e \notin streams /\ (xstage[e] = "done" => <<e, e>> \in toolEvents)
    BY <2>1 DEF ChatInv, RewordedInv
  <2>. QED
    BY <2>2, <2>3, <2>4, <2>5, <2>6 DEF MemoryFollowsTranscript, InOrder
<1>2. ChatInv => ClearForgets
  <2>. SUFFICES ASSUME ChatInv PROVE ClearForgets
    OBVIOUS
  <2>1. ASSUME NEW c \in Clearers,
               cleared[c] = {"memory", "transcript"}, begun \subseteq forgotten[c]
        PROVE  ToSet(History) = {}
    <3>1. transcript = <<>>
      BY <2>1 DEF ChatInv, ForgottenInv
    <3>2. ASSUME NEW v \in DOMAIN blobs, namespace = "chat"
          PROVE  FALSE
      <4>1. blobs[v] \in Seq(Versions) /\ blobs[v] # <<>>
        BY DEF ChatInv, ChatTyped, SaidInv
      <4>2. 1 \in DOMAIN blobs[v] /\ blobs[v][1] \in Versions
        BY <4>1
      <4>3. PICK m \in Versions : m \in ToSet(blobs[v])
        BY <4>2 DEF ToSet
      <4>4. xstage[m[1]] # "idle" /\ m[1] \in Exchanges
        BY <4>3 DEF ChatInv, SaidInv, Uttered, Early, Versions
      <4>5. m[1] \in forgotten[c]
        BY <2>1, <4>4 DEF ChatInv, SaidInv
      <4>. QED
        BY <3>2, <4>3, <4>5 DEF ChatInv, ForgottenInv
    <3>. QED
      BY <3>1, <3>2 DEF History, Remembered, Stored, ToSet
  <2>2. namespace = "chat" =>
          \A c \in Clearers : \A e \in Exchanges \ forgotten[c] :
            \A m \in ToSet(memory[e]) : m[1] \notin forgotten[c]
    BY DEF ChatInv, ForgottenInv
  <2>3. \A ev \in toolEvents :
          /\ ev[1] # ev[2] => ev[1] \notin streams
          /\ <<ev[2], "call">> \in ToSet(memory[ev[1]]) \/ (ev[1] = ev[2] /\ ev[1] \in reworded)
    BY DEF ChatInv, EventsInv
  <2>. QED
    BY <2>1, <2>2, <2>3 DEF ClearForgets
<1>. QED
  BY <1>1, <1>2, ChatInvAlways, PTL DEF ConversationAgrees
=============================================================================
