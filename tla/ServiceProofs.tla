---------------------------- MODULE ServiceProofs ---------------------------
(***************************************************************************)
(* Who is in has proven who it is, and is heard as often as the limiter    *)
(* says and no less, for any nicks, tokens, policies, bursts and windows,  *)
(* and however long the server runs; and the world they come into refers   *)
(* to nothing that is not there, of whatever files it was made and however *)
(* often the start was cut off.                                            *)
(*                                                                         *)
(* What the limiter promises is about the lines it let through; what it    *)
(* keeps is a level and a time.  The invariant relates the two: the level  *)
(* of a bucket and the lines let through since any one of them never add   *)
(* up to more than a burst and what has been refilled since, and the level *)
(* is a full one, or all that has been refilled since the last of them.    *)
(*                                                                         *)
(* That nothing dangles in the table rests on what the start holds beside  *)
(* it: the names it has met, the id it is about to write, and that a shell *)
(* is there before anything refers to it.                                  *)
(***************************************************************************)
EXTENDS Service, TLAPS

(***************************************************************************)
(* A bucket and the lines that it let through.                             *)
(***************************************************************************)

\* What Throttled says of one nick and one kind.
Within(times, k) ==
    \A i, j \in DOMAIN times : i <= j =>
      (j - i + 1) * Window[k] <= Full(k) + (times[j] - times[i]) * Burst[k]

IsBucket(b, k) == b = [tokens |-> b.tokens, last |-> b.last] /\ b.tokens \in 0 .. Full(k) /\ b.last \in Nat

\* Not more than there may be ...
Spent(b, k, times) ==
    \A i \in DOMAIN times :
      (Len(times) - i + 1) * Window[k] + b.tokens <= Full(k) + (b.last - times[i]) * Burst[k]
\* ... and not less than there must be.
Kept(b, k, times) ==
    \/ b.tokens = Full(k)
    \/ times # <<>> /\ b.tokens >= (b.last - times[Len(times)]) * Burst[k]

Agrees(b, k, times) == IsBucket(b, k) /\ times \in Seq(Nat) /\ Spent(b, k, times) /\ Kept(b, k, times)

\* A bucket holds a line at least.
LEMMA Holds ==
    ASSUME AccessAssumption, NEW k \in RateLimitKinds
    PROVE  Burst[k] \in Nat /\ Window[k] \in Nat /\ Full(k) \in Nat /\ Full(k) >= Window[k] /\ Window[k] > 0
<1>1. Burst[k] \in Nat \ {0} /\ Window[k] \in Nat \ {0}
  BY DEF AccessAssumption
<1>2. \A b, w \in Nat \ {0} : b * w \in Nat /\ b * w >= w
  BY SMTT(20)
<1> QED
  BY <1>1, <1>2 DEF Full

\* What lines cost, and one line more.
LEMMA Costs ==
    ASSUME NEW x \in Int, NEW y \in Int
    PROVE  x * y \in Int /\ (x + 1) * y = x * y + y
<1>1. x * y \in Int
  OBVIOUS
<1>2. (x + 1) * y = x * y + y
  BY SMTT(20)
<1> QED
  BY <1>1, <1>2

\* What is refilled up to a time is what was refilled before and what came since.
LEMMA Refilled ==
    ASSUME NEW now \in Int, NEW l \in Int, NEW t \in Int, NEW B \in Int
    PROVE  (now - t) * B = (l - t) * B + (now - l) * B /\ (now - l) * B \in Int /\ (l - t) * B \in Int
BY SMTT(20)

\* And time never takes from it.
LEMMA Refills ==
    ASSUME NEW now \in Nat, NEW l \in Nat, l <= now, NEW B \in Nat
    PROVE  (now - l) * B \in Nat
<1>1. now - l \in Nat
  OBVIOUS
<1>2. \A a, b \in Nat : a * b \in Nat
  BY SMTT(20)
<1> QED
  BY <1>1, <1>2

\* A full bucket that let nothing through.
LEMMA FreshAgrees ==
    ASSUME AccessAssumption, NEW k \in RateLimitKinds, NEW now \in Nat
    PROVE  Agrees([tokens |-> Full(k), last |-> now], k, <<>>)
<1>1. Full(k) \in Nat
  BY Holds
<1>2. DOMAIN <<>> = {} /\ <<>> \in Seq(Nat)
  OBVIOUS
<1> QED
  BY <1>1, <1>2 DEF Agrees, IsBucket, Spent, Kept

\* Refill keeps the bucket in agreement with what it let through, and brings it up to date.
LEMMA RefillAgrees ==
    ASSUME AccessAssumption, NEW k \in RateLimitKinds, clock \in Nat,
           NEW b, NEW times, Agrees(b, k, times), b.last <= clock
    PROVE  Agrees(Refill(b, k), k, times) /\ Refill(b, k).last = clock
<1> DEFINE F == Full(k)  B == Burst[k]  W == Window[k]  more == (clock - b.last) * B
           filled == b.tokens + more
           r == Refill(b, k)
<1>1. F \in Nat /\ B \in Nat /\ W \in Nat /\ b.tokens \in Nat /\ b.tokens <= F /\ b.last \in Nat
  BY Holds DEF Agrees, IsBucket
<1>2. more \in Nat
  BY <1>1, Refills
<1>3. r = [tokens |-> IF filled > F THEN F ELSE filled, last |-> clock]
  BY DEF Refill
<1>4. times \in Seq(Nat) /\ Len(times) \in Nat /\ DOMAIN times = 1 .. Len(times)
  BY DEF Agrees
<1>5. \A i \in DOMAIN times : times[i] \in Nat
  BY <1>4
<1>6. r.tokens = (IF filled > F THEN F ELSE filled) /\ r.last = clock
  BY <1>3
<1> HIDE DEF r
<1>7. IsBucket(r, k)
  <2>1. r = [tokens |-> r.tokens, last |-> r.last]
    BY <1>3
  <2> HIDE DEF F, more
  <2>2. r.tokens \in 0 .. F
    BY <1>1, <1>2, <1>6
  <2> QED
    BY <1>6, <2>1, <2>2 DEF IsBucket, F
<1>8. Spent(r, k, times)
  <2> SUFFICES ASSUME NEW i \in DOMAIN times
               PROVE  (Len(times) - i + 1) * W + r.tokens <= F + (r.last - times[i]) * B
    BY DEF Spent
  <2> DEFINE used == (Len(times) - i + 1) * W  then == (b.last - times[i]) * B
  <2>1. used + b.tokens <= F + then
    BY DEF Agrees, Spent
  <2>2. (clock - times[i]) * B = then + more /\ then \in Int
    BY <1>1, <1>5, Refilled
  <2>3. used \in Int
    <3>1. \A x, y \in Int : x * y \in Int
      OBVIOUS
    <3>2. Len(times) - i + 1 \in Int
      BY <1>4
    <3> QED
      BY <1>1, <3>1, <3>2
  <2> HIDE DEF F, more, used, then
  <2>4. r.tokens <= b.tokens + more /\ r.tokens \in Int
    BY <1>1, <1>2, <1>6
  <2>5. used + r.tokens <= F + (then + more)
    BY <1>1, <1>2, <2>1, <2>2, <2>3, <2>4
  <2> QED
    BY <1>6, <2>2, <2>5 DEF used
<1>9. Kept(r, k, times)
  <2>1. CASE b.tokens = F \/ filled > F
    <3> HIDE DEF F, more
    <3>1. r.tokens = F
      BY <1>1, <1>2, <1>6, <2>1
    <3> QED
      BY <3>1 DEF Kept, F
  <2>2. CASE b.tokens # F /\ ~(filled > F)
    <3> DEFINE t == times[Len(times)]
    <3>1. times # <<>> /\ b.tokens >= (b.last - t) * B
      BY <2>2 DEF Agrees, Kept
    <3>2. t \in Nat
      BY <1>4, <3>1
    <3>3. (clock - t) * B = (b.last - t) * B + more /\ (b.last - t) * B \in Int
      <4> HIDE DEF t, B
      <4> QED
        BY <1>1, <3>2, Refilled DEF more
    <3>4. r.tokens = b.tokens + more
      BY <1>6, <2>2
    <3> DEFINE then == (b.last - t) * B  now == (clock - t) * B
    <3> HIDE DEF more, then, now
    <3>5. r.tokens >= now
      BY <1>1, <1>2, <3>1, <3>3, <3>4 DEF then, now
    <3> QED
      BY <1>6, <3>1, <3>5 DEF Kept, now
  <2> QED
    BY <2>1, <2>2
<1> QED
  BY <1>4, <1>6, <1>7, <1>8, <1>9 DEF Agrees, r

\* A line is let through for the price of one, and no more of them than there may be.
LEMMA TakeAgrees ==
    ASSUME AccessAssumption, NEW k \in RateLimitKinds, NEW b, NEW times, Agrees(b, k, times),
           \A i \in DOMAIN times : times[i] <= b.last, Within(times, k), b.tokens >= Window[k]
    PROVE  /\ Agrees([b EXCEPT !.tokens = @ - Window[k]], k, Append(times, b.last))
           /\ Within(Append(times, b.last), k)
<1> DEFINE F == Full(k)  B == Burst[k]  W == Window[k]  n == Len(times)
           a == [b EXCEPT !.tokens = @ - Window[k]]
           more == Append(times, b.last)
<1>1. F \in Nat /\ B \in Nat /\ W \in Nat /\ F >= W /\ b.tokens \in Nat /\ b.tokens <= F /\ b.last \in Nat
  BY Holds DEF Agrees, IsBucket
<1>2. times \in Seq(Nat) /\ n \in Nat /\ DOMAIN times = 1 .. n
  BY DEF Agrees
<1>3. a = [tokens |-> a.tokens, last |-> a.last] /\ a.tokens = b.tokens - W /\ a.last = b.last
  BY DEF Agrees, IsBucket
<1>4. /\ more \in Seq(Nat) /\ Len(more) = n + 1 /\ DOMAIN more = 1 .. n + 1 /\ more # <<>>
      /\ more[n + 1] = b.last /\ \A i \in 1 .. n : more[i] = times[i]
  BY <1>1, <1>2
<1> HIDE DEF a, more
<1>5. \A x \in Int : (x - x) * B = 0
  <2>1. 0 * B = 0
    BY <1>1
  <2> QED
    BY <2>1
\* Of any line and those after it, the new one included.
<1>6. ASSUME NEW i \in 1 .. n + 1
      PROVE  (n + 1 - i + 1) * W + a.tokens <= F + (b.last - more[i]) * B
  <2>1. CASE i = n + 1
    <3> DEFINE cost == (n + 1 - i + 1) * W  since == (b.last - more[i]) * B
    <3>1. cost = W
      BY <1>1, <1>2, <2>1
    <3>2. since = 0
      BY <1>1, <1>4, <1>5, <2>1
    <3> HIDE DEF F, W, cost, since
    <3>3. cost + a.tokens <= F + since
      BY <1>1, <1>3, <3>1, <3>2
    <3> QED
      BY <3>3 DEF cost, since
  <2>2. CASE i \in 1 .. n
    <3> DEFINE used == (n - i + 1) * W  then == (b.last - times[i]) * B
               cost == (n + 1 - i + 1) * W  since == (b.last - more[i]) * B
    <3>1. used + b.tokens <= F + then
      BY <1>2, <2>2 DEF Agrees, Spent
    <3>2. cost = used + W /\ used \in Int
      <4> DEFINE q == n - i + 1
      <4>1. q \in Int /\ n + 1 - i + 1 = q + 1
        BY <1>2, <2>2
      <4> HIDE DEF q, n, W
      <4>2. q * W \in Int /\ (q + 1) * W = q * W + W
        BY <1>1, <4>1, Costs DEF W
      <4> QED
        BY <4>1, <4>2 DEF q
    <3>3. since = then /\ then \in Int
      <4>1. times[i] \in Nat
        BY <1>2, <2>2
      <4> DEFINE d == b.last - times[i]
      <4>2. d \in Int /\ b.last - more[i] = d
        BY <1>1, <1>4, <2>2, <4>1
      <4> HIDE DEF d, B
      <4>3. d * B \in Int
        BY <1>1, <4>2, Costs DEF B
      <4> QED
        BY <4>2, <4>3 DEF d
    <3> HIDE DEF F, W, used, then, cost, since
    <3>4. a.tokens = b.tokens - W
      BY <1>3 DEF W
    <3>5. cost + a.tokens <= F + since
      BY <1>1, <3>1, <3>2, <3>3, <3>4
    <3> QED
      BY <3>5 DEF W, cost, since
  <2> QED
    BY <1>2, <2>1, <2>2
<1>7. Agrees(a, k, more)
  <2>1. a.tokens \in 0 .. F
    <3> HIDE DEF F, W
    <3> QED
      BY <1>1, <1>3 DEF W
  <2>2. IsBucket(a, k)
    BY <1>1, <1>3, <2>1 DEF IsBucket
  <2>3. Spent(a, k, more)
    BY <1>3, <1>4, <1>6 DEF Spent
  <2>4. Kept(a, k, more)
    <3>1. (a.last - more[Len(more)]) * B = 0
      BY <1>1, <1>3, <1>4, <1>5
    <3> QED
      BY <1>4, <2>1, <3>1 DEF Kept
  <2> QED
    BY <1>4, <2>2, <2>3, <2>4 DEF Agrees
<1>8. Within(more, k)
  <2> SUFFICES ASSUME NEW i \in DOMAIN more, NEW j \in DOMAIN more, i <= j
               PROVE  (j - i + 1) * W <= F + (more[j] - more[i]) * B
    BY DEF Within
  <2>1. CASE j = n + 1
    <3>1. (n + 1 - i + 1) * W + a.tokens <= F + (b.last - more[i]) * B /\ a.tokens \in Nat
      BY <1>4, <1>6, <1>7 DEF Agrees, IsBucket
    <3>2. (n + 1 - i + 1) * W \in Int /\ (b.last - more[i]) * B \in Int
      <4> DEFINE q == n + 1 - i + 1  d == b.last - more[i]
      <4>0. i \in Int /\ n \in Int /\ more[i] \in Nat /\ b.last \in Nat
        BY <1>1, <1>2, <1>4
      <4>1. q \in Int /\ d \in Int
        <5> HIDE DEF n
        <5> QED
          BY <4>0
      <4> HIDE DEF q, d, W, B
      <4>2. q * W \in Int /\ d * B \in Int
        BY <1>1, <4>1, Costs DEF W, B
      <4> QED
        BY <4>2 DEF q, d
    <3>3. more[j] = b.last
      BY <1>4, <2>1
    <3> DEFINE cost == (n + 1 - i + 1) * W  since == (b.last - more[i]) * B
    <3> HIDE DEF F, W, cost, since
    <3>4. cost <= F + since
      BY <1>1, <3>1, <3>2 DEF W, cost, since
    <3>5. j - i + 1 = n + 1 - i + 1 /\ more[j] - more[i] = b.last - more[i]
      <4>1. i \in Int /\ j \in Int /\ n \in Int /\ more[i] \in Nat /\ b.last \in Nat
        BY <1>1, <1>2, <1>4
      <4> HIDE DEF n
      <4> QED
        BY <2>1, <3>3, <4>1
    <3>6. (j - i + 1) * W = cost
      BY <3>5 DEF cost
    <3>7. (more[j] - more[i]) * B = since
      BY <3>5 DEF since
    <3> QED
      BY <3>4, <3>6, <3>7
  <2>2. CASE j # n + 1
    <3>1. i \in 1 .. n /\ j \in 1 .. n
      BY <1>2, <1>4, <2>2
    <3> QED
      BY <1>2, <1>4, <3>1 DEF Within
  <2> QED
    BY <2>1, <2>2
<1> QED
  BY <1>7, <1>8 DEF a, more

\* Who let through nothing, or nothing for the time of a line, has the price of one.
LEMMA Affords ==
    ASSUME AccessAssumption, NEW k \in RateLimitKinds, clock \in Nat,
           NEW b, NEW times, Agrees(b, k, times), b.last <= clock,
           times = <<>> \/ (clock - times[Len(times)]) * Burst[k] >= Window[k]
    PROVE  Refill(b, k).tokens >= Window[k]
<1>1. Agrees(Refill(b, k), k, times) /\ Refill(b, k).last = clock
  BY RefillAgrees
<1>2. Full(k) \in Nat /\ Window[k] \in Nat /\ Full(k) >= Window[k] /\ Refill(b, k).tokens \in Nat
  BY <1>1, Holds DEF Agrees, IsBucket
<1>3. CASE Refill(b, k).tokens = Full(k)
  BY <1>2, <1>3
<1>4. CASE times # <<>> /\ Refill(b, k).tokens >= (clock - times[Len(times)]) * Burst[k]
  <2>1. times[Len(times)] \in Nat
    BY <1>4 DEF Agrees
  <2>2. (clock - times[Len(times)]) * Burst[k] \in Int
    BY <2>1, Holds, Refilled
  <2> DEFINE since == (clock - times[Len(times)]) * Burst[k]
  <2>3. since >= Window[k] /\ Refill(b, k).tokens >= since /\ since \in Int
    BY <1>4, <2>2
  <2> HIDE DEF since
  <2> QED
    BY <1>2, <2>3
<1> QED
  BY <1>1, <1>3, <1>4 DEF Agrees, Kept

(***************************************************************************)
(* The limiter.                                                            *)
(***************************************************************************)

Limits ==
    /\ clock \in Nat
    /\ accepted \in [Nicks -> [RateLimitKinds -> Seq(Nat)]]
    /\ DOMAIN buckets \subseteq Nicks
    /\ \A n \in Nicks, k \in RateLimitKinds :
         /\ Within(accepted[n][k], k)
         /\ \A i \in DOMAIN accepted[n][k] : accepted[n][k][i] <= clock
    /\ \A n \in DOMAIN buckets :
         /\ DOMAIN buckets[n] = RateLimitKinds
         /\ \A k \in RateLimitKinds :
              /\ Agrees(buckets[n][k], k, accepted[n][k]) /\ buckets[n][k].last <= clock
              /\ \A i \in DOMAIN accepted[n][k] : accepted[n][k][i] <= buckets[n][k].last
    /\ \A n \in Nicks \ DOMAIN buckets : accepted[n] = NoLines

\* Two of the three parts of Admission.
LEMMA LimitsSuffice ==
    ASSUME AccessAssumption, Limits
    PROVE  Throttled /\ Recovers
<1>1. Throttled
  BY DEF Throttled, Limits, Within
<1>2. Recovers
  <2> SUFFICES ASSUME NEW n \in DOMAIN buckets, NEW k \in RateLimitKinds,
                      \/ accepted[n][k] = <<>>
                      \/ (clock - accepted[n][k][Len(accepted[n][k])]) * Burst[k] >= Window[k]
               PROVE  Allows(n, k)
    BY DEF Recovers
  <2>1. Agrees(buckets[n][k], k, accepted[n][k]) /\ buckets[n][k].last <= clock /\ clock \in Nat
    BY DEF Limits
  <2>2. BucketsOf(n)[k] = buckets[n][k]
    BY DEF BucketsOf
  <2>3. Refill(buckets[n][k], k).tokens >= Window[k]
    BY <2>1, Affords
  <2> QED
    BY <2>2, <2>3 DEF Allows
<1> QED
  BY <1>1, <1>2

\* What BucketsOf finds, or takes a nick to have that is not counted yet.
LEMMA BucketsAgree ==
    ASSUME AccessAssumption, Limits, NEW n \in Nicks
    PROVE  /\ DOMAIN BucketsOf(n) = RateLimitKinds
           /\ \A k \in RateLimitKinds :
                /\ Agrees(BucketsOf(n)[k], k, accepted[n][k]) /\ BucketsOf(n)[k].last <= clock
                /\ \A i \in DOMAIN accepted[n][k] : accepted[n][k][i] <= BucketsOf(n)[k].last
<1>1. CASE n \in DOMAIN buckets
  BY <1>1 DEF Limits, BucketsOf
<1>2. CASE n \notin DOMAIN buckets
  <2>1. BucketsOf(n) = FullBuckets /\ DOMAIN FullBuckets = RateLimitKinds
    BY <1>2 DEF BucketsOf, FullBuckets
  <2>2. ASSUME NEW k \in RateLimitKinds
        PROVE  /\ Agrees(BucketsOf(n)[k], k, accepted[n][k]) /\ BucketsOf(n)[k].last <= clock
               /\ \A i \in DOMAIN accepted[n][k] : accepted[n][k][i] <= BucketsOf(n)[k].last
    <3>1. accepted[n][k] = <<>> /\ clock \in Nat
      BY <1>2 DEF Limits, NoLines
    <3>2. BucketsOf(n)[k] = [tokens |-> Full(k), last |-> clock]
      BY <2>1 DEF FullBuckets
    <3>3. Agrees(BucketsOf(n)[k], k, <<>>) /\ BucketsOf(n)[k].last = clock
      BY <3>1, <3>2, FreshAgrees
    <3>4. DOMAIN <<>> = {}
      OBVIOUS
    <3> QED
      BY <3>1, <3>3, <3>4
  <2> QED
    BY <2>1, <2>2
<1> QED
  BY <1>1, <1>2

\* A line is counted, whether it is let through or not.
LEMMA CheckKeeps ==
    ASSUME AccessAssumption, Limits, NEW n \in Nicks, NEW k \in RateLimitKinds, Check(n, k), clock' = clock
    PROVE  Limits'
<1> DEFINE b == Refill(BucketsOf(n)[k], k)
           ok == Allows(n, k)
           left == IF ok THEN [b EXCEPT !.tokens = @ - Window[k]] ELSE b
           times == accepted[n][k]
           now == IF ok THEN Append(times, clock) ELSE times
<1>1. clock \in Nat /\ accepted \in [Nicks -> [RateLimitKinds -> Seq(Nat)]] /\ DOMAIN buckets \subseteq Nicks
  BY DEF Limits
<1>2. Agrees(b, k, times) /\ b.last = clock /\ \A i \in DOMAIN times : times[i] <= clock
  <2>1. Agrees(BucketsOf(n)[k], k, times) /\ BucketsOf(n)[k].last <= clock
    BY BucketsAgree
  <2>2. Agrees(b, k, times) /\ b.last = clock
    BY <1>1, <2>1, RefillAgrees
  <2> QED
    BY <2>2 DEF Limits
<1>3. ok = (b.tokens >= Window[k])
  BY DEF Allows
<1>4. buckets' = [m \in DOMAIN buckets \cup {n} |->
                    IF m = n THEN [BucketsOf(n) EXCEPT ![k] = left] ELSE buckets[m]]
  BY DEF Check
<1>5. accepted' = [accepted EXCEPT ![n] = [accepted[n] EXCEPT ![k] = now]]
  <2>1. CASE ok
    BY <2>1 DEF Check
  <2>2. CASE ~ok
    BY <1>1, <2>2 DEF Check
  <2> QED
    BY <2>1, <2>2
<1>6. Within(times, k)
  BY DEF Limits
<1>7. Agrees(left, k, now) /\ left.last = clock /\ Within(now, k)
  <2>1. CASE ok
    <3>1. b.tokens >= Window[k]
      BY <1>3, <2>1
    <3>2. /\ Agrees([b EXCEPT !.tokens = @ - Window[k]], k, Append(times, b.last))
          /\ Within(Append(times, b.last), k)
      <4> HIDE DEF b, times
      <4> QED
        BY <1>2, <1>6, <3>1, TakeAgrees
    <3>3. left = [b EXCEPT !.tokens = @ - Window[k]] /\ now = Append(times, b.last)
      BY <1>2, <2>1
    <3>4. [b EXCEPT !.tokens = @ - Window[k]].last = b.last
      BY <1>2 DEF Agrees, IsBucket
    <3> HIDE DEF b, left, now, times
    <3> QED
      BY <1>2, <3>2, <3>3, <3>4
  <2>2. CASE ~ok
    <3>1. left = b /\ now = times
      BY <2>2
    <3> HIDE DEF b, left, now, times
    <3> QED
      BY <1>2, <1>6, <3>1
  <2> QED
    BY <2>1, <2>2
<1>8. now \in Seq(Nat) /\ \A i \in DOMAIN now : now[i] <= clock
  <2>1. times \in Seq(Nat)
    BY <1>1
  <2> HIDE DEF times
  <2>2. CASE ok
    BY <1>1, <1>2, <2>1, <2>2
  <2>3. CASE ~ok
    BY <1>1, <1>2, <2>1, <2>3
  <2> QED
    BY <2>2, <2>3
<1> HIDE DEF left, now, b, ok
<1>9. /\ accepted' \in [Nicks -> [RateLimitKinds -> Seq(Nat)]] /\ accepted'[n][k] = now
      /\ \A j \in RateLimitKinds \ {k} : accepted'[n][j] = accepted[n][j]
      /\ \A m \in Nicks \ {n} : accepted'[m] = accepted[m]
  BY <1>1, <1>5, <1>8
<1>10. /\ DOMAIN buckets' = DOMAIN buckets \cup {n}
       /\ DOMAIN buckets'[n] = RateLimitKinds /\ buckets'[n][k] = left
       /\ \A j \in RateLimitKinds \ {k} : buckets'[n][j] = BucketsOf(n)[j]
       /\ \A m \in DOMAIN buckets \ {n} : buckets'[m] = buckets[m]
  BY <1>4, BucketsAgree
<1>11. ASSUME NEW m \in Nicks, NEW j \in RateLimitKinds
       PROVE  /\ Within(accepted'[m][j], j)
              /\ \A i \in DOMAIN accepted'[m][j] : accepted'[m][j][i] <= clock
  <2>1. CASE m = n /\ j = k
    BY <1>7, <1>8, <1>9, <2>1
  <2>2. CASE ~(m = n /\ j = k)
    <3>1. accepted'[m][j] = accepted[m][j]
      BY <1>9, <2>2
    <3> QED
      BY <3>1 DEF Limits
  <2> QED
    BY <2>1, <2>2
<1>12. ASSUME NEW m \in DOMAIN buckets', NEW j \in RateLimitKinds
       PROVE  /\ DOMAIN buckets'[m] = RateLimitKinds
              /\ Agrees(buckets'[m][j], j, accepted'[m][j]) /\ buckets'[m][j].last <= clock
              /\ \A i \in DOMAIN accepted'[m][j] : accepted'[m][j][i] <= buckets'[m][j].last
  <2>1. CASE m = n /\ j = k
    BY <1>1, <1>7, <1>8, <1>9, <1>10, <2>1
  <2>2. CASE m = n /\ j # k
    BY <1>9, <1>10, <2>2, BucketsAgree
  <2>3. CASE m # n
    <3>1. m \in DOMAIN buckets /\ buckets'[m] = buckets[m] /\ accepted'[m] = accepted[m]
      BY <1>1, <1>9, <1>10, <2>3
    <3> QED
      BY <3>1 DEF Limits
  <2> QED
    BY <2>1, <2>2, <2>3
<1>13. \A m \in DOMAIN buckets' : DOMAIN buckets'[m] = RateLimitKinds
  <2>1. "command" \in RateLimitKinds
    BY DEF RateLimitKinds
  <2> QED
    BY <1>12, <2>1
<1>14. \A m \in Nicks \ DOMAIN buckets' : accepted'[m] = NoLines
  BY <1>9, <1>10 DEF Limits
<1>15. NoLines' = NoLines
  BY DEF NoLines
<1> QED
  BY <1>1, <1>9, <1>10, <1>11, <1>12, <1>13, <1>14 DEF Limits, NoLines

\* Who leaves is forgotten, bucket and all.
LEMMA ForgetKeeps ==
    ASSUME AccessAssumption, Limits, NEW n \in Nicks, Forget(n), clock' = clock
    PROVE  Limits'
<1>1. /\ DOMAIN buckets' = DOMAIN buckets \ {n}
      /\ \A m \in DOMAIN buckets' : buckets'[m] = buckets[m]
      /\ accepted' = [accepted EXCEPT ![n] = NoLines]
  BY DEF Forget
<1>2. NoLines \in [RateLimitKinds -> Seq(Nat)] /\ \A k \in RateLimitKinds : NoLines[k] = <<>>
  BY DEF NoLines
<1>3. /\ accepted' \in [Nicks -> [RateLimitKinds -> Seq(Nat)]] /\ accepted'[n] = NoLines
      /\ \A m \in Nicks \ {n} : accepted'[m] = accepted[m]
  BY <1>1, <1>2 DEF Limits
<1>4. \A k : Within(<<>>, k)
  <2>1. DOMAIN <<>> = {}
    OBVIOUS
  <2> QED
    BY <2>1 DEF Within
<1>5. DOMAIN <<>> = {}
  OBVIOUS
<1>6. ASSUME NEW m \in Nicks, NEW k \in RateLimitKinds
      PROVE  /\ Within(accepted'[m][k], k)
             /\ \A i \in DOMAIN accepted'[m][k] : accepted'[m][k][i] <= clock
  <2>1. CASE m = n
    BY <1>2, <1>3, <1>4, <1>5, <2>1
  <2>2. CASE m # n
    BY <1>3, <2>2 DEF Limits
  <2> QED
    BY <2>1, <2>2
<1>7. ASSUME NEW m \in DOMAIN buckets'
      PROVE  buckets'[m] = buckets[m] /\ accepted'[m] = accepted[m] /\ m \in DOMAIN buckets
  BY <1>1, <1>3 DEF Limits
<1> QED
  BY <1>1, <1>3, <1>6, <1>7 DEF Limits, NoLines

\* Time goes on, or something is done that is not counted.
LEMMA OthersKeep ==
    ASSUME Limits, UNCHANGED <<accepted, buckets>>, clock' \in Nat, clock' >= clock
    PROVE  Limits'
<1>1. \A x, y, z \in Nat : x <= y /\ y <= z => x <= z
  OBVIOUS
<1>2. \A n \in Nicks, k \in RateLimitKinds : \A i \in DOMAIN accepted[n][k] :
        accepted[n][k][i] \in Nat /\ accepted[n][k][i] <= clock'
  BY DEF Limits
<1>3. \A n \in DOMAIN buckets, k \in RateLimitKinds :
        buckets[n][k].last \in Nat /\ buckets[n][k].last <= clock'
  <2> SUFFICES ASSUME NEW n \in DOMAIN buckets, NEW k \in RateLimitKinds
               PROVE  buckets[n][k].last \in Nat /\ buckets[n][k].last <= clock'
    OBVIOUS
  <2>1. Agrees(buckets[n][k], k, accepted[n][k]) /\ buckets[n][k].last <= clock /\ clock \in Nat
    BY DEF Limits
  <2>2. buckets[n][k].last \in Nat
    BY <2>1 DEF Agrees, IsBucket
  <2> QED
    BY <1>1, <2>1, <2>2
<1> QED
  BY <1>2, <1>3 DEF Limits, NoLines

(***************************************************************************)
(* Who is in.                                                              *)
(***************************************************************************)

\* What Proven says of one nick.
HasProven(n) ==
    /\ \A m \in Nicks \ {n} : seat[m] # seat[n]
    /\ policy.require_auth =>
         /\ shown[n] \in Secrets
         /\ shown[n] = ExpectedToken(seat[n])
         /\ n \in DOMAIN policy.identity_bindings => policy.identity_bindings[n] = seat[n]
    /\ policy.require_account_tag => account[n] \in Accounts
    /\ n \in DOMAIN policy.account_bindings => account[n] = policy.account_bindings[n]

\* Nobody is in before the world is open, and it is opened once.
Seated ==
    /\ DOMAIN seat = Nicks /\ DOMAIN shown = Nicks /\ DOMAIN account = Nicks
    /\ policy = Nobody => \A n \in Nicks : seat[n] = Nobody
    /\ \A n \in Nicks : seat[n] # Nobody => HasProven(n)

\* Nothing that concerns who is in is touched.
LEMMA SeatedSame ==
    ASSUME Seated, UNCHANGED <<players, policy, seat, shown, account>>
    PROVE  Seated'
BY DEF Seated, HasProven, ExpectedToken

\* Who leaves is in no longer; for the others it is as before.
LEMMA LeaveSeated ==
    ASSUME Seated, NEW n \in Nicks, Leave(n), UNCHANGED <<players, policy>>
    PROVE  Seated'
<1>1. /\ seat' = [seat EXCEPT ![n] = Nobody] /\ shown' = [shown EXCEPT ![n] = Nobody]
      /\ account' = [account EXCEPT ![n] = Nobody]
  BY DEF Leave
<1>2. /\ DOMAIN seat' = Nicks /\ DOMAIN shown' = Nicks /\ DOMAIN account' = Nicks /\ seat'[n] = Nobody
      /\ \A m \in Nicks \ {n} : seat'[m] = seat[m] /\ shown'[m] = shown[m] /\ account'[m] = account[m]
  BY <1>1 DEF Seated
<1>3. policy' = Nobody => \A m \in Nicks : seat'[m] = Nobody
  BY <1>2 DEF Seated
<1>4. ASSUME NEW m \in Nicks, seat'[m] # Nobody
      PROVE  HasProven(m)'
  <2>1. m # n /\ HasProven(m) /\ seat'[m] = seat[m] /\ shown'[m] = shown[m] /\ account'[m] = account[m]
    BY <1>2, <1>4 DEF Seated
  <2>2. \A o \in Nicks \ {m} : seat'[o] # seat'[m]
    BY <1>2, <1>4, <2>1 DEF HasProven
  <2>3. ExpectedToken(seat[m])' = ExpectedToken(seat[m])
    BY <1>2, <2>1 DEF ExpectedToken
  <2> QED
    BY <2>1, <2>2, <2>3 DEF HasProven, ExpectedToken
<1> QED
  BY <1>2, <1>3, <1>4 DEF Seated

\* A login seats one who may have the seat, or no one.
LEMMA LoginSeated ==
    ASSUME AccessAssumption, Seated, policy # Nobody, NEW n \in Nicks, NEW who, NEW token \in Secrets \cup {Nobody},
           NEW a \in Tags, Identified(n, a), Login(n, who, token, a)
    PROVE  Seated'
<1>1. UNCHANGED <<players, policy>>
  BY DEF Login
<1>2. CASE UNCHANGED <<seat, shown, account>>
  BY <1>1, <1>2, SeatedSame
<1>3. ASSUME NEW p, VerifyLogin(n, p, token), \A m \in Nicks : seat[m] # p,
             seat' = [seat EXCEPT ![n] = p], shown' = [shown EXCEPT ![n] = token],
             account' = [account EXCEPT ![n] = a]
      PROVE  Seated'
  <2>1. /\ DOMAIN seat' = Nicks /\ DOMAIN shown' = Nicks /\ DOMAIN account' = Nicks
        /\ seat'[n] = p /\ shown'[n] = token /\ account'[n] = a
        /\ \A m \in Nicks \ {n} : seat'[m] = seat[m] /\ shown'[m] = shown[m] /\ account'[m] = account[m]
    BY <1>3 DEF Seated
  <2>2. HasProven(n)'
    <3>1. \A m \in Nicks \ {n} : seat'[m] # seat'[n]
      BY <1>3, <2>1
    <3>2. ASSUME policy.require_auth
          PROVE  /\ token \in Secrets /\ token = ExpectedToken(p)
                 /\ n \in DOMAIN policy.identity_bindings => policy.identity_bindings[n] = p
      BY <1>3, <3>2 DEF VerifyLogin, MayClaim
    <3>3. policy.require_account_tag => a \in Accounts
      BY DEF Identified, Tags
    <3>4. n \in DOMAIN policy.account_bindings => a = policy.account_bindings[n]
      BY DEF Identified
    <3>5. ExpectedToken(seat[n])' = ExpectedToken(p)
      BY <1>1, <2>1 DEF ExpectedToken
    <3> QED
      BY <1>1, <2>1, <3>1, <3>2, <3>3, <3>4, <3>5 DEF HasProven
  <2>3. ASSUME NEW m \in Nicks \ {n}, seat'[m] # Nobody
        PROVE  HasProven(m)'
    <3>1. HasProven(m) /\ seat'[m] = seat[m] /\ shown'[m] = shown[m] /\ account'[m] = account[m]
      BY <2>1, <2>3 DEF Seated
    <3>2. \A o \in Nicks \ {m} : seat'[o] # seat'[m]
      BY <1>3, <2>1, <3>1 DEF HasProven
    <3>3. ExpectedToken(seat[m])' = ExpectedToken(seat[m])
      BY <1>1, <3>1 DEF ExpectedToken
    <3> QED
      BY <1>1, <3>1, <3>2, <3>3 DEF HasProven
  <2> QED
    BY <1>1, <2>1, <2>2, <2>3 DEF Seated
<1> QED
  BY <1>2, <1>3 DEF Login

(***************************************************************************)
(* The steps.                                                              *)
(***************************************************************************)

Admitted ==
    /\ Limits /\ Seated
    /\ policy # Nobody => loading.at = "serving"

LEMMA AdmittedSuffices ==
    ASSUME AccessAssumption, Admitted
    PROVE  Admission
BY LimitsSuffice DEF Admitted, Admission, Proven, Seated, HasProven

LEMMA InitAdmitted ==
    ASSUME AccessAssumption, AccessInit
    PROVE  Admitted
<1>1. DOMAIN <<>> = {} /\ <<>> \in Seq(Nat)
  OBVIOUS
<1>2. NoLines \in [RateLimitKinds -> Seq(Nat)] /\ \A k \in RateLimitKinds : NoLines[k] = <<>>
  BY <1>1 DEF NoLines
<1>3. \A k : Within(<<>>, k)
  BY <1>1 DEF Within
<1>4. DOMAIN buckets = {}
  BY DEF AccessInit
<1>5. accepted \in [Nicks -> [RateLimitKinds -> Seq(Nat)]] /\ \A n \in Nicks : accepted[n] = NoLines
  BY <1>2 DEF AccessInit
<1>6. \A n \in Nicks, k \in RateLimitKinds : accepted[n][k] = <<>>
  BY <1>2, <1>5
<1>7. Limits
  BY <1>1, <1>3, <1>4, <1>5, <1>6 DEF Limits, AccessInit
<1>8. Seated
  BY DEF Seated, AccessInit
<1> QED
  BY <1>7, <1>8 DEF Admitted, AccessInit

\* A line of a nick, and the end of its connection.
LEMMA LineKeeps ==
    ASSUME AccessAssumption, Admitted, AccessNext
    PROVE  Limits' /\ Seated' /\ policy' = policy /\ policy # Nobody
<1> USE DEF Admitted
<1>0. "command" \in RateLimitKinds /\ "movement" \in RateLimitKinds /\ "ooc" \in RateLimitKinds
  BY DEF RateLimitKinds
<1>1. CASE Second
  <2>1. clock \in Nat /\ clock' \in Nat /\ clock' >= clock
    BY <1>1 DEF Second, Limits
  <2> QED
    BY <1>1, <2>1, OthersKeep, SeatedSame DEF Second
<1>2. ASSUME NEW n \in Nicks, policy # Nobody, NEW a \in Tags, Identified(n, a),
             NEW who, NEW token \in Secrets \cup {Nobody}, Login(n, who, token, a)
      PROVE  Limits' /\ Seated' /\ policy' = policy
  <2>1. Check(n, "command") /\ clock' = clock /\ policy' = policy
    BY <1>2 DEF Login
  <2>2. Limits'
    BY <1>0, <2>1, CheckKeeps
  <2>3. Seated'
    BY <1>2, LoginSeated
  <2> QED
    BY <2>1, <2>2, <2>3
<1>3. ASSUME NEW n \in Nicks, NEW k \in RateLimitKinds, Check(n, k),
             UNCHANGED <<players, policy, seat, shown, account, clock>>
      PROVE  Limits' /\ Seated' /\ policy' = policy
  BY <1>3, CheckKeeps, SeatedSame
<1>4. ASSUME NEW n \in Nicks, Leave(n), UNCHANGED <<players, policy, clock>>
      PROVE  Limits' /\ Seated' /\ policy' = policy
  <2>1. Forget(n)
    BY <1>4 DEF Leave
  <2> QED
    BY <1>4, <2>1, ForgetKeeps, LeaveSeated
<1>5. ASSUME NEW n \in Nicks, NEW verb, Command(n, verb) \/ Go(n, verb)
      PROVE  Limits' /\ Seated' /\ policy' = policy
  BY <1>0, <1>3, <1>5 DEF Command, Go
<1>6. ASSUME NEW n \in Nicks, WorldOoc(n) \/ Quit(n) \/ Disconnect(n)
      PROVE  Limits' /\ Seated' /\ policy' = policy
  <2>1. CASE WorldOoc(n)
    BY <1>0, <1>3, <2>1 DEF WorldOoc
  <2>2. CASE Quit(n)
    BY <1>0, <1>3, <1>4, <2>2 DEF Quit
  <2>3. CASE Disconnect(n)
    BY <1>4, <2>3 DEF Disconnect
  <2> QED
    BY <1>6, <2>1, <2>2, <2>3
<1>7. CASE ~Second
  <2>1. PICK n \in Nicks :
          /\ policy # Nobody
          /\ \/ \E a \in Tags :
                  /\ Identified(n, a)
                  /\ \/ \E who \in DOMAIN players \cup {Nobody}, token \in Secrets \cup {Nobody} :
                          Login(n, who, token, a)
                     \/ \E verb \in Verbs : Command(n, verb) \/ Go(n, verb)
                     \/ WorldOoc(n) \/ Quit(n)
             \/ Disconnect(n)
    BY <1>7 DEF AccessNext
  <2>2. CASE \E a \in Tags : Identified(n, a) /\ \E who \in DOMAIN players \cup {Nobody},
                token \in Secrets \cup {Nobody} : Login(n, who, token, a)
    BY <1>2, <2>1, <2>2
  <2>3. CASE \E verb \in Verbs : Command(n, verb) \/ Go(n, verb)
    BY <1>5, <2>1, <2>3
  <2>4. CASE WorldOoc(n) \/ Quit(n) \/ Disconnect(n)
    BY <1>6, <2>1, <2>4
  <2> QED
    BY <2>1, <2>2, <2>3, <2>4
<1>8. policy # Nobody
  BY DEF AccessNext, Second
<1> QED
  BY <1>1, <1>7, <1>8 DEF Second

\* The world is opened to its players.
LEMMA ServeKeeps ==
    ASSUME Admitted, Serve
    PROVE  Admitted'
<1>1. policy = Nobody
  BY DEF Admitted, Serve
<1>2. UNCHANGED <<seat, shown, account, buckets, clock, accepted>>
  BY DEF Serve, OpenSessions
<1>3. Limits'
  <2>1. clock \in Nat
    BY DEF Admitted, Limits
  <2>2. clock' \in Nat /\ clock' >= clock
    BY <1>2, <2>1
  <2> QED
    BY <1>2, <2>2, OthersKeep DEF Admitted
<1>4. Seated'
  BY <1>1, <1>2 DEF Admitted, Seated
<1>5. loading'.at = "serving"
  BY DEF Serve, StartLoading
<1> QED
  BY <1>3, <1>4, <1>5 DEF Admitted

LEMMA NextAdmitted ==
    ASSUME AccessAssumption, Admitted, [Next]_vars
    PROVE  Admitted'
<1>1. ASSUME UNCHANGED accessVars
      PROVE  Limits' /\ Seated'
  <2>1. clock \in Nat
    BY DEF Admitted, Limits
  <2>2. clock' \in Nat /\ clock' >= clock
    BY <1>1, <2>1 DEF accessVars
  <2> QED
    BY <1>1, <2>2, OthersKeep, SeatedSame DEF Admitted, accessVars
\* The loader is done when the world is open.
<1>2. CASE LoaderNext /\ UNCHANGED <<bootVars, accessVars>>
  <2>1. loading.at # "serving"
    BY <1>2 DEF LoaderNext, IncludeWorld, Expand, ReadWorld, ChooseWorld
  <2>2. policy' = Nobody
    BY <1>2, <2>1 DEF Admitted, accessVars
  <2> QED
    BY <1>1, <1>2, <2>2 DEF Admitted
<1>3. CASE BootNext /\ UNCHANGED <<loaderVars, accessVars>>
  BY <1>1, <1>3 DEF Admitted, loaderVars, accessVars
<1>4. CASE Serve
  BY <1>4, ServeKeeps
<1>5. CASE AccessNext /\ UNCHANGED <<loaderVars, bootVars>>
  BY <1>5, LineKeeps DEF Admitted, loaderVars
<1>6. CASE UNCHANGED vars
  BY <1>1, <1>6 DEF Admitted, vars, loaderVars, accessVars
<1> QED
  BY <1>2, <1>3, <1>4, <1>5, <1>6 DEF Next

\* Whoever is in has proven who it is; no nick is let through more often than
\* a burst and what time has refilled, and none is shut out for longer than
\* one line takes.
THEOREM AdmissionHolds == Spec => []Admission
<1>1. AccessAssumption
  BY AccessAssumption
<1>2. Init => Admitted
  BY <1>1, InitAdmitted DEF Init
<1>3. Admitted /\ [Next]_vars => Admitted'
  BY <1>1, NextAdmitted
<1>4. Admitted => Admission
  BY <1>1, AdmittedSuffices
<1> QED
  BY <1>2, <1>3, <1>4, PTL DEF Spec

(***************************************************************************)
(* The invariant.                                                          *)
(***************************************************************************)

\* What o refers to is among D, or nothing.
Sound(o, D) ==
    /\ \A k \in Links : k \in DOMAIN o => o[k] \in D \cup {Nil}
    /\ "contents" \in DOMAIN o => o["contents"] \in Seq(D \cup {Nil})
    /\ "exits" \in DOMAIN o => \A d \in DOMAIN o["exits"] : o["exits"][d] \in D \cup {Nil}
Grounded(row, D) ==
    /\ "props" \in DOMAIN row
    /\ row.at \in D \cup {Nil} /\ row.proto \in D \cup {Nil} /\ Sound(row.props, D)

\* A number that was taken is not taken again.
Numbered(id, next) ==
    id[1] \in {"player", "area", "room", "item"} => id[3] \in Int /\ id[3] < Get(next, <<id[1], id[2]>>, 1)

RowsFine == \A id \in DOMAIN rows : Grounded(rows[id], DOMAIN rows)
NumbersFine ==
    /\ \A k \in DOMAIN counters : counters[k] \in Nat
    /\ \A id \in DOMAIN rows \ DOMAIN Residents : loading.at # "serving" => Numbered(id, counters)

\* What the start holds by name is there.
NamesFine ==
    /\ \A n \in DOMAIN boot.names : boot.names[n] \in DOMAIN rows
    /\ \A n \in DOMAIN boot.protos : boot.protos[n] \in DOMAIN rows
    /\ \A n \in DOMAIN boot.placed : boot.placed[n] \in DOMAIN rows

\* What is being made has its number, and after its shell its row.
Making == {"places", "prototypes", "items"}
StageFine ==
    /\ boot.i \in Nat /\ (boot.at = "start" => boot.i = 1)
    /\ boot.stage \in {"number", "shell", "commit", "hang", "finish"}
    /\ boot.stage = "number" \/ boot.at = "npcs" => boot.held = Nil
    /\ boot.stage # "number" => boot.at \in Making \cup {"npcs", "admin", "ready"}
    /\ boot.at = "ready" => boot.stage # "shell"
    /\ boot.stage # "number" /\ boot.at \in Making \cup {"npcs"} => boot.i \in DOMAIN Definitions
    /\ boot.at = "npcs" => boot.stage \in {"number", "commit"}
    /\ boot.stage # "number" /\ boot.at \in Making \cup {"admin"} => Numbered(boot.held, counters)
    /\ boot.at # "npcs" /\ boot.stage \in {"commit", "hang", "finish"} => boot.held \in DOMAIN rows
    /\ boot.stage # "number" /\ boot.at = "items" => Field(Def, "location", "") \in DOMAIN boot.placed

\* What was passed in the lists of places and of creatures is there.
PassedFine ==
    /\ boot.at = "places" =>
         \A j \in DOMAIN Places : j \in 1 .. boot.i - 1 => Places[j].name \in DOMAIN boot.names
    /\ boot.at = "links" => \A j \in DOMAIN Places : Places[j].name \in DOMAIN boot.names
    /\ boot.at = "npcs" =>
         \A j \in DOMAIN Npcs : j \in 1 .. boot.i - 1 => NpcId(Npcs[j]) \in DOMAIN rows
    /\ boot.at = "spawners" => \A j \in DOMAIN Npcs : NpcId(Npcs[j]) \in DOMAIN rows

\* The world is made when it was read.
PhaseFine ==
    /\ boot.at \in {"start", "places", "links", "check", "prototypes", "items", "npcs", "spawners", "loot",
                    "resources", "schedules", "admin", "done", "ready", "serving"}
    /\ boot.at \notin {"start", "serving"} => loading.at = "loaded"
    /\ boot.at = "serving" => loading.at = "serving" /\ stops = MaxStops
    /\ stops \in 0 .. MaxStops /\ whole \in BOOLEAN
    /\ DOMAIN boot = DOMAIN Starting

\* The files of a world are files there are.
FilesFine ==
    /\ loading.at \in {"universe", "expand", "loaded", "failed", "serving"}
    /\ loading.sources \in Seq(DOMAIN text) /\ loading.visited \subseteq DOMAIN text
    /\ loading.stack \in Seq([file : DOMAIN text, line : Nat])
    /\ DOMAIN loading = DOMAIN StartLoading

MadeFine == RowsFine /\ NumbersFine /\ NamesFine /\ StageFine /\ PassedFine /\ PhaseFine

(***************************************************************************)
(* Maps that are laid over each other, and what they refer to.             *)
(***************************************************************************)

LEMMA NothingDown == DOMAIN Empty = {}
BY DEF Empty

\* The keys under which an object refers to others.
RefKeys == Links \cup {"contents", "exits"}
\* o refers to nothing.
Bare(o) == \A k \in RefKeys : k \in DOMAIN o => k = "contents" /\ o[k] = <<>>

LEMMA BareLaid ==
    ASSUME NEW a, NEW b, Bare(a), Bare(b)
    PROVE  Bare(a ++ b)
BY DEF ++, Bare

LEMMA BareNothing == Bare(Empty)
BY NothingDown DEF Bare

LEMMA BareWhen ==
    ASSUME NEW c, NEW r, Bare(r)
    PROVE  Bare(When(c, r))
BY BareNothing DEF When

\* It does when it has none of these keys.
LEMMA BareKeys ==
    ASSUME NEW o, DOMAIN o \cap RefKeys = {}
    PROVE  Bare(o)
BY DEF Bare

LEMMA BareSet ==
    ASSUME NEW o, NEW r, Bare(o), Bare(r)
    PROVE  Bare(Set(o, r)) /\ Bare(Unset(o, r))
BY BareLaid DEF Set, Unset

LEMMA SoundBare ==
    ASSUME NEW o, NEW D, Bare(o)
    PROVE  Sound(o, D)
<1>1. Links \subseteq RefKeys /\ "contents" \in RefKeys /\ "exits" \in RefKeys /\ "contents" \notin Links
  BY DEF RefKeys, Links
<1>2. <<>> \in Seq(D \cup {Nil})
  OBVIOUS
<1> QED
  BY <1>1, <1>2 DEF Sound, Bare

\* A map whose keys of others are links to what is there.
LEMMA SoundLinks ==
    ASSUME NEW o, NEW D, \A k \in DOMAIN o \cap RefKeys : k \in Links /\ o[k] \in D \cup {Nil}
    PROVE  Sound(o, D)
<1>1. Links \subseteq RefKeys /\ "contents" \in RefKeys /\ "exits" \in RefKeys
      /\ "contents" \notin Links /\ "exits" \notin Links
  BY DEF RefKeys, Links
<1> QED
  BY <1>1 DEF Sound

LEMMA SoundLaid ==
    ASSUME NEW a, NEW b, NEW D, Sound(a, D), Sound(b, D)
    PROVE  Sound(a ++ b, D)
BY DEF ++, Sound

LEMMA SoundSet ==
    ASSUME NEW o, NEW r, NEW D, Sound(o, D), Sound(r, D)
    PROVE  Sound(Set(o, r), D)
BY SoundLaid DEF Set

\* More may be there.
LEMMA SoundMore ==
    ASSUME NEW o, NEW D, NEW E, Sound(o, D), D \subseteq E
    PROVE  Sound(o, E)
<1>1. ASSUME NEW s \in Seq(D \cup {Nil}) PROVE s \in Seq(E \cup {Nil})
  BY <1>1
<1> QED
  BY <1>1 DEF Sound

LEMMA GroundedMore ==
    ASSUME NEW row, NEW D, NEW E, Grounded(row, D), D \subseteq E
    PROVE  Grounded(row, E)
BY SoundMore DEF Grounded

LEMMA GroundedRow ==
    ASSUME NEW at, NEW proto, NEW triggers, NEW props, NEW D,
           at \in D \cup {Nil}, proto \in D \cup {Nil}, Sound(props, D)
    PROVE  Grounded(Row(at, proto, triggers, props), D)
BY DEF Grounded, Row

LEMMA GroundedProps ==
    ASSUME NEW row, NEW D, Grounded(row, D), NEW props, Sound(props, D)
    PROVE  Grounded([row EXCEPT !.props = props], D)
BY DEF Grounded

\* What NothingDangles says of a row.
LEMMA GroundedRefs ==
    ASSUME NEW row, NEW D, Grounded(row, D)
    PROVE  Refs(row) \ {Nil} \subseteq D
<1> DEFINE exits == Get(row.props, "exits", Empty)  contents == Get(row.props, "contents", <<>>)
<1>1. ToSet(contents) \subseteq D \cup {Nil}
  <2>1. contents \in Seq(D \cup {Nil})
    <3>1. <<>> \in Seq(D \cup {Nil})
      OBVIOUS
    <3> QED
      BY <3>1 DEF Grounded, Sound, Get, Has
  <2> HIDE DEF contents
  <2> QED
    BY <2>1 DEF ToSet
<1>2. \A d \in DOMAIN exits : exits[d] \in D \cup {Nil}
  BY NothingDown DEF Grounded, Sound, Get, Has
<1>3. \A k \in Links : Get(row.props, k, Nil) \in D \cup {Nil}
  BY DEF Grounded, Sound, Get, Has
<1> HIDE DEF exits, contents
<1> QED
  BY <1>1, <1>2, <1>3 DEF Grounded, Refs, exits, contents

(***************************************************************************)
(* What things are made into by Roles refers to nothing.                   *)
(***************************************************************************)

LEMMA BareCopied ==
    ASSUME NEW b, NEW names, \A f \in DOMAIN names : names[f] \notin RefKeys
    PROVE  Bare(Copied(b, names))
BY BareKeys DEF Copied

LEMMA BareLock ==
    ASSUME NEW lock_id, NEW locked, NEW consumable
    PROVE  Bare(Lock(lock_id, locked, consumable))
<1>1. Bare([lock_id |-> lock_id, is_locked |-> locked])
  BY BareKeys DEF RefKeys, Links
<1>2. Bare([lock_consumable |-> "true"])
  BY BareKeys DEF RefKeys, Links
<1> QED
  BY <1>1, <1>2, BareNothing, BareWhen, BareLaid DEF Lock

LEMMA BarePortal ==
    ASSUME NEW o, NEW kind, NEW b, Bare(o)
    PROVE  Bare(ApplyPortalRole(o, kind, b))
<1> DEFINE own(f, k, d) == Field(b, f, Get(o, k, d))
           always ==
             [is_portal |-> "true", portal_kind |-> kind,
              door_direction |-> own("door_direction", "door_direction", "in"),
              door_destination_base |-> own("door_destination", "door_destination_base", ""),
              is_open |-> own("is_open", "is_open", "false"),
              portal_passable |-> Field(b, "portal_passable", IF kind = "window" THEN "false" ELSE "true"),
              portal_transparent |-> Field(b, "portal_transparent", IF kind = "window" THEN "true" ELSE "false"),
              is_pocketable |-> "false"]
           lock == Lock(own("lock_id", "lock_id", ""), own("locked", "is_locked", "false"),
                        own("lock_consumable", "lock_consumable", "false"))
           size == CASE kind = "window" -> [weight |-> 2, volume |-> 1]
                     [] kind = "door" -> [weight |-> 5, volume |-> 4]
                     [] OTHER -> [weight |-> 1, volume |-> 1]
           door == When(kind = "door", [is_door |-> "true"])
           window == When(kind = "window", [is_window |-> "true"])
<1>1. Bare(always)
  BY BareKeys DEF RefKeys, Links
<1>2. Bare(door) /\ Bare(window)
  <2>1. Bare([is_door |-> "true"]) /\ Bare([is_window |-> "true"])
    BY BareKeys DEF RefKeys, Links
  <2> QED
    BY <2>1, BareWhen
<1>3. Bare(lock)
  BY BareLock
<1>4. Bare(size)
  BY BareKeys DEF RefKeys, Links
<1>5. ApplyPortalRole(o, kind, b) = Unset(Set(o, always ++ door ++ window ++ lock), size)
  BY DEF ApplyPortalRole
<1> HIDE DEF always, lock, size, door, window
<1> QED
  BY <1>1, <1>2, <1>3, <1>4, <1>5, BareLaid, BareSet

LEMMA BareContainer ==
    ASSUME NEW o, NEW b, Bare(o)
    PROVE  Bare(ApplyContainerRole(o, b))
<1> DEFINE always ==
             [is_container |-> "true", capacity |-> Field(b, "capacity", 10), contents |-> <<>>,
              is_wearable |-> Field(b, "is_wearable", "false"), is_pocketable |-> "false",
              is_open |-> Field(b, "is_open", "true")]
           worn == When(Field(b, "is_wearable", "false") = "true", [wear_slot |-> Field(b, "wear_slot", "torso")])
           lock == Lock(Field(b, "lock_id", ""), Field(b, "locked", "false"), Field(b, "lock_consumable", "false"))
           limits == Copied(b, [max_weight |-> "max_weight", max_volume |-> "max_volume",
                                allowed_types |-> "allowed_types"])
           size == [weight |-> 1, volume |-> 1]
<1>1. Bare(always)
  BY DEF Bare, RefKeys, Links
<1>2. Bare(worn)
  <2>1. Bare([wear_slot |-> Field(b, "wear_slot", "torso")])
    BY BareKeys DEF RefKeys, Links
  <2> QED
    BY <2>1, BareWhen
<1>3. Bare(lock)
  BY BareLock
<1>4. Bare(limits)
  BY BareCopied DEF RefKeys, Links
<1>5. Bare(size)
  BY BareKeys DEF RefKeys, Links
<1>6. ApplyContainerRole(o, b) = Unset(Set(o, always ++ worn ++ lock ++ limits), size)
  BY DEF ApplyContainerRole
<1> HIDE DEF always, worn, lock, limits, size
<1> QED
  BY <1>1, <1>2, <1>3, <1>4, <1>5, <1>6, BareLaid, BareSet

LEMMA BareItemPhys ==
    ASSUME NEW o, NEW b, Bare(o)
    PROVE  Bare(ApplyItemPhys(o, b))
<1> DEFINE said == [weight |-> Field(b, "weight", 1), volume |-> Field(b, "volume", 1),
                    is_pocketable |-> Field(b, "pocketable", "true")]
           p == Set(o, said)
           holds == When(~IsContainer(p), [is_container |-> "false"])
           worn == When(~Is(p, "is_wearable"), [is_wearable |-> "false"])
<1>1. Bare(said)
  BY BareKeys DEF RefKeys, Links
<1>2. Bare(holds) /\ Bare(worn)
  <2>1. Bare([is_container |-> "false"]) /\ Bare([is_wearable |-> "false"])
    BY BareKeys DEF RefKeys, Links
  <2> QED
    BY <2>1, BareWhen
<1>3. ApplyItemPhys(o, b) = Set(p, holds ++ worn)
  BY DEF ApplyItemPhys
<1> HIDE DEF said, holds, worn
<1> QED
  BY <1>1, <1>2, <1>3, BareLaid, BareSet

LEMMA BareGear ==
    ASSUME NEW o, NEW b, Bare(o)
    PROVE  Bare(ApplyGear(o, b))
<1> DEFINE grants == Notes(b, "grant")
           mods == Notes(b, "mod-stat") \o Notes(b, "mod-skill")
           weight == When(Field(b, "mod_max_weight", 0) # 0, [mod_max_weight |-> Field(b, "mod_max_weight", 0)])
           load == When(Field(b, "mod_encumbrance", 100) # 100,
                        [mod_encumbrance |-> Field(b, "mod_encumbrance", 100)])
           health == When(Field(b, "mod_max_health", 0) # 0, [mod_max_health |-> Field(b, "mod_max_health", 0)])
           granted == When(grants # <<>>, [grant_effects |-> grants])
           modified == When(mods # <<>>, [mods |-> mods])
<1>1. /\ Bare([mod_max_weight |-> Field(b, "mod_max_weight", 0)])
      /\ Bare([mod_encumbrance |-> Field(b, "mod_encumbrance", 100)])
      /\ Bare([mod_max_health |-> Field(b, "mod_max_health", 0)])
  BY BareKeys DEF RefKeys, Links
<1>2. Bare([grant_effects |-> grants]) /\ Bare([mods |-> mods])
  <2> HIDE DEF grants, mods
  <2> QED
    BY BareKeys DEF RefKeys, Links
<1>3. ApplyGear(o, b) = Set(o, weight ++ load ++ health ++ granted ++ modified)
  BY DEF ApplyGear
<1>4. Bare(weight) /\ Bare(load) /\ Bare(health) /\ Bare(granted) /\ Bare(modified)
  <2> HIDE DEF grants, mods
  <2> QED
    BY <1>1, <1>2, BareWhen
<1> HIDE DEF weight, load, health, granted, modified
<1> QED
  BY <1>3, <1>4, BareLaid, BareSet

LEMMA BareWearable ==
    ASSUME NEW o, NEW b, Bare(o)
    PROVE  Bare(ApplyWearableRole(o, b))
<1> DEFINE worn == [is_wearable |-> "true", wear_slot |-> Field(b, "wear_slot", "torso"),
                    weight |-> Field(b, "weight", 1), volume |-> Field(b, "volume", 1)]
<1>1. Bare(worn)
  BY BareKeys DEF RefKeys, Links
<1>2. ApplyWearableRole(o, b) = ApplyGear(Set(o, worn), b)
  BY DEF ApplyWearableRole
<1> HIDE DEF worn
<1> QED
  BY <1>1, <1>2, BareSet, BareGear

LEMMA BareStackable ==
    ASSUME NEW o, NEW b, Bare(o)
    PROVE  Bare(ApplyStackableRole(o, b))
<1>1. Bare([stackable |-> "true", stack_count |-> Field(b, "stack_count", 1),
            max_stack |-> Field(b, "max_stack", 99)])
  BY BareKeys DEF RefKeys, Links
<1> QED
  BY <1>1, BareSet DEF ApplyStackableRole

LEMMA BareKey ==
    ASSUME NEW o, NEW b, Bare(o)
    PROVE  Bare(ApplyKeyRole(o, b))
<1> DEFINE key == [is_key |-> "true", lock_id |-> b.fields["lock_id"], is_pocketable |-> "true"]
           used == When(Field(b, "key_consumable", "false") = "true", [key_consumable |-> "true"])
           size == [weight |-> 1, volume |-> 1]
<1>1. Bare(key) /\ Bare(size)
  BY BareKeys DEF RefKeys, Links
<1>2. Bare(used)
  <2>1. Bare([key_consumable |-> "true"])
    BY BareKeys DEF RefKeys, Links
  <2> QED
    BY <2>1, BareWhen
<1>3. ApplyKeyRole(o, b) = o \/ ApplyKeyRole(o, b) = Unset(Set(o, key ++ used), size)
  BY DEF ApplyKeyRole
<1> HIDE DEF key, used, size
<1> QED
  BY <1>1, <1>2, <1>3, BareLaid, BareSet

LEMMA BareTexts ==
    ASSUME NEW o, NEW b, Bare(o)
    PROVE  Bare(ApplyTexts(o, b))
<1> DEFINE readable ==
             When(Field(b, "readable", "false") = "true" \/ "read_text" \in DOMAIN b.fields,
                  [is_readable |-> "true", read_text |-> Field(b, "read_text", ""),
                   is_writable |-> Field(b, "writable", "false")])
           broken == [is_breakable |-> "true"] ++ Copied(b, [break_text |-> "break_text"])
           breakable == When(Field(b, "breakable", "false") = "true", broken)
           copied == Copied(b, [write_text |-> "write_text", hand_slot |-> "hand_slot",
                                harvestable |-> "harvestable",
                                hidden_until_discovered |-> "hidden_until_discovered",
                                discovery_stealth |-> "discovery_stealth"])
<1>1. Bare(readable)
  <2>1. Bare([is_readable |-> "true", read_text |-> Field(b, "read_text", ""),
              is_writable |-> Field(b, "writable", "false")])
    BY BareKeys DEF RefKeys, Links
  <2> QED
    BY <2>1, BareWhen
<1>2. Bare(breakable)
  <2>1. Bare([is_breakable |-> "true"])
    BY BareKeys DEF RefKeys, Links
  <2>2. Bare(Copied(b, [break_text |-> "break_text"]))
    BY BareCopied DEF RefKeys, Links
  <2> QED
    BY <2>1, <2>2, BareLaid, BareWhen
<1>3. Bare(copied)
  BY BareCopied DEF RefKeys, Links
<1>4. ApplyTexts(o, b) = Set(o, readable ++ breakable ++ copied)
  BY DEF ApplyTexts
<1> HIDE DEF readable, breakable, copied
<1> QED
  BY <1>1, <1>2, <1>3, <1>4, BareLaid, BareSet

LEMMA BareApplyTo ==
    ASSUME NEW o, NEW b, Bare(o)
    PROVE  Bare(ApplyTo(o, b))
<1> DEFINE has(f) == f \in DOMAIN b.fields
           says(f) == Field(b, f, "false") = "true"
           size == Copied(b, [weight |-> "weight", volume |-> "volume"])
           body == CASE SaysPortal(b) -> Set(ApplyPortalRole(o, KindSaid(o, b), b), size)
                     [] says("is_container") -> ApplyContainerRole(o, b)
                     [] has("weight") \/ has("volume") -> ApplyItemPhys(o, b)
                     [] OTHER -> o
           worn == IF says("is_wearable") /\ ~says("is_container") THEN ApplyWearableRole(body, b)
                   ELSE ApplyGear(body, b)
           piled == IF says("stackable") THEN ApplyStackableRole(worn, b) ELSE worn
<1>1. Bare(size)
  BY BareCopied DEF RefKeys, Links
<1>2. Bare(body)
  <2> HIDE DEF has, says, size
  <2>1. Bare(Set(ApplyPortalRole(o, KindSaid(o, b), b), size))
    BY <1>1, BarePortal, BareSet
  <2>2. Bare(ApplyContainerRole(o, b)) /\ Bare(ApplyItemPhys(o, b))
    BY BareContainer, BareItemPhys
  <2> QED
    BY <2>1, <2>2
<1>3. Bare(worn)
  <2> HIDE DEF body
  <2> QED
    BY <1>2, BareWearable, BareGear
<1>4. Bare(piled)
  <2> HIDE DEF worn
  <2> QED
    BY <1>3, BareStackable
<1>5. ApplyTo(o, b) = ApplyKeyRole(ApplyTexts(piled, b), b)
  BY DEF ApplyTo
<1> HIDE DEF piled
<1> QED
  BY <1>4, <1>5, BareTexts, BareKey

\* Not even what it has from its prototype, whatever that refers to.
LEMMA BareCreated ==
    ASSUME NEW proto, NEW b, NEW description
    PROVE  Bare(CreatedFromSpec(proto, b, description))
<1> DEFINE pocketable == Field(b, "pocketable",
                           IF Field(b, "is_container", "false") = "true" THEN "false" ELSE "true")
           given == ApplyPrototypeDefaults(Empty, proto)
           defaults == [weight |-> 1, volume |-> 1, is_pocketable |-> pocketable,
                        is_container |-> "false", is_wearable |-> "false"]
           told == When(description # "", [description |-> description])
<1>1. Bare(given)
  <2>1. Bare([k \in DOMAIN proto \cap Inherited |-> proto[k]])
    <3>1. Inherited \cap RefKeys = {}
      BY DEF Inherited, RefKeys, Links
    <3> QED
      BY <3>1, BareKeys
  <2> QED
    BY <2>1, BareNothing, BareSet DEF ApplyPrototypeDefaults
<1>2. Bare(defaults)
  <2> HIDE DEF pocketable
  <2> QED
    BY BareKeys DEF RefKeys, Links
<1>3. Bare(told)
  <2>1. Bare([description |-> description])
    BY BareKeys DEF RefKeys, Links
  <2> QED
    BY <2>1, BareWhen
<1>4. CreatedFromSpec(proto, b, description) = Set(Unset(ApplyTo(given, b), defaults), told)
  BY DEF CreatedFromSpec, FillItemDefaults
<1> HIDE DEF given, defaults, told
<1> QED
  BY <1>1, <1>2, <1>3, <1>4, BareApplyTo, BareSet

LEMMA BareCreature ==
    ASSUME NEW creature, NEW defs
    PROVE  Bare(InitCreature(creature, defs))
<1> DEFINE known == {i \in DOMAIN defs : defs[i].kind = "creature" /\ defs[i].name = creature}
           def == defs[CHOOSE i \in known : \A j \in known : j <= i]
           health == Field(def, "max_health", 100)
           body == [creature |-> creature, body_slots |-> Empty, max_weight |-> 100]
           vital == [health |-> health, max_health |-> health, active_effects |-> <<>>]
<1>1. InitCreature(creature, defs) = body ++ When(known # {}, vital)
  BY DEF InitCreature
<1>2. Bare(body)
  BY BareKeys DEF RefKeys, Links
<1>3. Bare(vital)
  <2> HIDE DEF health
  <2> QED
    BY BareKeys DEF RefKeys, Links
<1> HIDE DEF known, body, vital
<1> QED
  BY <1>1, <1>2, <1>3, BareWhen, BareLaid

LEMMA BareBehaviors ==
    ASSUME NEW props, NEW scripts, NEW uses, NEW templates, Bare(props)
    PROVE  Bare(WithBehaviors(props, scripts, uses, templates))
<1> DEFINE entries == BehaviorEntries(scripts, uses, templates)
           r == [creature_behaviors |-> [i \in DOMAIN entries |-> EntryMap(entries[i])]]
<1>1. Bare(r)
  <2> DEFINE v == [i \in DOMAIN entries |-> EntryMap(entries[i])]
  <2> HIDE DEF v
  <2>1. Bare([creature_behaviors |-> v])
    BY BareKeys DEF RefKeys, Links
  <2> QED
    BY <2>1 DEF v
<1>2. WithBehaviors(props, scripts, uses, templates) = Set(props, When(entries # <<>>, r))
  BY DEF WithBehaviors
<1> HIDE DEF entries, r
<1> QED
  BY <1>1, <1>2, BareWhen, BareSet

LEMMA BareSpawner ==
    ASSUME NEW b, NEW trigger, NEW most
    PROVE  Bare(ApplySpawnerDef(b, trigger, most)) /\ Bare(Fires(b))
<1>1. Bare(Fires(b))
  BY BareKeys DEF RefKeys, Links, Fires
<1> DEFINE stored == Stored(Notes(b, "entry"))
<1> HIDE DEF stored
<1>2. Bare([spawner_base |-> b.name, trigger |-> Field(b, "trigger", trigger),
            interval |-> Field(b, "interval", 5), chance |-> Field(b, "chance", 100),
            max_active |-> Field(b, "max_active", most), spawn_count |-> 0,
            entries |-> stored])
  BY BareKeys DEF RefKeys, Links
<1> QED
  BY <1>1, <1>2 DEF ApplySpawnerDef, stored

(***************************************************************************)
(* What steps have in common.                                              *)
(***************************************************************************)

LEMMA BootFields ==
    DOMAIN Starting = {"at", "i", "stage", "held", "names", "protos", "placed", "pending", "rest", "moved"}
BY DEF Starting

\* A row is written that refers to what is there, or to itself.
LEMMA RowWritten ==
    ASSUME RowsFine, NEW id, NEW row, rows' = Only(id, row) ++ rows,
           Grounded(row, DOMAIN rows \cup {id})
    PROVE  RowsFine' /\ DOMAIN rows' = DOMAIN rows \cup {id}
<1>1. /\ DOMAIN rows' = DOMAIN rows \cup {id} /\ rows'[id] = row
      /\ \A k \in DOMAIN rows \ {id} : rows'[k] = rows[k]
  BY DEF ++, Only
<1>2. ASSUME NEW k \in DOMAIN rows' PROVE Grounded(rows'[k], DOMAIN rows')
  <2>1. CASE k = id
    BY <1>1, <2>1
  <2>2. CASE k # id
    <3>1. Grounded(rows[k], DOMAIN rows) /\ rows'[k] = rows[k]
      BY <1>1, <1>2, <2>2 DEF RowsFine
    <3> QED
      BY <1>1, <3>1, GroundedMore
  <2> QED
    BY <2>1, <2>2
<1> QED
  BY <1>1, <1>2 DEF RowsFine

LEMMA RowsKept ==
    ASSUME RowsFine, rows' = rows
    PROVE  RowsFine'
BY DEF RowsFine

\* No row is there whose number was not taken.
LEMMA NumbersKept ==
    ASSUME NumbersFine, counters' = counters, loading' = loading, loading.at # "serving",
           NEW id, id \in DOMAIN rows \/ Numbered(id, counters), DOMAIN rows' \subseteq DOMAIN rows \cup {id}
    PROVE  NumbersFine'
<1>1. ASSUME NEW k \in DOMAIN rows' \ DOMAIN Residents PROVE Numbered(k, counters')
  <2>1. Numbered(k, counters)
    BY <1>1 DEF NumbersFine
  <2> QED
    BY <2>1
<1> QED
  BY <1>1 DEF NumbersFine

LEMMA NamesKept ==
    ASSUME NamesFine, DOMAIN rows \subseteq DOMAIN rows',
           boot'.names = boot.names, boot'.protos = boot.protos, boot'.placed = boot.placed
    PROVE  NamesFine'
BY DEF NamesFine

LEMMA PassedKept ==
    ASSUME PassedFine, loading' = loading, boot'.at = boot.at, boot'.names = boot.names,
           boot'.i = boot.i \/ boot.at \notin {"places", "npcs"}, DOMAIN rows \subseteq DOMAIN rows'
    PROVE  PassedFine'
<1>1. Places' = Places /\ Npcs' = Npcs
  BY DEF Places, Npcs, Made
<1>2. \A b : NpcId(b)' = NpcId(b)
  BY DEF NpcId
<1> QED
  BY <1>1, <1>2 DEF PassedFine

LEMMA PassedElse ==
    ASSUME boot'.at \notin {"places", "links", "npcs", "spawners"}
    PROVE  PassedFine'
BY DEF PassedFine

\* Between two definitions nothing is held.
LEMMA StageFresh ==
    ASSUME boot'.stage = "number", boot'.held = Nil, boot'.i \in Nat, boot'.at # "start"
    PROVE  StageFine'
BY DEF StageFine

LEMMA SameDef ==
    ASSUME loading' = loading, boot'.at = boot.at, boot'.i = boot.i, boot'.pending = boot.pending
    PROVE  Definitions' = Definitions /\ Def' = Def
BY DEF Definitions, Def, Places, Prototypes, Npcs, Spawners, LootSpawners, ResourceSpawners, Made

\* What is being made is made further.
LEMMA StageMoves ==
    ASSUME StageFine, loading' = loading, counters' = counters,
           boot'.at = boot.at, boot'.i = boot.i, boot'.pending = boot.pending, boot'.held = boot.held,
           boot'.placed = boot.placed, boot.stage # "number", boot.at # "npcs",
           boot'.stage \in {"commit", "hang", "finish"}, boot.held \in DOMAIN rows'
    PROVE  StageFine'
<1>1. Definitions' = Definitions /\ Def' = Def
  BY SameDef
<1> QED
  BY <1>1 DEF StageFine, Field

\* The start goes on.
LEMMA PhaseKept ==
    ASSUME PhaseFine, loading' = loading, loading.at = "loaded", 
           boot'.at \in {"places", "links", "check", "prototypes", "items", "npcs", "spawners", "loot",
                         "resources", "schedules", "admin", "done", "ready"},
           DOMAIN boot' = DOMAIN boot, stops' = stops, whole' \in BOOLEAN
    PROVE  PhaseFine'
BY DEF PhaseFine

LEMMA NextDefIs ==
    ASSUME PhaseFine
    PROVE  /\ DOMAIN NextDef = DOMAIN boot
           /\ NextDef.at = boot.at /\ NextDef.i = boot.i + 1 /\ NextDef.stage = "number" /\ NextDef.held = Nil
           /\ NextDef.names = boot.names /\ NextDef.protos = boot.protos /\ NextDef.placed = boot.placed
           /\ NextDef.pending = boot.pending /\ NextDef.rest = boot.rest
BY BootFields DEF PhaseFine, NextDef

LEMMA GiveUpKeeps ==
    ASSUME MadeFine, GiveUp, loading' = loading, loading.at = "loaded", 
           boot.at = "npcs" => boot.stage = "number", boot.stage # "shell"
    PROVE  MadeFine'
<1>1. /\ DOMAIN boot' = DOMAIN boot /\ boot'.at = "ready" /\ boot'.i = boot.i /\ boot'.stage = boot.stage
      /\ boot'.held = boot.held /\ boot'.names = boot.names /\ boot'.protos = boot.protos
      /\ boot'.placed = boot.placed
  BY BootFields DEF GiveUp, MadeFine, PhaseFine
<1>2. rows' = rows /\ counters' = counters /\ stops' = stops /\ whole' = whole
  BY DEF GiveUp
<1>3. RowsFine'
  BY <1>2, RowsKept DEF MadeFine
<1>4. NumbersFine'
  BY <1>2 DEF MadeFine, NumbersFine
<1>5. NamesFine'
  BY <1>1, <1>2, NamesKept DEF MadeFine
<1>6. StageFine'
  BY <1>1, <1>2 DEF MadeFine, StageFine, Making
<1>7. PassedFine'
  BY <1>1, PassedElse
<1>8. PhaseFine'
  BY <1>1, <1>2, PhaseKept DEF MadeFine, PhaseFine
<1> QED
  BY <1>3, <1>4, <1>5, <1>6, <1>7, <1>8 DEF MadeFine

(***************************************************************************)
(* Each step.                                                              *)
(***************************************************************************)

LEMMA BeginKeeps ==
    ASSUME MadeFine, Begin, loading' = loading
    PROVE  MadeFine'
<1>1. /\ loading.at = "loaded" /\ boot.at = "start" /\ rows' = rows /\ counters' = counters
      /\ stops' = stops /\ whole' = whole
  BY DEF Begin
<1>2. /\ DOMAIN boot' = DOMAIN boot /\ boot'.at \in {"ready", "places"} /\ boot'.i = boot.i
      /\ boot'.stage = boot.stage /\ boot'.held = boot.held /\ boot'.names = boot.names
      /\ boot'.protos = boot.protos /\ boot'.placed = boot.placed
  BY BootFields DEF Begin, MadeFine, PhaseFine
<1>3. boot.i = 1 /\ boot.stage = "number" /\ boot.held = Nil
  BY <1>1 DEF MadeFine, StageFine, Making
<1>4. RowsFine' /\ NumbersFine'
  BY <1>1, RowsKept DEF MadeFine, NumbersFine
<1>5. NamesFine'
  BY <1>1, <1>2, NamesKept DEF MadeFine
<1>6. StageFine'
  BY <1>2, <1>3, StageFresh
<1>7. PassedFine'
  BY <1>2, <1>3 DEF PassedFine
<1>8. PhaseFine'
  BY <1>1, <1>2, PhaseKept DEF MadeFine, PhaseFine
<1> QED
  BY <1>4, <1>5, <1>6, <1>7, <1>8 DEF MadeFine

\* What was taken stays taken, and so is the next number now.
LEMMA TakenNumbers ==
    ASSUME NumbersFine, NEW type, NEW base, counters' = Taken(type, base), rows' = rows, loading' = loading,
           NEW n, n = NumberOf(type, base)
    PROVE  NumbersFine' /\ Numbered(<<type, base, n>>, counters')
<1>1. n \in Nat
  BY DEF NumbersFine, NumberOf, Get, Has
<1>2. /\ DOMAIN counters' = DOMAIN counters \cup {<<type, base>>}
      /\ counters'[<<type, base>>] = n + 1
      /\ \A k \in DOMAIN counters \ {<<type, base>>} : counters'[k] = counters[k]
  BY DEF Taken, Set, ++, Only
<1>3. \A k : Get(counters', k, 1) >= Get(counters, k, 1) /\ Get(counters, k, 1) \in Nat
             /\ Get(counters', k, 1) \in Nat
  BY <1>1, <1>2 DEF Get, Has, NumberOf, NumbersFine
<1>4. Get(counters', <<type, base>>, 1) = n + 1
  BY <1>2 DEF Get, Has
<1>5. \A k \in DOMAIN counters' : counters'[k] \in Nat
  BY <1>1, <1>2 DEF NumbersFine
<1>6. ASSUME NEW id \in DOMAIN rows' \ DOMAIN Residents, loading'.at # "serving"
      PROVE  Numbered(id, counters')
  <2>1. Numbered(id, counters)
    BY <1>6 DEF NumbersFine
  <2> QED
    BY <2>1, <1>3 DEF Numbered
<1>7. Numbered(<<type, base, n>>, counters')
  BY <1>1, <1>4 DEF Numbered
<1> QED
  BY <1>5, <1>6, <1>7 DEF NumbersFine

LEMMA TakeNumberKeeps ==
    ASSUME MadeFine, TakeNumber, loading' = loading
    PROVE  MadeFine'
<1>1. /\ loading.at = "loaded" /\ boot.stage = "number" /\ rows' = rows /\ stops' = stops /\ whole' = whole
  BY DEF TakeNumber
<1>2. PICK type, base :
        /\ \/ On(boot.at) /\ Due
           \/ boot.at = "admin"
        /\ counters' = Taken(type, base)
        /\ boot' = [boot EXCEPT !.stage = "shell", !.held = <<type, base, NumberOf(type, base)>>]
  BY DEF TakeNumber
<1>10. PICK id : id = <<type, base, NumberOf(type, base)>>
  OBVIOUS
<1>3. /\ DOMAIN boot' = DOMAIN boot /\ boot'.at = boot.at /\ boot'.i = boot.i
      /\ boot'.stage = "shell" /\ boot'.held = id /\ boot'.names = boot.names
      /\ boot'.protos = boot.protos /\ boot'.placed = boot.placed /\ boot'.pending = boot.pending
  BY <1>2, <1>10, BootFields DEF MadeFine, PhaseFine
<1>4. NumbersFine' /\ Numbered(id, counters')
  BY <1>1, <1>2, <1>10, TakenNumbers DEF MadeFine
<1>5. RowsFine'
  BY <1>1, RowsKept DEF MadeFine
<1>6. NamesFine'
  BY <1>1, <1>3, NamesKept DEF MadeFine
<1>7. StageFine'
  <2>1. Definitions' = Definitions /\ Def' = Def
    BY <1>3, SameDef
  <2>2. On(boot.at) /\ Due => boot.at \in Making /\ boot.i \in DOMAIN Definitions
    BY DEF On, Due, Making
  <2>3. boot.at = "items" => Field(Def, "location", "") \in DOMAIN boot.placed
    BY <1>2 DEF Due
  <2>4. Field(Def, "location", "")' = Field(Def, "location", "")
    BY <2>1 DEF Field
  <2>5. boot.i \in Nat /\ boot.at \in Making \cup {"admin"} /\ boot.at \notin {"start", "npcs", "ready"}
    BY <1>2, <2>2 DEF MadeFine, StageFine, Making
  <2>6. Numbered(boot'.held, counters')
    BY <1>3, <1>4
  <2>7. boot'.at \in Making => boot'.i \in DOMAIN Definitions'
    BY <1>2, <1>3, <2>1, <2>2 DEF Making
  <2> QED
    BY <1>3, <2>1, <2>3, <2>4, <2>5, <2>6, <2>7 DEF StageFine
<1>8. PassedFine'
  BY <1>1, <1>3, PassedKept DEF MadeFine
<1>9. PhaseFine'
  <2>1. boot.at \in Making \cup {"admin"}
    BY <1>2 DEF On, Due, Making
  <2> QED
    BY <1>1, <1>3, <2>1, PhaseKept DEF MadeFine, PhaseFine, Making
<1> QED
  BY <1>4, <1>5, <1>6, <1>7, <1>8, <1>9 DEF MadeFine

LEMMA WriteShellKeeps ==
    ASSUME MadeFine, WriteShell, loading' = loading
    PROVE  MadeFine'
<1> DEFINE id == boot.held
<1>1. /\ loading.at = "loaded" /\ boot.stage = "shell" /\ counters' = counters
      /\ rows' = Only(id, Shell) ++ rows /\ stops' = stops /\ whole' = whole
  BY DEF WriteShell, Write
<1>2. /\ DOMAIN boot' = DOMAIN boot /\ boot'.at = boot.at /\ boot'.i = boot.i
      /\ boot'.stage = "commit" /\ boot'.held = id /\ boot'.names = boot.names
      /\ boot'.protos = boot.protos /\ boot'.placed = boot.placed /\ boot'.pending = boot.pending
  BY BootFields DEF MadeFine, PhaseFine, WriteShell
<1>3. boot.at # "npcs"
  BY <1>1 DEF MadeFine, StageFine
<1>4. RowsFine' /\ DOMAIN rows' = DOMAIN rows \cup {id}
  <2>1. Grounded(Shell, DOMAIN rows \cup {id})
    BY BareNothing, SoundBare, GroundedRow DEF Shell
  <2> QED
    BY <1>1, <2>1, RowWritten DEF MadeFine
<1>5. boot.at \in Making \cup {"admin"} /\ Numbered(id, counters)
  BY <1>1, <1>3 DEF MadeFine, StageFine
<1>6. NumbersFine'
  BY <1>1, <1>4, <1>5, NumbersKept DEF MadeFine
<1>7. NamesFine'
  BY <1>2, <1>4, NamesKept DEF MadeFine
<1>8. StageFine'
  BY <1>1, <1>2, <1>3, <1>4, StageMoves DEF MadeFine
<1>9. PassedFine'
  BY <1>2, <1>4, PassedKept DEF MadeFine
<1>10. PhaseFine'
  BY <1>1, <1>2, <1>5, PhaseKept DEF MadeFine, PhaseFine, Making
<1> QED
  BY <1>4, <1>6, <1>7, <1>8, <1>9, <1>10 DEF MadeFine

LEMMA SavePlaceKeeps ==
    ASSUME MadeFine, SavePlace, loading' = loading
    PROVE  MadeFine'
<1> DEFINE id == boot.held
           row == Row(Nil, Nil, <<>>, PlaceProps(Def))
<1>1. /\ loading.at = "loaded" /\ boot.at = "places" /\ boot.i \in DOMAIN Places /\ Def = Places[boot.i]
      /\ boot.stage = "commit" /\ counters' = counters /\ stops' = stops /\ whole' = whole
      /\ rows' = Only(id, row) ++ rows
  BY DEF SavePlace, Write, On, Definitions, Def
<1>2. /\ DOMAIN boot' = DOMAIN boot /\ boot'.at = "places" /\ boot'.i = boot.i + 1 /\ boot'.stage = "number"
      /\ boot'.held = Nil /\ boot'.names = Set(boot.names, Only(Def.name, id))
      /\ boot'.protos = boot.protos /\ boot'.placed = boot.placed
  BY <1>1, NextDefIs, BootFields DEF MadeFine, PhaseFine, SavePlace
<1>3. boot.i \in Nat /\ id \in DOMAIN rows
  BY <1>1 DEF MadeFine, StageFine
<1>4. RowsFine' /\ DOMAIN rows' = DOMAIN rows \cup {id}
  <2>1. Bare(PlaceProps(Def))
    <3>1. Bare([description |-> Field(Def, "description", "")])
      BY BareKeys DEF RefKeys, Links
    <3> QED
      BY <3>1, BareWhen DEF PlaceProps
  <2>2. Grounded(row, DOMAIN rows \cup {id})
    BY <2>1, SoundBare, GroundedRow
  <2> QED
    BY <1>1, <2>2, RowWritten DEF MadeFine
<1>5. NumbersFine'
  BY <1>1, <1>3, <1>4, NumbersKept DEF MadeFine
<1>6. DOMAIN boot'.names = DOMAIN boot.names \cup {Def.name}
      /\ \A n \in DOMAIN boot'.names : boot'.names[n] \in DOMAIN rows'
  <2>1. \A n \in DOMAIN boot.names : boot.names[n] \in DOMAIN rows
    BY DEF MadeFine, NamesFine
  <2> QED
    BY <1>2, <1>4, <2>1 DEF Set, ++, Only
<1>7. NamesFine'
  BY <1>2, <1>4, <1>6 DEF MadeFine, NamesFine
<1>8. StageFine'
  BY <1>2, <1>3, StageFresh
<1>9. PassedFine'
  <2>1. Places' = Places
    BY DEF Places, Made
  <2> SUFFICES ASSUME NEW j \in DOMAIN Places, j \in 1 .. boot'.i - 1
               PROVE  Places[j].name \in DOMAIN boot'.names
    BY <1>2, <2>1 DEF PassedFine
  <2>2. CASE j = boot.i
    BY <1>1, <1>6, <2>2
  <2>3. CASE j # boot.i
    BY <1>1, <1>2, <1>3, <1>6, <2>3 DEF MadeFine, PassedFine
  <2> QED
    BY <2>2, <2>3
<1>10. PhaseFine'
  BY <1>1, <1>2, PhaseKept DEF MadeFine, PhaseFine
<1> QED
  BY <1>4, <1>5, <1>7, <1>8, <1>9, <1>10 DEF MadeFine

\* A place refers to places, by the names that were made.
LEMMA LinkedGrounded ==
    ASSUME NEW place, NEW row, NEW names, NEW D, Grounded(row, D),
           \A n \in DOMAIN names : names[n] \in D,
           \A d \in DOMAIN place.exits : place.exits[d] \in DOMAIN names,
           "location" \in DOMAIN place.fields => place.fields["location"] \in DOMAIN names
    PROVE  Grounded(LinkedPlace(place, row, names), D)
<1> DEFINE exits == Linked(place, names)
           base == [exits |-> exits, exit_aliases |-> place.exit_aliases, exit_returns |-> place.exit_returns]
           scatter == When(Field(place, "scatter_to", "") \in DOMAIN names,
                           [scatter_to |-> names[Field(place, "scatter_to", "")],
                            scatter_direction |-> Field(place, "scatter_direction", "")])
           loop == When(Field(place, "loop_to", "") \in DOMAIN names,
                        [loop_to |-> names[Field(place, "loop_to", "")]])
           at == IF "location" \in DOMAIN place.fields THEN names[place.fields["location"]] ELSE row.at
<1>1. \A d \in DOMAIN exits : exits[d] \in D
  BY DEF Linked
<1>2. Sound(base, D)
  <2> HIDE DEF exits
  <2> QED
    BY <1>1 DEF Sound, Links
<1>3. Sound(Empty, D)
  BY BareNothing, SoundBare
<1>4. Sound(scatter, D)
  <2>1. CASE Field(place, "scatter_to", "") \in DOMAIN names
    <3>1. ASSUME NEW to \in D, NEW v PROVE Sound([scatter_to |-> to, scatter_direction |-> v], D)
      BY SoundLinks DEF RefKeys, Links
    <3> QED
      BY <2>1, <3>1 DEF When
  <2> QED
    BY <1>3, <2>1 DEF When
<1>5. Sound(loop, D)
  <2>1. CASE Field(place, "loop_to", "") \in DOMAIN names
    <3>1. ASSUME NEW to \in D PROVE Sound([loop_to |-> to], D)
      BY SoundLinks DEF RefKeys, Links
    <3> QED
      BY <2>1, <3>1 DEF When
  <2> QED
    BY <1>3, <2>1 DEF When
<1>6. LinkedPlace(place, row, names) =
        Row(at, Nil, Notes(place, "trigger"), Set(row.props, base ++ scatter ++ loop))
  BY DEF LinkedPlace
<1>7. at \in D \cup {Nil} /\ Sound(row.props, D)
  BY DEF Grounded
<1> HIDE DEF base, scatter, loop, at
<1>8. Sound(Set(row.props, base ++ scatter ++ loop), D)
  BY <1>2, <1>4, <1>5, <1>7, SoundLaid, SoundSet
<1> QED
  BY <1>6, <1>7, <1>8, GroundedRow

LEMMA LinkPlaceKeeps ==
    ASSUME MadeFine, LinkPlace, loading' = loading
    PROVE  MadeFine'
<1> DEFINE named == {Def.exits[d] : d \in DOMAIN Def.exits}
                    \cup (IF "location" \in DOMAIN Def.fields THEN {Def.fields["location"]} ELSE {})
           id == boot.names[Def.name]
           row == LinkedPlace(Def, rows[id], boot.names)
<1>1. /\ loading.at = "loaded" /\ boot.at = "links" /\ boot.i \in DOMAIN Places /\ Def = Places[boot.i]
  BY DEF LinkPlace, On, Definitions, Def
<1>2. boot.stage = "number" /\ boot.i \in Nat
  BY <1>1 DEF MadeFine, StageFine, Making
<1>3. CASE ~(named \subseteq DOMAIN boot.names)
  <2>1. GiveUp
    BY <1>3 DEF LinkPlace
  <2> QED
    BY <1>1, <1>2, <2>1, GiveUpKeeps
<1>4. CASE named \subseteq DOMAIN boot.names
  <2>1. /\ rows' = Only(id, row) ++ rows /\ boot' = NextDef
        /\ counters' = counters /\ stops' = stops /\ whole' = whole
    BY <1>4 DEF LinkPlace, Write
  <2>2. /\ DOMAIN boot' = DOMAIN boot /\ boot'.at = "links" /\ boot'.i = boot.i + 1 /\ boot'.stage = "number"
        /\ boot'.held = Nil /\ boot'.names = boot.names /\ boot'.protos = boot.protos
        /\ boot'.placed = boot.placed
    BY <1>1, <2>1, NextDefIs DEF MadeFine
  <2>3. \A n \in DOMAIN boot.names : boot.names[n] \in DOMAIN rows
    BY DEF MadeFine, NamesFine
  <2>4. id \in DOMAIN rows
    BY <1>1, <2>3 DEF MadeFine, PassedFine
  <2>5. Grounded(row, DOMAIN rows)
    <3>1. Grounded(rows[id], DOMAIN rows)
      BY <2>4 DEF MadeFine, RowsFine
    <3> QED
      BY <1>4, <2>3, <3>1, LinkedGrounded
  <2>6. DOMAIN rows \cup {id} = DOMAIN rows
    BY <2>4
  <2>7. RowsFine' /\ DOMAIN rows' = DOMAIN rows
    BY <2>1, <2>5, <2>6, RowWritten DEF MadeFine
  <2>8. NumbersFine'
    BY <1>1, <2>1, <2>4, <2>7, NumbersKept DEF MadeFine
  <2>9. NamesFine'
    BY <2>2, <2>7, NamesKept DEF MadeFine
  <2>10. StageFine'
    BY <1>2, <2>2, StageFresh
  <2>11. PassedFine'
    BY <1>1, <2>2, <2>7, PassedKept DEF MadeFine
  <2>12. PhaseFine'
    BY <1>1, <2>1, <2>2, PhaseKept DEF MadeFine, PhaseFine
  <2> QED
    BY <2>7, <2>8, <2>9, <2>10, <2>11, <2>12 DEF MadeFine
<1> QED
  BY <1>3, <1>4

LEMMA CheckPlacesKeeps ==
    ASSUME MadeFine, CheckPlaces, loading' = loading
    PROVE  MadeFine'
<1>1. loading.at = "loaded" /\ boot.at = "check"
  BY DEF CheckPlaces
<1>2. boot.stage = "number" /\ boot.held = Nil
  BY <1>1 DEF MadeFine, StageFine, Making
<1>3. CASE GiveUp
  BY <1>1, <1>2, <1>3, GiveUpKeeps
<1>4. CASE ~GiveUp
  <2>1. /\ boot' = [boot EXCEPT !.at = "prototypes", !.i = 1, !.placed = boot.names, !.pending = Items]
        /\ rows' = rows /\ counters' = counters /\ stops' = stops /\ whole' = whole
    BY <1>4 DEF CheckPlaces
  <2>2. /\ DOMAIN boot' = DOMAIN boot /\ boot'.at = "prototypes" /\ boot'.i = 1 /\ boot'.stage = "number"
        /\ boot'.held = Nil /\ boot'.names = boot.names /\ boot'.protos = boot.protos
        /\ boot'.placed = boot.names
    BY <1>2, <2>1, BootFields DEF MadeFine, PhaseFine
  <2>3. RowsFine' /\ NumbersFine'
    BY <2>1, RowsKept DEF MadeFine, NumbersFine
  <2>4. NamesFine'
    BY <2>1, <2>2 DEF MadeFine, NamesFine
  <2>5. StageFine'
    BY <2>2, StageFresh
  <2>6. PassedFine'
    BY <2>2, PassedElse
  <2>7. PhaseFine'
    BY <1>1, <2>1, <2>2, PhaseKept DEF MadeFine, PhaseFine
  <2> QED
    BY <2>3, <2>4, <2>5, <2>6, <2>7 DEF MadeFine
<1> QED
  BY <1>3, <1>4

\* What is being made gets its row, and stays what is being made.
LEMMA CommitKeeps ==
    ASSUME MadeFine, loading' = loading, NEW row, Write(boot.held, row), boot.stage = "commit",
           boot.at \in {"prototypes", "items", "admin"}, loading.at = "loaded",
           NEW stage \in {"hang", "finish"}, boot' = [boot EXCEPT !.stage = stage],
           Grounded(row, DOMAIN rows)
    PROVE  MadeFine'
<1> DEFINE id == boot.held
<1>1. rows' = Only(id, row) ++ rows /\ counters' = counters /\ stops' = stops /\ whole' = whole
  BY DEF Write
<1>2. /\ DOMAIN boot' = DOMAIN boot /\ boot'.at = boot.at /\ boot'.i = boot.i
      /\ boot'.stage = stage /\ boot'.held = id /\ boot'.names = boot.names
      /\ boot'.protos = boot.protos /\ boot'.placed = boot.placed /\ boot'.pending = boot.pending
  BY BootFields DEF MadeFine, PhaseFine
<1>3. id \in DOMAIN rows
  BY DEF MadeFine, StageFine
<1>4. DOMAIN rows \cup {id} = DOMAIN rows
  BY <1>3
<1>5. RowsFine' /\ DOMAIN rows' = DOMAIN rows
  BY <1>1, <1>4, RowWritten DEF MadeFine
<1>6. NumbersFine'
  BY <1>1, <1>3, <1>5, NumbersKept DEF MadeFine
<1>7. NamesFine'
  BY <1>2, <1>5, NamesKept DEF MadeFine
<1>8. StageFine'
  BY <1>1, <1>2, <1>3, <1>5, StageMoves DEF MadeFine
<1>9. PassedFine'
  BY <1>2, <1>5, PassedKept DEF MadeFine
<1>10. PhaseFine'
  BY <1>1, <1>2, PhaseKept DEF MadeFine, PhaseFine
<1> QED
  BY <1>5, <1>6, <1>7, <1>8, <1>9, <1>10 DEF MadeFine

\* A definition is done with: a row that is there is written once more, and
\* what was made may have a name now.
LEMMA DoneKeeps ==
    ASSUME MadeFine, loading' = loading, loading.at = "loaded",
           boot.at \in {"prototypes", "items", "npcs", "spawners", "loot", "resources", "schedules"},
           DOMAIN boot' = DOMAIN boot, boot'.at = boot.at, boot'.i = boot.i + 1, boot'.stage = "number",
           boot'.held = Nil, boot'.names = boot.names,
           RowsFine', NumbersFine', DOMAIN rows \subseteq DOMAIN rows', stops' = stops, whole' = whole,
           \A n \in DOMAIN boot'.protos : boot'.protos[n] \in DOMAIN rows',
           \A n \in DOMAIN boot'.placed : boot'.placed[n] \in DOMAIN rows',
           boot.at = "npcs" => NpcId(Npcs[boot.i]) \in DOMAIN rows'
    PROVE  MadeFine'
<1>1. boot.i \in Nat
  BY DEF MadeFine, StageFine
<1>2. NamesFine'
  BY DEF MadeFine, NamesFine
<1>3. StageFine'
  BY <1>1, StageFresh
<1>4. PassedFine'
  <2>1. CASE boot.at # "npcs"
    BY <2>1, PassedKept DEF MadeFine
  <2>2. CASE boot.at = "npcs"
    <3>1. Npcs' = Npcs
      BY DEF Npcs, Made
    <3> SUFFICES ASSUME NEW j \in DOMAIN Npcs, j \in 1 .. boot'.i - 1
                 PROVE  NpcId(Npcs[j]) \in DOMAIN rows'
      BY <2>2, <3>1 DEF PassedFine, NpcId
    <3>2. CASE j = boot.i
      BY <2>2, <3>2
    <3>3. CASE j # boot.i
      BY <1>1, <2>2, <3>3 DEF MadeFine, PassedFine
    <3> QED
      BY <3>2, <3>3
  <2> QED
    BY <2>1, <2>2
<1>5. PhaseFine'
  BY PhaseKept DEF MadeFine, PhaseFine
<1> QED
  BY <1>2, <1>3, <1>4, <1>5 DEF MadeFine

\* A definition is passed over.
LEMMA SkipKeeps ==
    ASSUME MadeFine, Skip, loading' = loading, loading.at = "loaded",
           boot.at \in {"prototypes", "items", "npcs", "spawners", "loot", "resources", "schedules"},
           boot.at = "npcs" => NpcId(Npcs[boot.i]) \in DOMAIN rows
    PROVE  MadeFine'
<1>1. boot' = NextDef /\ rows' = rows /\ counters' = counters /\ stops' = stops /\ whole' = whole
  BY DEF Skip
<1>2. /\ DOMAIN boot' = DOMAIN boot /\ boot'.at = boot.at /\ boot'.i = boot.i + 1 /\ boot'.stage = "number"
      /\ boot'.held = Nil /\ boot'.names = boot.names /\ boot'.protos = boot.protos
      /\ boot'.placed = boot.placed
  BY <1>1, NextDefIs DEF MadeFine
<1>3. RowsFine' /\ NumbersFine'
  BY <1>1, RowsKept DEF MadeFine, NumbersFine
<1>4. /\ \A n \in DOMAIN boot.protos : boot.protos[n] \in DOMAIN rows
      /\ \A n \in DOMAIN boot.placed : boot.placed[n] \in DOMAIN rows
  BY DEF MadeFine, NamesFine
<1> QED
  BY <1>1, <1>2, <1>3, <1>4, DoneKeeps

LEMMA PrototypesKeep ==
    ASSUME MadeFine, CommitPrototype \/ FinishPrototype \/ SkipPrototype, loading' = loading
    PROVE  MadeFine'
<1> DEFINE id == boot.held
<1>1. CASE CommitPrototype
  <2>1. /\ loading.at = "loaded" /\ boot.at = "prototypes" /\ boot.stage = "commit"
        /\ Write(id, PrototypeRow(Def)) /\ boot' = [boot EXCEPT !.stage = "finish"]
    BY <1>1 DEF CommitPrototype, On
  <2>2. Grounded(PrototypeRow(Def), DOMAIN rows)
    BY BareCreated, SoundBare, GroundedRow DEF PrototypeRow
  <2> QED
    BY <2>1, <2>2, CommitKeeps
<1>2. CASE FinishPrototype
  <2> DEFINE row == [rows[id] EXCEPT !.triggers = Notes(Def, "trigger")]
  <2>1. /\ loading.at = "loaded" /\ boot.at = "prototypes" /\ boot.stage = "finish"
        /\ rows' = Only(id, row) ++ rows /\ counters' = counters /\ stops' = stops /\ whole' = whole
        /\ boot' = [NextDef EXCEPT !.protos = Set(@, Only(Def.name, id))]
    BY <1>2 DEF FinishPrototype, On, Write
  <2>2. /\ DOMAIN boot' = DOMAIN boot /\ boot'.at = boot.at /\ boot'.i = boot.i + 1 /\ boot'.stage = "number"
        /\ boot'.held = Nil /\ boot'.names = boot.names
        /\ boot'.protos = Set(boot.protos, Only(Def.name, id)) /\ boot'.placed = boot.placed
    BY <2>1, NextDefIs, BootFields DEF MadeFine, PhaseFine
  <2>3. id \in DOMAIN rows
    BY <2>1 DEF MadeFine, StageFine
  <2>4. Grounded(row, DOMAIN rows)
    <3>1. Grounded(rows[id], DOMAIN rows)
      BY <2>3 DEF MadeFine, RowsFine
    <3>2. row.at = rows[id].at /\ row.proto = rows[id].proto /\ row.props = rows[id].props
         /\ DOMAIN row = DOMAIN rows[id]
      OBVIOUS
    <3> QED
      BY <3>1, <3>2 DEF Grounded
  <2>5. DOMAIN rows \cup {id} = DOMAIN rows
    BY <2>3
  <2>6. RowsFine' /\ DOMAIN rows' = DOMAIN rows
    BY <2>1, <2>4, <2>5, RowWritten DEF MadeFine
  <2>7. NumbersFine'
    BY <2>1, <2>3, <2>6, NumbersKept DEF MadeFine
  <2>8. \A n \in DOMAIN boot'.protos : boot'.protos[n] \in DOMAIN rows'
    <3>1. \A n \in DOMAIN boot.protos : boot.protos[n] \in DOMAIN rows
      BY DEF MadeFine, NamesFine
    <3> QED
      BY <2>2, <2>3, <2>6, <3>1 DEF Set, ++, Only
  <2>9. \A n \in DOMAIN boot'.placed : boot'.placed[n] \in DOMAIN rows'
    BY <2>2, <2>6 DEF MadeFine, NamesFine
  <2> QED
    BY <2>1, <2>2, <2>6, <2>7, <2>8, <2>9, DoneKeeps
<1>3. CASE SkipPrototype
  <2>1. loading.at = "loaded" /\ boot.at = "prototypes" /\ Skip
    BY <1>3 DEF SkipPrototype, On
  <2> QED
    BY <2>1, SkipKeeps
<1> QED
  BY <1>1, <1>2, <1>3

\* An item has a prototype that was made, or none.
LEMMA ItemGrounded ==
    ASSUME NamesFine, NEW b
    PROVE  Grounded(ItemRow(b), DOMAIN rows)
<1> DEFINE proto == Get(boot.protos, Field(b, "prototype", ""), Nil)
           said == IF ProtoDef(b) = <<>> THEN "" ELSE Field(ProtoDef(b)[1], "description", "")
           props == CreatedFromSpec(IF proto = Nil THEN Empty ELSE rows[proto].props, b,
                                    Field(b, "description", said))
<1>1. proto \in DOMAIN rows \cup {Nil}
  BY DEF NamesFine, Get, Has
<1>2. Sound(props, DOMAIN rows)
  BY BareCreated, SoundBare
<1>3. ItemRow(b) = Row(Nil, proto, <<>>, props)
  BY DEF ItemRow
<1> HIDE DEF proto, props
<1> QED
  BY <1>1, <1>2, <1>3, GroundedRow

LEMMA CommitItemKeeps ==
    ASSUME MadeFine, CommitItem, loading' = loading
    PROVE  MadeFine'
<1>1. /\ loading.at = "loaded" /\ boot.at = "items" /\ boot.stage = "commit"
      /\ Write(boot.held, ItemRow(Def)) /\ boot' = [boot EXCEPT !.stage = "hang"]
  BY DEF CommitItem, On
<1>2. Grounded(ItemRow(Def), DOMAIN rows)
  BY ItemGrounded DEF MadeFine
<1> QED
  BY <1>1, <1>2, CommitKeeps

\* What a container holds, and one thing more.
LEMMA ContentGrounded ==
    ASSUME NEW row, NEW D, Grounded(row, D), NEW id \in D
    PROVE  Grounded(WithContent(row, id), D)
<1> DEFINE held == Get(row.props, "contents", <<>>)
           one == [contents |-> Append(held, id)]
<1>1. held \in Seq(D \cup {Nil})
  <2>1. <<>> \in Seq(D \cup {Nil})
    OBVIOUS
  <2> QED
    BY <2>1 DEF Grounded, Sound, Get, Has
<1>2. Append(held, id) \in Seq(D \cup {Nil})
  <2> HIDE DEF held
  <2> QED
    BY <1>1
<1>3. Sound(one, D)
  <2> HIDE DEF held
  <2> QED
    BY <1>2 DEF Sound, Links
<1>4. Sound(Set(row.props, one), D)
  BY <1>3, SoundSet DEF Grounded
<1> HIDE DEF one
<1> QED
  BY <1>4, GroundedProps DEF WithContent, one

LEMMA HangItemKeeps ==
    ASSUME MadeFine, HangItem, loading' = loading
    PROVE  MadeFine'
<1> DEFINE parent == boot.placed[Field(Def, "location", "")]
           row == WithContent(rows[parent], boot.held)
<1>1. /\ loading.at = "loaded" /\ boot.at = "items" /\ boot.stage = "hang"
      /\ boot' = [boot EXCEPT !.stage = "finish"] /\ counters' = counters /\ stops' = stops /\ whole' = whole
      /\ rows' = rows \/ rows' = Only(parent, row) ++ rows
  BY DEF HangItem, On, Write
<1>2. /\ DOMAIN boot' = DOMAIN boot /\ boot'.at = boot.at /\ boot'.i = boot.i
      /\ boot'.stage = "finish" /\ boot'.held = boot.held /\ boot'.names = boot.names
      /\ boot'.protos = boot.protos /\ boot'.placed = boot.placed /\ boot'.pending = boot.pending
  BY <1>1, BootFields DEF MadeFine, PhaseFine
<1>3. boot.held \in DOMAIN rows /\ parent \in DOMAIN rows
  BY <1>1 DEF MadeFine, StageFine, NamesFine
<1>4. RowsFine' /\ DOMAIN rows' = DOMAIN rows
  <2>1. CASE rows' = rows
    BY <2>1, RowsKept DEF MadeFine
  <2>2. CASE rows' = Only(parent, row) ++ rows
    <3>1. Grounded(rows[parent], DOMAIN rows)
      BY <1>3 DEF MadeFine, RowsFine
    <3>2. Grounded(row, DOMAIN rows)
      BY <1>3, <3>1, ContentGrounded
    <3>3. DOMAIN rows \cup {parent} = DOMAIN rows
      BY <1>3
    <3> HIDE DEF row, parent
    <3>4. RowsFine
      BY DEF MadeFine
    <3> QED
      BY <2>2, <3>2, <3>3, <3>4, RowWritten
  <2> QED
    BY <1>1, <2>1, <2>2
<1>5. NumbersFine'
  BY <1>1, <1>3, <1>4, NumbersKept DEF MadeFine
<1>6. NamesFine'
  BY <1>2, <1>4, NamesKept DEF MadeFine
<1>7. StageFine'
  BY <1>1, <1>2, <1>3, <1>4, StageMoves DEF MadeFine
<1>8. PassedFine'
  BY <1>2, <1>4, PassedKept DEF MadeFine
<1>9. PhaseFine'
  BY <1>1, <1>2, PhaseKept DEF MadeFine, PhaseFine
<1> QED
  BY <1>4, <1>5, <1>6, <1>7, <1>8, <1>9 DEF MadeFine

LEMMA FinishItemKeeps ==
    ASSUME MadeFine, FinishItem, loading' = loading
    PROVE  MadeFine'
<1> DEFINE id == boot.held
           leads == IF IsPortal(rows[id].props) THEN Get(rows[id].props, "door_destination_base", "") ELSE ""
           link == When(leads # "", [door_destination |-> boot.placed[leads]])
           row == Row(boot.placed[Field(Def, "location", "")], rows[id].proto, ItemTriggers(Def),
                      Set(rows[id].props, link))
<1>1. loading.at = "loaded" /\ boot.at = "items" /\ boot.stage = "finish"
  BY DEF FinishItem, On
<1>2. CASE leads # "" /\ leads \notin DOMAIN boot.placed
  <2>1. GiveUp
    BY <1>2 DEF FinishItem
  <2> QED
    BY <1>1, <2>1, GiveUpKeeps
<1>3. CASE leads = "" \/ leads \in DOMAIN boot.placed
  <2>1. /\ rows' = Only(id, row) ++ rows /\ counters' = counters /\ stops' = stops /\ whole' = whole
        /\ boot' = [NextDef EXCEPT !.moved = TRUE, !.placed = Set(@, Only(Def.name, id))]
    BY <1>3 DEF FinishItem, Write
  <2>2. /\ DOMAIN boot' = DOMAIN boot /\ boot'.at = boot.at /\ boot'.i = boot.i + 1 /\ boot'.stage = "number"
        /\ boot'.held = Nil /\ boot'.names = boot.names /\ boot'.protos = boot.protos
        /\ boot'.placed = Set(boot.placed, Only(Def.name, id))
    BY <2>1, NextDefIs, BootFields DEF MadeFine, PhaseFine
  <2>3. \A n \in DOMAIN boot.placed : boot.placed[n] \in DOMAIN rows
    BY DEF MadeFine, NamesFine
  <2>4. id \in DOMAIN rows /\ Field(Def, "location", "") \in DOMAIN boot.placed
    BY <1>1 DEF MadeFine, StageFine
  <2>5. Grounded(rows[id], DOMAIN rows)
    BY <2>4 DEF MadeFine, RowsFine
  <2>6. Sound(link, DOMAIN rows)
    <3>1. Sound(Empty, DOMAIN rows)
      BY BareNothing, SoundBare
    <3>2. ASSUME NEW to \in DOMAIN rows PROVE Sound([door_destination |-> to], DOMAIN rows)
      BY SoundLinks DEF RefKeys, Links
    <3> HIDE DEF leads
    <3> QED
      BY <1>3, <2>3, <3>1, <3>2 DEF When
  <2>7. Grounded(row, DOMAIN rows)
    <3>1. Sound(Set(rows[id].props, link), DOMAIN rows)
      BY <2>5, <2>6, SoundSet DEF Grounded
    <3>2. rows[id].proto \in DOMAIN rows \cup {Nil} /\ boot.placed[Field(Def, "location", "")] \in DOMAIN rows
      BY <2>3, <2>4, <2>5 DEF Grounded
    <3> HIDE DEF link
    <3> QED
      BY <3>1, <3>2, GroundedRow
  <2> HIDE DEF row
  <2>8. DOMAIN rows \cup {id} = DOMAIN rows
    BY <2>4
  <2>9. RowsFine' /\ DOMAIN rows' = DOMAIN rows
    BY <2>1, <2>7, <2>8, RowWritten DEF MadeFine
  <2>10. NumbersFine'
    BY <1>1, <2>1, <2>4, <2>9, NumbersKept DEF MadeFine
  <2>11. \A n \in DOMAIN boot'.placed : boot'.placed[n] \in DOMAIN rows'
    BY <2>2, <2>3, <2>4, <2>9 DEF Set, ++, Only
  <2>12. \A n \in DOMAIN boot'.protos : boot'.protos[n] \in DOMAIN rows'
    BY <2>2, <2>9 DEF MadeFine, NamesFine
  <2> QED
    BY <1>1, <2>1, <2>2, <2>9, <2>10, <2>11, <2>12, DoneKeeps
<1> QED
  BY <1>2, <1>3

LEMMA PostponeItemKeeps ==
    ASSUME MadeFine, PostponeItem, loading' = loading
    PROVE  MadeFine'
<1>1. /\ loading.at = "loaded" /\ boot.at = "items"
      /\ rows' = rows /\ counters' = counters /\ stops' = stops /\ whole' = whole
      /\ boot' = [NextDef EXCEPT !.moved = TRUE] \/ boot' = [NextDef EXCEPT !.rest = Append(@, Def)]
  BY DEF PostponeItem, On
<1>2. /\ DOMAIN boot' = DOMAIN boot /\ boot'.at = boot.at /\ boot'.i = boot.i + 1 /\ boot'.stage = "number"
      /\ boot'.held = Nil /\ boot'.names = boot.names /\ boot'.protos = boot.protos
      /\ boot'.placed = boot.placed
  BY <1>1, NextDefIs, BootFields DEF MadeFine, PhaseFine
<1>3. RowsFine' /\ NumbersFine'
  BY <1>1, RowsKept DEF MadeFine, NumbersFine
<1>4. /\ \A n \in DOMAIN boot.protos : boot.protos[n] \in DOMAIN rows
      /\ \A n \in DOMAIN boot.placed : boot.placed[n] \in DOMAIN rows
  BY DEF MadeFine, NamesFine
<1> QED
  BY <1>1, <1>2, <1>3, <1>4, DoneKeeps

\* The phases in their order.
LEMMA AfterIs ==
    /\ After("places") = "links" /\ After("links") = "check" /\ After("prototypes") = "items"
    /\ After("items") = "npcs" /\ After("npcs") = "spawners" /\ After("spawners") = "loot"
    /\ After("loot") = "resources" /\ After("resources") = "schedules" /\ After("schedules") = "admin"
<1>1. DOMAIN Phases = 1 .. 12
  BY DEF Phases
<1>2. /\ Phases[1] = "places" /\ Phases[2] = "links" /\ Phases[3] = "check" /\ Phases[4] = "prototypes"
      /\ Phases[5] = "items" /\ Phases[6] = "npcs" /\ Phases[7] = "spawners" /\ Phases[8] = "loot"
      /\ Phases[9] = "resources" /\ Phases[10] = "schedules" /\ Phases[11] = "admin" /\ Phases[12] = "done"
  BY DEF Phases
<1>3. ASSUME NEW n \in 1 .. 12
      PROVE  (CHOOSE i \in DOMAIN Phases : Phases[i] = Phases[n]) = n
  <2>1. \A i \in 1 .. 12 : Phases[i] = Phases[n] => i = n
    BY <1>2, SMTT(30)
  <2>2. \A i : i \in DOMAIN Phases /\ Phases[i] = Phases[n] <=> i = n
    BY <1>1, <2>1
  <2> QED
    BY <2>2
<1>4. ASSUME NEW n \in 1 .. 11 PROVE After(Phases[n]) = Phases[1 + n]
  <2>1. After(Phases[n]) = Phases[1 + CHOOSE i \in DOMAIN Phases : Phases[i] = Phases[n]]
    BY DEF After
  <2>2. n \in 1 .. 12
    OBVIOUS
  <2>3. (CHOOSE i \in DOMAIN Phases : Phases[i] = Phases[n]) = n
    BY <1>3, <2>2
  <2> QED
    BY <2>1, <2>3
<1> QED
  BY <1>2, <1>4

\* When all were done nothing is being made.
LEMMA NothingMade ==
    ASSUME MadeFine, AllDone, boot.at \notin {"admin", "ready"}
    PROVE  boot.stage = "number" /\ boot.held = Nil
<1>1. boot.i \in Nat /\ DOMAIN Definitions \subseteq 1 .. boot.i - 1
  BY DEF MadeFine, StageFine, AllDone
<1>2. boot.i \notin DOMAIN Definitions
  BY <1>1
<1> QED
  BY <1>2 DEF MadeFine, StageFine, Making

LEMMA RoundKeeps ==
    ASSUME MadeFine, Round, loading' = loading
    PROVE  MadeFine'
<1>1. /\ loading.at = "loaded" /\ boot.at = "items" /\ AllDone
      /\ rows' = rows /\ counters' = counters /\ stops' = stops /\ whole' = whole
  BY DEF Round
<1>2. boot.stage = "number" /\ boot.held = Nil /\ boot.i \in Nat
  BY <1>1, NothingMade DEF MadeFine, StageFine
<1>3. \/ boot' = [boot EXCEPT !.at = "npcs", !.i = 1]
      \/ boot' = [boot EXCEPT !.i = 1, !.pending = boot.rest, !.rest = <<>>, !.moved = FALSE]
      \/ boot' = [boot EXCEPT !.at = "ready"]
  <2>1. After(boot.at) = "npcs"
    BY <1>1, AfterIs
  <2> QED
    BY <2>1 DEF Round
<1>4. /\ DOMAIN boot' = DOMAIN boot /\ boot'.stage = "number" /\ boot'.held = Nil /\ boot'.names = boot.names
      /\ boot'.protos = boot.protos /\ boot'.placed = boot.placed
      /\ boot'.i \in Nat /\ boot'.at \in {"npcs", "items", "ready"} /\ (boot'.at = "npcs" => boot'.i = 1)
  <2>1. DOMAIN boot = DOMAIN Starting
    BY DEF MadeFine, PhaseFine
  <2>2. CASE boot' = [boot EXCEPT !.at = "npcs", !.i = 1]
    BY <1>2, <2>1, <2>2, BootFields
  <2>3. CASE boot' = [boot EXCEPT !.i = 1, !.pending = boot.rest, !.rest = <<>>, !.moved = FALSE]
    BY <1>1, <1>2, <2>1, <2>3, BootFields
  <2>4. CASE boot' = [boot EXCEPT !.at = "ready"]
    BY <1>2, <2>1, <2>4, BootFields
  <2> QED
    BY <1>3, <2>2, <2>3, <2>4
<1>5. RowsFine' /\ NumbersFine'
  BY <1>1, RowsKept DEF MadeFine, NumbersFine
<1>6. NamesFine'
  BY <1>1, <1>4, NamesKept DEF MadeFine
<1>7. StageFine'
  BY <1>4, StageFresh
<1>8. PassedFine'
  BY <1>4 DEF PassedFine
<1>9. PhaseFine'
  BY <1>1, <1>4, PhaseKept DEF MadeFine, PhaseFine
<1> QED
  BY <1>5, <1>6, <1>7, <1>8, <1>9 DEF MadeFine

LEMMA NextPhaseKeeps ==
    ASSUME MadeFine, NextPhase, loading' = loading
    PROVE  MadeFine'
<1> DEFINE now == boot.at
           known == Set(boot.placed, [n \in {Npcs[i].name : i \in DOMAIN Npcs} |-> <<"npc", n, 1>>])
<1>1. /\ loading.at = "loaded" /\ AllDone
      /\ now \in {"places", "links", "prototypes", "npcs", "spawners", "loot", "resources", "schedules"}
      /\ rows' = rows /\ counters' = counters /\ stops' = stops /\ whole' = whole
      /\ boot' = [boot EXCEPT !.at = After(now), !.i = 1,
                    !.placed = IF now = "spawners" THEN known ELSE boot.placed]
  BY DEF NextPhase
<1>2. boot.stage = "number" /\ boot.held = Nil /\ boot.i \in Nat
  BY <1>1, NothingMade DEF MadeFine, StageFine
<1>3. /\ DOMAIN boot' = DOMAIN boot /\ boot'.at = After(now) /\ boot'.i = 1 /\ boot'.stage = "number"
      /\ boot'.held = Nil /\ boot'.names = boot.names /\ boot'.protos = boot.protos
      /\ boot'.placed = IF now = "spawners" THEN known ELSE boot.placed
  <2> HIDE DEF known
  <2> QED
    BY <1>1, <1>2, BootFields DEF MadeFine, PhaseFine
<1>4. After(now) \in {"links", "check", "items", "spawners", "loot", "resources", "schedules", "admin"}
      /\ (After(now) = "links" => now = "places") /\ (After(now) = "spawners" => now = "npcs")
  BY <1>1, AfterIs
<1>5. RowsFine' /\ NumbersFine'
  BY <1>1, RowsKept DEF MadeFine, NumbersFine
<1>6. NamesFine'
  <2>1. CASE now # "spawners"
    BY <1>1, <1>3, <2>1, NamesKept DEF MadeFine
  <2>2. CASE now = "spawners"
    <3>1. \A j \in DOMAIN Npcs : <<"npc", Npcs[j].name, 1>> \in DOMAIN rows
      BY <2>2 DEF MadeFine, PassedFine, NpcId
    <3>2. \A n \in DOMAIN known : known[n] \in DOMAIN rows
      BY <3>1 DEF MadeFine, NamesFine, Set, ++
    <3> HIDE DEF known
    <3> QED
      BY <1>1, <1>3, <2>2, <3>2 DEF MadeFine, NamesFine
  <2> QED
    BY <2>1, <2>2
<1> HIDE DEF known
<1>7. StageFine'
  BY <1>3, <1>4, StageFresh
<1>8. PassedFine'
  <2>1. Places' = Places /\ Npcs' = Npcs
    BY DEF Places, Npcs, Made
  <2>2. CASE now = "places"
    <3>1. DOMAIN Places \subseteq 1 .. boot.i - 1
      BY <1>1, <2>2 DEF AllDone, Definitions
    <3>2. \A j \in DOMAIN Places : Places[j].name \in DOMAIN boot.names
      BY <2>2, <3>1 DEF MadeFine, PassedFine
    <3> QED
      BY <1>3, <2>1, <2>2, <3>2, AfterIs DEF PassedFine
  <2>3. CASE now = "npcs"
    <3>1. DOMAIN Npcs \subseteq 1 .. boot.i - 1
      BY <1>1, <2>3 DEF AllDone, Definitions
    <3>2. \A j \in DOMAIN Npcs : NpcId(Npcs[j]) \in DOMAIN rows
      BY <2>3, <3>1 DEF MadeFine, PassedFine
    <3> QED
      BY <1>1, <1>3, <2>1, <2>3, <3>2, AfterIs DEF PassedFine, NpcId
  <2>4. CASE now \notin {"places", "npcs"}
    BY <1>3, <1>4, <2>4, PassedElse
  <2> QED
    BY <2>2, <2>3, <2>4
<1>9. PhaseFine'
  BY <1>1, <1>3, <1>4, PhaseKept DEF MadeFine, PhaseFine
<1> QED
  BY <1>5, <1>6, <1>7, <1>8, <1>9 DEF MadeFine

LEMMA MakeNpcKeeps ==
    ASSUME MadeFine, MakeNpc, loading' = loading
    PROVE  MadeFine'
<1> DEFINE id == NpcId(Def)
<1>1. /\ loading.at = "loaded" /\ boot.at = "npcs" /\ boot.i \in DOMAIN Npcs /\ Def = Npcs[boot.i]
  BY DEF MakeNpc, On, Definitions, Def
<1>2. boot.stage \in {"number", "commit"} /\ boot.held = Nil /\ boot.i \in Nat
  BY <1>1 DEF MadeFine, StageFine
<1>3. Numbered(id, counters)
  BY DEF Numbered, NpcId
<1>4. CASE boot.stage = "number" /\ GiveUp
  BY <1>1, <1>4, GiveUpKeeps
<1>5. CASE boot.stage = "number" /\ id \in DOMAIN rows /\ Skip
  BY <1>1, <1>5, SkipKeeps
<1>6. CASE boot.stage = "number" /\ Write(id, Shell) /\ boot' = [boot EXCEPT !.stage = "commit"]
  <2>1. rows' = Only(id, Shell) ++ rows /\ counters' = counters /\ stops' = stops /\ whole' = whole
    BY <1>6 DEF Write
  <2>2. /\ DOMAIN boot' = DOMAIN boot /\ boot'.at = boot.at /\ boot'.i = boot.i
        /\ boot'.stage = "commit" /\ boot'.held = boot.held /\ boot'.names = boot.names
        /\ boot'.protos = boot.protos /\ boot'.placed = boot.placed /\ boot'.pending = boot.pending
    BY <1>6, BootFields DEF MadeFine, PhaseFine
  <2>3. Grounded(Shell, DOMAIN rows \cup {id})
    BY BareNothing, SoundBare, GroundedRow DEF Shell
  <2>4. RowsFine' /\ DOMAIN rows' = DOMAIN rows \cup {id}
    BY <2>1, <2>3, RowWritten DEF MadeFine
  <2>5. NumbersFine'
    BY <1>1, <1>3, <2>1, <2>4, NumbersKept DEF MadeFine
  <2>6. NamesFine'
    BY <2>2, <2>4, NamesKept DEF MadeFine
  <2>7. StageFine'
    <3>1. Definitions' = Definitions /\ Definitions = Npcs
      BY <1>1, <2>2, SameDef DEF Definitions
    <3> QED
      BY <1>1, <1>2, <2>2, <3>1 DEF StageFine, Making
  <2>8. PassedFine'
    BY <2>2, <2>4, PassedKept DEF MadeFine
  <2>9. PhaseFine'
    BY <1>1, <2>1, <2>2, PhaseKept DEF MadeFine, PhaseFine
  <2> QED
    BY <2>4, <2>5, <2>6, <2>7, <2>8, <2>9 DEF MadeFine
<1>7. CASE boot.stage = "commit" /\ Write(id, NpcRow(Def)) /\ boot' = NextDef
  <2>1. rows' = Only(id, NpcRow(Def)) ++ rows /\ counters' = counters /\ stops' = stops /\ whole' = whole
    BY <1>7 DEF Write
  <2>2. /\ DOMAIN boot' = DOMAIN boot /\ boot'.at = boot.at /\ boot'.i = boot.i + 1 /\ boot'.stage = "number"
        /\ boot'.held = Nil /\ boot'.names = boot.names /\ boot'.protos = boot.protos
        /\ boot'.placed = boot.placed
    BY <1>7, NextDefIs DEF MadeFine
  <2>3. Grounded(NpcRow(Def), DOMAIN rows \cup {id})
    <3> DEFINE at == Get(boot.names, Field(Def, "location", ""), Nil)
               props == WithBehaviors(InitCreature(Field(Def, "creature", "human"), Made.blocks["anatomy"]),
                                      Notes(Def, "behavior"), Uses(Def), Behaviors)
    <3>1. at \in DOMAIN rows \cup {id} \cup {Nil}
      BY DEF MadeFine, NamesFine, Get, Has
    <3>2. Sound(props, DOMAIN rows \cup {id})
      BY BareCreature, BareBehaviors, SoundBare
    <3>3. \E triggers : NpcRow(Def) = Row(at, Nil, triggers, props)
      BY DEF NpcRow
    <3> HIDE DEF at, props
    <3> QED
      BY <3>1, <3>2, <3>3, GroundedRow
  <2>4. RowsFine' /\ DOMAIN rows' = DOMAIN rows \cup {id}
    BY <2>1, <2>3, RowWritten DEF MadeFine
  <2>5. NumbersFine'
    BY <1>1, <1>3, <2>1, <2>4, NumbersKept DEF MadeFine
  <2>6. /\ \A n \in DOMAIN boot.protos : boot.protos[n] \in DOMAIN rows'
        /\ \A n \in DOMAIN boot.placed : boot.placed[n] \in DOMAIN rows'
    BY <2>4 DEF MadeFine, NamesFine
  <2> QED
    BY <1>1, <2>1, <2>2, <2>4, <2>5, <2>6, DoneKeeps
<1> QED
  BY <1>2, <1>4, <1>5, <1>6, <1>7 DEF MakeNpc

\* A spawner refers to what it is on.
LEMMA SpawnersGrounded ==
    ASSUME NEW b, NEW D, NamesFine, DOMAIN rows \subseteq D, KnownTarget(b)
    PROVE  /\ boot.at = "spawners" => Grounded(SpawnerRow(b), D)
           /\ boot.at # "spawners" => Grounded(LootRow(b), D) /\ Grounded(ResourceRow(b), D)
<1>1. \A n \in DOMAIN boot.placed : boot.placed[n] \in D
  BY DEF NamesFine
<1>2. ASSUME NEW to \in D PROVE Sound([target |-> to], D)
  BY SoundLinks DEF RefKeys, Links
<1>3. ASSUME NEW x, NEW y
      PROVE  Sound([spawn_templates |-> x, behavior_templates |-> y], D)
  BY SoundLinks DEF RefKeys, Links
<1>4. ASSUME NEW to \in D, NEW x
      PROVE  /\ Sound([target |-> to, loot_templates |-> x], D)
             /\ Sound([target |-> to, resource_templates |-> x], D)
  BY SoundLinks DEF RefKeys, Links
<1>5. /\ Sound(ApplyCreatureSpawnerDef(b), D) /\ Sound(ApplyLootSpawnerDef(b), D)
      /\ Sound(ApplyResourceSpawnerDef(b), D) /\ Sound(Empty, D)
  BY BareSpawner, BareLaid, BareNothing, SoundBare
     DEF ApplyCreatureSpawnerDef, ApplyLootSpawnerDef, ApplyResourceSpawnerDef
<1>6. CASE boot.at = "spawners"
  <2> DEFINE targeted == Field(b, "target", "") # ""
             on == boot.placed[IF targeted THEN Field(b, "target", "") ELSE Field(b, "location", "")]
             at == IF targeted THEN Nil ELSE on
             target == When(targeted, [target |-> on])
             told == [spawn_templates |-> SpawnTemplates(Kind(Made, "spawner", "spawn-template")),
                      behavior_templates |-> BehaviorTemplates(Behaviors)]
  <2>1. on \in D
    BY <1>1, <1>6 DEF KnownTarget
  <2>2. SpawnerRow(b) = Row(at, Nil, <<>>, ApplyCreatureSpawnerDef(b) ++ target ++ told)
    BY DEF SpawnerRow
  <2>3. Sound(told, D)
    BY <1>3
  <2>4. Sound(target, D)
    <3> HIDE DEF on, targeted
    <3> QED
      BY <1>2, <1>5, <2>1 DEF When
  <2>5. at \in D \cup {Nil}
    BY <2>1
  <2> HIDE DEF at, target, told
  <2>6. Sound(ApplyCreatureSpawnerDef(b) ++ target ++ told, D)
    BY <1>5, <2>3, <2>4, SoundLaid
  <2> QED
    BY <1>6, <2>2, <2>5, <2>6, GroundedRow
<1>7. CASE boot.at # "spawners"
  <2> DEFINE on == boot.placed[Field(b, "target", "")]
  <2>1. on \in D
    BY <1>1, <1>7 DEF KnownTarget
  <2>2. PICK x, y :
          /\ LootRow(b) = Row(Nil, Nil, <<>>, ApplyLootSpawnerDef(b) ++ [target |-> on, loot_templates |-> x])
          /\ ResourceRow(b) =
               Row(Nil, Nil, <<>>, ApplyResourceSpawnerDef(b) ++ [target |-> on, resource_templates |-> y])
    BY DEF LootRow, ResourceRow
  <2> HIDE DEF on
  <2>3. /\ Sound(ApplyLootSpawnerDef(b) ++ [target |-> on, loot_templates |-> x], D)
        /\ Sound(ApplyResourceSpawnerDef(b) ++ [target |-> on, resource_templates |-> y], D)
    BY <1>4, <1>5, <2>1, SoundLaid
  <2> QED
    BY <1>7, <2>2, <2>3, GroundedRow
<1> QED
  BY <1>6, <1>7

LEMMA MakeSpawnersKeeps ==
    ASSUME MadeFine, MakeSpawners, loading' = loading
    PROVE  MadeFine'
<1>1. PICK phase, type, templates, row :
        /\ phase \in {"spawners", "loot", "resources"}
        /\ type \in {"spawner", "loot-spawner", "resource-spawner"}
        /\ MakeSpawner(phase, type, templates, row)
        /\ \/ phase = "spawners" /\ row = SpawnerRow(Def)
           \/ phase # "spawners" /\ row \in {LootRow(Def), ResourceRow(Def)}
  BY DEF MakeSpawners
<1> DEFINE id == <<type, Def.name, 1>>
<1>2. /\ loading.at = "loaded" /\ boot.at = phase /\ phase \in {"spawners", "loot", "resources"}
      /\ type \in {"spawner", "loot-spawner", "resource-spawner"}
  BY <1>1 DEF MakeSpawner, On
<1>3. boot.stage = "number"
  BY <1>2 DEF MadeFine, StageFine, Making
<1>4. CASE Skip
  BY <1>2, <1>4, SkipKeeps
<1>5. CASE GiveUp
  BY <1>2, <1>3, <1>5, GiveUpKeeps
<1>6. CASE KnownTarget(Def) /\ Write(id, row) /\ boot' = NextDef
  <2>1. rows' = Only(id, row) ++ rows /\ counters' = counters /\ stops' = stops /\ whole' = whole
    BY <1>6 DEF Write
  <2>2. /\ DOMAIN boot' = DOMAIN boot /\ boot'.at = boot.at /\ boot'.i = boot.i + 1 /\ boot'.stage = "number"
        /\ boot'.held = Nil /\ boot'.names = boot.names /\ boot'.protos = boot.protos
        /\ boot'.placed = boot.placed
    BY <1>6, NextDefIs DEF MadeFine
  <2>3. Grounded(row, DOMAIN rows \cup {id})
    <3> DEFINE D == DOMAIN rows \cup {id}
    <3>1. DOMAIN rows \subseteq D
      OBVIOUS
    <3> HIDE DEF D
    <3>2. Grounded(row, D)
      BY <1>1, <1>2, <1>6, <3>1, SpawnersGrounded DEF MadeFine
    <3> QED
      BY <3>2 DEF D
  <2>4. RowsFine' /\ DOMAIN rows' = DOMAIN rows \cup {id}
    BY <2>1, <2>3, RowWritten DEF MadeFine
  <2>5. Numbered(id, counters)
    BY <1>2 DEF Numbered
  <2>6. NumbersFine'
    BY <1>2, <2>1, <2>4, <2>5, NumbersKept DEF MadeFine
  <2>7. /\ \A n \in DOMAIN boot.protos : boot.protos[n] \in DOMAIN rows'
        /\ \A n \in DOMAIN boot.placed : boot.placed[n] \in DOMAIN rows'
    BY <2>4 DEF MadeFine, NamesFine
  <2> QED
    BY <1>2, <2>1, <2>2, <2>4, <2>6, <2>7, DoneKeeps
<1> QED
  BY <1>1, <1>4, <1>5, <1>6 DEF MakeSpawner

LEMMA MakeScheduleKeeps ==
    ASSUME MadeFine, MakeSchedule, loading' = loading
    PROVE  MadeFine'
<1> DEFINE on == Get(boot.placed, Field(Def, "target", ""), Nil)
           job == [schedule_jobs |-> RegisterJob(Get(rows[on].props, "schedule_jobs", <<>>), Def, on)]
           row == [rows[on] EXCEPT !.props = Set(rows[on].props, job)]
<1>1. loading.at = "loaded" /\ boot.at = "schedules"
  BY DEF MakeSchedule, On
<1>2. boot.stage = "number"
  BY <1>1 DEF MadeFine, StageFine, Making
<1>3. CASE GiveUp
  BY <1>1, <1>2, <1>3, GiveUpKeeps
<1>4. CASE ~GiveUp
  <2>1. /\ on \in DOMAIN rows /\ boot' = NextDef /\ rows' = Only(on, row) ++ rows
        /\ counters' = counters /\ stops' = stops /\ whole' = whole
    BY <1>4 DEF MakeSchedule, Write
  <2>2. /\ DOMAIN boot' = DOMAIN boot /\ boot'.at = boot.at /\ boot'.i = boot.i + 1 /\ boot'.stage = "number"
        /\ boot'.held = Nil /\ boot'.names = boot.names /\ boot'.protos = boot.protos
        /\ boot'.placed = boot.placed
    BY <2>1, NextDefIs DEF MadeFine
  <2>3. Grounded(rows[on], DOMAIN rows)
    BY <2>1 DEF MadeFine, RowsFine
  <2>4. Sound(Set(rows[on].props, job), DOMAIN rows)
    <3>1. ASSUME NEW v PROVE Sound([schedule_jobs |-> v], DOMAIN rows)
      BY SoundLinks DEF RefKeys, Links
    <3>2. Sound(job, DOMAIN rows)
      BY <3>1
    <3> HIDE DEF job
    <3> QED
      BY <2>3, <3>2, SoundSet DEF Grounded
  <2>5. Grounded(row, DOMAIN rows)
    <3> HIDE DEF on, job
    <3> QED
      BY <2>3, <2>4, GroundedProps
  <2> HIDE DEF row, on
  <2>6. DOMAIN rows \cup {on} = DOMAIN rows
    BY <2>1
  <2>7. RowsFine' /\ DOMAIN rows' = DOMAIN rows
    BY <2>1, <2>5, <2>6, RowWritten DEF MadeFine
  <2>8. NumbersFine'
    BY <1>1, <2>1, <2>7, NumbersKept DEF MadeFine
  <2>9. /\ \A n \in DOMAIN boot.protos : boot.protos[n] \in DOMAIN rows'
        /\ \A n \in DOMAIN boot.placed : boot.placed[n] \in DOMAIN rows'
    BY <2>7 DEF MadeFine, NamesFine
  <2> QED
    BY <1>1, <2>1, <2>2, <2>7, <2>8, <2>9, DoneKeeps
<1> QED
  BY <1>3, <1>4

LEMMA CommitAdminKeeps ==
    ASSUME MadeFine, CommitAdmin, loading' = loading
    PROVE  MadeFine'
<1> DEFINE row == Row(Nil, Nil, <<>>, InitCreature("human", Made.blocks["anatomy"]))
<1>1. /\ boot.at = "admin" /\ boot.stage = "commit" /\ Write(boot.held, row)
      /\ boot' = [boot EXCEPT !.stage = "finish"]
  BY DEF CommitAdmin
<1>2. Grounded(row, DOMAIN rows)
  BY BareCreature, SoundBare, GroundedRow
<1>3. loading.at = "loaded"
  BY <1>1 DEF MadeFine, PhaseFine
<1> HIDE DEF row
<1> QED
  BY <1>1, <1>2, <1>3, CommitKeeps

LEMMA FinishAdminKeeps ==
    ASSUME MadeFine, FinishAdmin, loading' = loading
    PROVE  MadeFine'
<1> DEFINE made == boot.stage = "finish"
           id == IF made THEN boot.held ELSE Owner
           home == IF made THEN Get(boot.names, Made.start, Nil) ELSE Nil
           role == [permissions |-> WizardRole]
           lives == When(home # Nil, [home_location |-> home])
           row == Row(IF home # Nil THEN home ELSE rows[id].at, rows[id].proto, rows[id].triggers,
                      Set(rows[id].props, role ++ lives))
<1>1. /\ loading.at = "loaded" /\ boot.at = "admin"
      /\ made \/ (Owner \in DOMAIN rows /\ boot.stage = "number")
      /\ rows' = Only(id, row) ++ rows /\ boot' = [boot EXCEPT !.at = "ready"]
      /\ whole' = (whole \/ stops = 0) /\ counters' = counters /\ stops' = stops
  BY DEF FinishAdmin
<1>2. /\ DOMAIN boot' = DOMAIN boot /\ boot'.at = "ready" /\ boot'.i = boot.i /\ boot'.stage = boot.stage
      /\ boot'.held = boot.held /\ boot'.names = boot.names /\ boot'.protos = boot.protos
      /\ boot'.placed = boot.placed
  BY <1>1, BootFields DEF MadeFine, PhaseFine
<1>3. id \in DOMAIN rows
  BY <1>1 DEF MadeFine, StageFine
<1>4. home \in DOMAIN rows \cup {Nil}
  BY DEF MadeFine, NamesFine, Get, Has
<1> HIDE DEF id, home
<1>5. Grounded(rows[id], DOMAIN rows)
  BY <1>3 DEF MadeFine, RowsFine
<1>6. Grounded(row, DOMAIN rows)
  <2>1. Sound(role, DOMAIN rows)
    BY SoundLinks DEF RefKeys, Links
  <2>2. Sound(lives, DOMAIN rows)
    <3>1. Sound(Empty, DOMAIN rows)
      BY BareNothing, SoundBare
    <3>2. ASSUME NEW to \in DOMAIN rows \cup {Nil} PROVE Sound([home_location |-> to], DOMAIN rows)
      BY SoundLinks DEF RefKeys, Links
    <3> QED
      BY <1>4, <3>1, <3>2 DEF When
  <2> HIDE DEF role, lives
  <2>3. Sound(Set(rows[id].props, role ++ lives), DOMAIN rows)
    BY <1>5, <2>1, <2>2, SoundLaid, SoundSet DEF Grounded
  <2> QED
    BY <1>4, <1>5, <2>3, GroundedRow DEF Grounded
<1> HIDE DEF row
<1>7. DOMAIN rows \cup {id} = DOMAIN rows
  BY <1>3
<1>8. RowsFine' /\ DOMAIN rows' = DOMAIN rows
  BY <1>1, <1>6, <1>7, RowWritten DEF MadeFine
<1>9. NumbersFine'
  BY <1>1, <1>3, <1>8, NumbersKept DEF MadeFine
<1>10. NamesFine'
  BY <1>2, <1>8, NamesKept DEF MadeFine
<1>11. StageFine'
  BY <1>1, <1>2, <1>8 DEF MadeFine, StageFine, Making
<1>12. PassedFine'
  BY <1>2, PassedElse
<1>13. PhaseFine'
  BY <1>1, <1>2, PhaseKept DEF MadeFine, PhaseFine
<1> QED
  BY <1>8, <1>9, <1>10, <1>11, <1>12, <1>13 DEF MadeFine

LEMMA StopKeeps ==
    ASSUME BootstrapAssumption, MadeFine, Stop, loading' = loading
    PROVE  MadeFine'
<1>1. /\ boot.at # "start" /\ stops < MaxStops /\ boot' = Starting /\ stops' = stops + 1
      /\ rows' = rows /\ counters' = counters /\ whole' = whole
  BY DEF Stop
<1>2. /\ boot'.at = "start" /\ boot'.i = 1 /\ boot'.stage = "number" /\ boot'.held = Nil
      /\ boot'.names = Empty /\ boot'.protos = Empty /\ boot'.placed = Empty
  BY <1>1 DEF Starting
<1>3. RowsFine' /\ NumbersFine'
  BY <1>1, RowsKept DEF MadeFine, NumbersFine
<1>4. NamesFine'
  BY <1>2, NothingDown DEF NamesFine
<1>5. StageFine'
  BY <1>2 DEF StageFine
<1>6. PassedFine'
  BY <1>2, PassedElse
<1>7. PhaseFine'
  BY <1>1, <1>2 DEF MadeFine, PhaseFine, BootstrapAssumption
<1> QED
  BY <1>3, <1>4, <1>5, <1>6, <1>7 DEF MadeFine

\* A world is made step by step.
LEMMA BootKeeps ==
    ASSUME BootstrapAssumption, MadeFine, BootNext, loading' = loading
    PROVE  MadeFine'
<1>1. CASE Begin \/ TakeNumber \/ WriteShell \/ SavePlace \/ LinkPlace \/ CheckPlaces
  BY <1>1, BeginKeeps, TakeNumberKeeps, WriteShellKeeps, SavePlaceKeeps, LinkPlaceKeeps, CheckPlacesKeeps
<1>2. CASE \/ CommitPrototype \/ FinishPrototype \/ SkipPrototype
           \/ CommitItem \/ HangItem \/ FinishItem \/ PostponeItem \/ Round
  BY <1>2, PrototypesKeep, CommitItemKeeps, HangItemKeeps, FinishItemKeeps, PostponeItemKeeps, RoundKeeps
<1>3. CASE MakeNpc \/ MakeSpawners \/ MakeSchedule \/ CommitAdmin \/ FinishAdmin \/ NextPhase \/ Stop
  BY <1>3, MakeNpcKeeps, MakeSpawnersKeeps, MakeScheduleKeeps, CommitAdminKeeps, FinishAdminKeeps,
     NextPhaseKeeps, StopKeeps
<1> QED
  BY <1>1, <1>2, <1>3 DEF BootNext

\* Before it is made nothing is there but the residents.
LEMMA ResidentsGrounded ==
    ASSUME BootstrapAssumption, NEW id \in DOMAIN Residents
    PROVE  Grounded(Residents[id], DOMAIN Residents)
<1> DEFINE row == Residents[id]  D == DOMAIN Residents
<1>1. /\ DOMAIN row = {"at", "proto", "triggers", "props"}
      /\ Get(row.props, "contents", <<>>) \in Seq(D) /\ Refs(row) \subseteq D \cup {Nil}
  BY DEF BootstrapAssumption
<1> HIDE DEF row, D
<1>2. row.at \in D \cup {Nil} /\ row.proto \in D \cup {Nil}
  BY <1>1 DEF Refs
<1>3. \A k \in Links : k \in DOMAIN row.props => row.props[k] \in D \cup {Nil}
  <2>1. \A k \in Links : Get(row.props, k, Nil) \in D \cup {Nil}
    BY <1>1 DEF Refs
  <2> QED
    BY <2>1 DEF Get, Has
<1>4. "contents" \in DOMAIN row.props => row.props["contents"] \in Seq(D \cup {Nil})
  <2>1. \A s \in Seq(D) : s \in Seq(D \cup {Nil})
    OBVIOUS
  <2> QED
    BY <1>1, <2>1 DEF Get, Has
<1>5. "exits" \in DOMAIN row.props =>
        \A d \in DOMAIN row.props["exits"] : row.props["exits"][d] \in D \cup {Nil}
  BY <1>1 DEF Refs, Get, Has
<1>6. Grounded(row, D)
  BY <1>1, <1>2, <1>3, <1>4, <1>5 DEF Grounded, Sound
<1> QED
  BY <1>6 DEF row, D

LEMMA InitMade ==
    ASSUME BootstrapAssumption, BootInit
    PROVE  MadeFine
<1>1. /\ boot.at = "start" /\ boot.i = 1 /\ boot.stage = "number" /\ boot.held = Nil
      /\ boot.names = Empty /\ boot.protos = Empty /\ boot.placed = Empty /\ DOMAIN boot = DOMAIN Starting
  BY DEF BootInit, Starting
<1>2. rows = Residents /\ counters = Empty /\ stops = 0 /\ whole = FALSE
  BY DEF BootInit
<1>3. RowsFine
  BY <1>2, ResidentsGrounded DEF RowsFine
<1>4. NumbersFine
  BY <1>2, NothingDown DEF NumbersFine
<1>5. NamesFine
  BY <1>1, NothingDown DEF NamesFine
<1>6. StageFine
  BY <1>1 DEF StageFine
<1>7. PassedFine
  BY <1>1 DEF PassedFine
<1>8. PhaseFine
  <2>1. MaxStops \in Nat
    BY DEF BootstrapAssumption
  <2>2. stops \in 0 .. MaxStops
    BY <1>2, <2>1
  <2>3. whole \in BOOLEAN
    BY <1>2
  <2> QED
    BY <1>1, <2>2, <2>3 DEF PhaseFine
<1> QED
  BY <1>3, <1>4, <1>5, <1>6, <1>7, <1>8 DEF MadeFine

\* While a module is read its world is not begun.
LEMMA ReadKeeps ==
    ASSUME MadeFine, loading.at \in {"universe", "expand"}, UNCHANGED bootVars,
           loading'.at # "serving"
    PROVE  MadeFine'
<1>1. boot.at = "start"
  BY DEF MadeFine, PhaseFine
<1>2. boot.stage = "number"
  BY <1>1 DEF MadeFine, StageFine, Making
<1>3. rows' = rows /\ counters' = counters /\ boot' = boot /\ stops' = stops /\ whole' = whole
  BY DEF bootVars
<1>4. RowsFine' /\ NamesFine'
  BY <1>3 DEF MadeFine, RowsFine, NamesFine
<1>5. NumbersFine'
  BY <1>3 DEF MadeFine, NumbersFine
<1>6. StageFine'
  <2>1. boot.i \in Nat /\ boot.i = 1 /\ boot.held = Nil
    BY <1>1, <1>2 DEF MadeFine, StageFine
  <2> QED
    BY <1>1, <1>2, <1>3, <2>1 DEF StageFine
<1>7. PassedFine'
  BY <1>1, <1>3, PassedElse
<1>8. PhaseFine'
  BY <1>1, <1>3 DEF MadeFine, PhaseFine
<1> QED
  BY <1>4, <1>5, <1>6, <1>7, <1>8 DEF MadeFine

\* Only the players are kept.
LEMMA ServeMade ==
    ASSUME BootstrapAssumption, MadeFine, Serve
    PROVE  MadeFine'
<1>1. /\ rows' = [id \in PlayerIds |-> Shell] /\ counters' = Empty
      /\ boot' = [Starting EXCEPT !.at = "serving"] /\ stops' = MaxStops /\ whole' = FALSE
      /\ loading' = [StartLoading EXCEPT !.at = "serving"]
  BY DEF Serve
<1>2. /\ boot'.at = "serving" /\ boot'.i = 1 /\ boot'.stage = "number" /\ boot'.held = Nil
      /\ boot'.names = Empty /\ boot'.protos = Empty /\ boot'.placed = Empty /\ DOMAIN boot' = DOMAIN Starting
  BY <1>1 DEF Starting
<1>3. loading'.at = "serving"
  BY <1>1 DEF StartLoading
<1>4. RowsFine'
  <2>1. Grounded(Shell, DOMAIN rows')
    BY BareNothing, SoundBare, GroundedRow DEF Shell
  <2>2. \A id \in DOMAIN rows' : rows'[id] = Shell
    BY <1>1
  <2> QED
    BY <2>1, <2>2 DEF RowsFine
<1>5. NumbersFine'
  BY <1>1, <1>3, NothingDown DEF NumbersFine
<1>6. NamesFine'
  BY <1>2, NothingDown DEF NamesFine
<1>7. StageFine'
  BY <1>2 DEF StageFine
<1>8. PassedFine'
  BY <1>2, PassedElse
<1>9. PhaseFine'
  <2>1. MaxStops \in Nat
    BY DEF BootstrapAssumption
  <2>2. stops' = MaxStops /\ stops' \in 0 .. MaxStops
    BY <1>1, <2>1
  <2>3. whole' \in BOOLEAN
    BY <1>1
  <2> QED
    BY <1>2, <1>3, <2>2, <2>3 DEF PhaseFine
<1> QED
  BY <1>4, <1>5, <1>6, <1>7, <1>8, <1>9 DEF MadeFine

(***************************************************************************)
(* The files of a world.                                                   *)
(***************************************************************************)

LEMMA LoadingFields ==
    DOMAIN StartLoading = {"at", "line", "world", "stack", "visited", "sources", "worlds", "chosen"}
BY DEF StartLoading

\* What is found is one of the files.
LEMMA FoundIsThere ==
    ASSUME NEW l, NEW base, Found(l, base) # Nothing
    PROVE  Found(l, base) \in DOMAIN text
<1> DEFINE c == Candidates(l, base)
           there == {i \in DOMAIN c : <<c[i], l.key>> \in DOMAIN text}
<1>1. DOMAIN c = {1} \/ DOMAIN c = {1, 2, 3}
  <2>1. \A a, b, d : DOMAIN <<a>> = {1} /\ DOMAIN <<a, b, d>> = {1, 2, 3}
    OBVIOUS
  <2> QED
    BY <2>1 DEF Candidates
<1>2. there # {}
  BY DEF Found
<1>3. Found(l, base) = <<c[CHOOSE i \in there : \A j \in there : i <= j], l.key>>
  BY <1>2 DEF Found
<1>4. \E i \in there : \A j \in there : i <= j
  <2> HIDE DEF c
  <2>1. there \subseteq {1, 2, 3}
    BY <1>1
  <2> HIDE DEF there
  <2>2. CASE 1 \in there
    BY <2>1, <2>2
  <2>3. CASE 1 \notin there /\ 2 \in there
    BY <2>1, <2>3
  <2>4. CASE 1 \notin there /\ 2 \notin there
    <3>1. PICK i : i \in there
      BY <1>2
    <3>2. i = 3
      BY <2>1, <2>4, <3>1
    <3>3. \A j \in there : i <= j
      BY <2>1, <2>4, <3>2
    <3> QED
      BY <3>1, <3>3
  <2> QED
    BY <2>2, <2>3, <2>4
<1>5. (CHOOSE i \in there : \A j \in there : i <= j) \in there
  BY <1>4
<1> QED
  BY <1>3, <1>5

\* The next line is read, of the file above or of one that it includes.
LEMMA ExpandKeeps ==
    ASSUME FilesFine, Expand
    PROVE  FilesFine'
<1> DEFINE n == Len(loading.stack)  top == loading.stack[n]  l == text[top.file][top.line]
           rest == [loading.stack EXCEPT ![n].line = @ + 1]
           Frames == [file : DOMAIN text, line : Nat]
<1>0. text' = text
  BY DEF Expand
<1>1. /\ loading.at = "expand" /\ loading.stack \in Seq(Frames) /\ n \in Nat \ {0} /\ top \in Frames
      /\ loading.sources \in Seq(DOMAIN text) /\ loading.visited \subseteq DOMAIN text
  <2>1. /\ loading.at = "expand" /\ loading.stack # <<>> /\ loading.stack \in Seq(Frames)
        /\ loading.sources \in Seq(DOMAIN text) /\ loading.visited \subseteq DOMAIN text
    BY DEF Expand, FilesFine
  <2> HIDE DEF Frames
  <2>2. n \in Nat \ {0} /\ top \in Frames
    BY <2>1
  <2> QED
    BY <2>1, <2>2
<1>2. rest \in Seq(Frames)
  BY <1>1
<1>3. CASE loading' = [loading EXCEPT !.stack = SubSeq(@, 1, n - 1), !.sources = Append(@, top.file)]
  <2>1. /\ loading'.at = loading.at /\ loading'.visited = loading.visited /\ DOMAIN loading' = DOMAIN loading
        /\ loading'.stack = SubSeq(loading.stack, 1, n - 1)
        /\ loading'.sources = Append(loading.sources, top.file)
    BY <1>3, LoadingFields DEF FilesFine
  <2>2. loading'.sources \in Seq(DOMAIN text)
    BY <1>1, <2>1
  <2>3. loading'.stack \in Seq(Frames)
    <3> HIDE DEF Frames
    <3>1. n - 1 \in 0 .. n
      BY <1>1
    <3>2. SubSeq(loading.stack, 1, n - 1) \in Seq(Frames)
      BY <1>1, <3>1
    <3> QED
      BY <2>1, <3>2
  <2> QED
    BY <1>0, <1>1, <2>1, <2>2, <2>3 DEF FilesFine
<1>4. CASE loading' = [loading EXCEPT !.stack = rest]
  <2>1. /\ loading'.at = loading.at /\ loading'.visited = loading.visited /\ DOMAIN loading' = DOMAIN loading
        /\ loading'.stack = rest /\ loading'.sources = loading.sources
    BY <1>4, LoadingFields DEF FilesFine
  <2> QED
    BY <1>0, <1>1, <1>2, <2>1 DEF FilesFine
<1>5. CASE Fail
  BY <1>0, <1>5, LoadingFields DEF FilesFine, Fail
<1>6. ASSUME NEW found \in DOMAIN text,
             loading' = [loading EXCEPT !.visited = @ \cup {found},
                                        !.stack = Append(rest, [file |-> found, line |-> 1])]
      PROVE  FilesFine'
  <2>1. /\ loading'.at = loading.at /\ loading'.visited = loading.visited \cup {found}
        /\ DOMAIN loading' = DOMAIN loading /\ loading'.sources = loading.sources
        /\ loading'.stack = Append(rest, [file |-> found, line |-> 1])
    BY <1>6, LoadingFields DEF FilesFine
  <2>2. [file |-> found, line |-> 1] \in Frames
    OBVIOUS
  <2> HIDE DEF rest, Frames
  <2>3. loading'.stack \in Seq(Frames)
    BY <1>2, <2>1, <2>2
  <2> QED
    BY <1>0, <1>1, <2>1, <2>3 DEF FilesFine, Frames
<1>7. \/ loading' = [loading EXCEPT !.stack = SubSeq(@, 1, n - 1), !.sources = Append(@, top.file)]
      \/ loading' = [loading EXCEPT !.stack = rest]
      \/ Fail
      \/ /\ Found(l, top.file) # Nothing
         /\ loading' = [loading EXCEPT !.visited = @ \cup {Found(l, top.file)},
                                       !.stack = Append(rest, [file |-> Found(l, top.file), line |-> 1])]
  BY DEF Expand
<1> HIDE DEF n, top, l, rest
<1> QED
  BY <1>3, <1>4, <1>5, <1>6, <1>7, FoundIsThere

LEMMA LoaderKeeps ==
    ASSUME FilesFine, LoaderNext
    PROVE  FilesFine' /\ loading.at \in {"universe", "expand"} /\ loading'.at # "serving"
<1>0. loading.at \in {"universe", "expand"} /\ text' = text
  BY DEF LoaderNext, IncludeWorld, Expand, ReadWorld, ChooseWorld
<1>1. CASE Fail
  BY <1>0, <1>1, LoadingFields DEF FilesFine, Fail
<1>2. CASE IncludeWorld /\ ~Fail
  <2> DEFINE l == text[UniverseFile][loading.line]
  <2>1. CASE loading' = [loading EXCEPT !.line = @ + 1]
    BY <1>0, <2>1, LoadingFields DEF FilesFine
  <2>2. CASE /\ EntryFile(l.key) \in DOMAIN text
             /\ loading' = [loading EXCEPT !.at = "expand", !.world = l.key,
                              !.visited = {EntryFile(l.key)}, !.sources = <<>>,
                              !.stack = <<[file |-> EntryFile(l.key), line |-> 1]>>]
    <3>1. /\ loading'.at = "expand" /\ loading'.visited = {EntryFile(l.key)} /\ loading'.sources = <<>>
          /\ loading'.stack = <<[file |-> EntryFile(l.key), line |-> 1]>> /\ DOMAIN loading' = DOMAIN loading
      BY <2>2, LoadingFields DEF FilesFine
    <3>2. <<>> \in Seq(DOMAIN text)
      OBVIOUS
    <3>3. [file |-> EntryFile(l.key), line |-> 1] \in [file : DOMAIN text, line : Nat]
      BY <2>2
    <3>4. \A S : \A s \in S : <<s>> \in Seq(S)
      OBVIOUS
    <3>5. loading'.stack \in Seq([file : DOMAIN text, line : Nat])
      BY <3>1, <3>3, <3>4
    <3> QED
      BY <1>0, <2>2, <3>1, <3>2, <3>5 DEF FilesFine
  <2> QED
    BY <1>2, <1>0, <2>1, <2>2 DEF IncludeWorld
<1>3. CASE Expand
  <2>1. loading'.at # "serving"
    <3>1. loading'.at \in {loading.at, "failed"}
      BY <1>3, LoadingFields DEF Expand, Fail, FilesFine
    <3> QED
      BY <1>0, <3>1
  <2> QED
    BY <1>0, <1>3, <2>1, ExpandKeeps
<1>4. CASE (ReadWorld \/ ChooseWorld) /\ ~Fail
  <2>1. /\ loading'.at \in {"universe", "loaded"} /\ DOMAIN loading' = DOMAIN loading
        /\ loading'.visited = loading.visited
        /\ loading'.sources = loading.sources /\ loading'.stack = loading.stack
    BY <1>4, LoadingFields DEF FilesFine, ReadWorld, ChooseWorld
  <2> QED
    BY <1>0, <2>1 DEF FilesFine
<1> QED
  BY <1>0, <1>1, <1>2, <1>3, <1>4 DEF LoaderNext

(***************************************************************************)
(* The types of what the login keeps, and the whole.                       *)
(***************************************************************************)

SeatsFine ==
    /\ seat \in [Nicks -> DOMAIN players \cup {Nobody}]
    /\ shown \in [Nicks -> Secrets \cup {Nobody}] /\ account \in [Nicks -> Accounts \cup {Nobody}]
    /\ clock \in 0 .. MaxClock

LEMMA SeatsKept ==
    ASSUME ClockAssumption, SeatsFine, AccessNext
    PROVE  SeatsFine'
<1>1. ASSUME UNCHANGED <<players, seat, shown, account, clock>>
      PROVE  SeatsFine'
  BY <1>1 DEF SeatsFine
<1>2. CASE Second
  <2>1. clock' \in 0 .. MaxClock
    BY <1>2 DEF Second, SeatsFine, ClockAssumption
  <2> QED
    BY <1>2, <2>1 DEF Second, SeatsFine
<1>3. ASSUME NEW n \in Nicks, Leave(n), UNCHANGED <<players, clock>>
      PROVE  SeatsFine'
  BY <1>3 DEF SeatsFine, Leave
<1>4. ASSUME NEW n \in Nicks, NEW a \in Tags, NEW who \in DOMAIN players \cup {Nobody},
             NEW token \in Secrets \cup {Nobody}, Login(n, who, token, a)
      PROVE  SeatsFine'
  <2>1. UNCHANGED <<players, clock>>
    BY <1>4 DEF Login
  <2>2. CASE UNCHANGED <<seat, shown, account>>
    BY <1>1, <2>1, <2>2
  <2>3. CASE \E p \in ResolvePlayer(n, who, token) :
               /\ seat' = [seat EXCEPT ![n] = p] /\ shown' = [shown EXCEPT ![n] = token]
               /\ account' = [account EXCEPT ![n] = a]
    <3>1. ResolvePlayer(n, who, token) \subseteq DOMAIN players
      BY DEF ResolvePlayer
    <3>2. a \in Accounts \cup {Nobody}
      BY DEF Tags
    <3> QED
      BY <2>1, <2>3, <3>1, <3>2 DEF SeatsFine
  <2> QED
    BY <1>4, <2>2, <2>3 DEF Login
<1>5. ASSUME NEW n \in Nicks, Quit(n) \/ Disconnect(n)
      PROVE  SeatsFine'
  BY <1>1, <1>3, <1>5 DEF Quit, Disconnect, Check
<1>6. ASSUME NEW n \in Nicks, NEW verb, Command(n, verb) \/ Go(n, verb) \/ WorldOoc(n)
      PROVE  SeatsFine'
  BY <1>1, <1>6 DEF Command, Go, WorldOoc
<1> QED
  BY <1>2, <1>4, <1>5, <1>6 DEF AccessNext

Fine == FilesFine /\ MadeFine /\ SeatsFine /\ Admitted

LEMMA InitFine ==
    ASSUME AccessAssumption, ClockAssumption, BootstrapAssumption, Init
    PROVE  Fine
<1>1. FilesFine
  <2>1. loading = StartLoading
    BY DEF Init, LoaderInit
  <2>2. /\ loading.at = "universe" /\ loading.sources = <<>> /\ loading.visited = {} /\ loading.stack = <<>>
    BY <2>1 DEF StartLoading
  <2>3. \A S : <<>> \in Seq(S)
    OBVIOUS
  <2> QED
    BY <2>1, <2>2, <2>3 DEF FilesFine
<1>2. MadeFine
  BY InitMade DEF Init
<1>3. SeatsFine
  BY DEF Init, AccessInit, SeatsFine, ClockAssumption
<1>4. Admitted
  BY InitAdmitted DEF Init
<1> QED
  BY <1>1, <1>2, <1>3, <1>4 DEF Fine

LEMMA NextFine ==
    ASSUME AccessAssumption, ClockAssumption, BootstrapAssumption, Fine, [Next]_vars
    PROVE  Fine'
<1>1. Admitted'
  BY NextAdmitted DEF Fine
<1>2. ASSUME UNCHANGED loaderVars PROVE FilesFine' /\ loading' = loading
  BY <1>2 DEF Fine, FilesFine, loaderVars
<1>3. ASSUME UNCHANGED accessVars PROVE SeatsFine'
  BY <1>3 DEF Fine, SeatsFine, accessVars
<1>4. ASSUME UNCHANGED <<loaderVars, bootVars>> PROVE MadeFine' /\ FilesFine'
  <2>1. loading' = loading /\ FilesFine'
    BY <1>2, <1>4
  <2>2. rows' = rows /\ counters' = counters /\ boot' = boot /\ stops' = stops /\ whole' = whole
    BY <1>4 DEF bootVars
  <2>3. RowsFine' /\ NumbersFine' /\ NamesFine'
    BY <2>1, <2>2 DEF Fine, MadeFine, RowsFine, NumbersFine, NamesFine
  <2>4. Definitions' = Definitions /\ Def' = Def /\ Places' = Places /\ Npcs' = Npcs
    BY <2>1, <2>2, SameDef DEF Places, Npcs, Made
  <2>5. StageFine'
    BY <2>1, <2>2, <2>4 DEF Fine, MadeFine, StageFine
  <2>6. PassedFine'
    BY <2>1, <2>2, <2>4 DEF Fine, MadeFine, PassedFine
  <2>7. PhaseFine'
    BY <2>1, <2>2 DEF Fine, MadeFine, PhaseFine
  <2> QED
    BY <2>1, <2>3, <2>5, <2>6, <2>7 DEF MadeFine
<1>5. CASE LoaderNext /\ UNCHANGED <<bootVars, accessVars>>
  BY <1>1, <1>3, <1>5, LoaderKeeps, ReadKeeps DEF Fine
<1>6. CASE BootNext /\ UNCHANGED <<loaderVars, accessVars>>
  BY <1>1, <1>2, <1>3, <1>6, BootKeeps DEF Fine
<1>7. CASE Serve
  <2>1. FilesFine'
    <3>1. loading' = [StartLoading EXCEPT !.at = "serving"]
      BY <1>7 DEF Serve
    <3>2. /\ loading'.at = "serving" /\ loading'.sources = <<>> /\ loading'.visited = {}
          /\ loading'.stack = <<>> /\ DOMAIN loading' = DOMAIN StartLoading
      BY <3>1 DEF StartLoading
    <3>3. \A S : <<>> \in Seq(S)
      OBVIOUS
    <3> QED
      BY <3>2, <3>3 DEF FilesFine
  <2>2. SeatsFine'
    <3>1. \A n \in Nicks : seat[n] = Nobody
      BY <1>7 DEF Fine, Admitted, Seated, Serve
    <3>2. UNCHANGED <<seat, shown, account, clock>>
      BY <1>7 DEF Serve, OpenSessions
    <3> QED
      BY <3>1, <3>2 DEF Fine, SeatsFine
  <2>3. MadeFine'
    BY <1>7, ServeMade DEF Fine
  <2> QED
    BY <1>1, <2>1, <2>2, <2>3 DEF Fine
<1>8. CASE AccessNext /\ UNCHANGED <<loaderVars, bootVars>>
  BY <1>1, <1>4, <1>8, SeatsKept DEF Fine
<1>9. CASE UNCHANGED vars
  BY <1>1, <1>3, <1>4, <1>9 DEF Fine, vars
<1> QED
  BY <1>5, <1>6, <1>7, <1>8, <1>9 DEF Next

\* What the invariant says of what TypeOK names.
LEMMA FineTypes ==
    ASSUME Fine
    PROVE  TypeOK
<1>1. /\ loading.at \in {"universe", "expand", "loaded", "failed", "serving"}
      /\ ToSet(loading.sources) \subseteq DOMAIN text /\ loading.visited \subseteq DOMAIN text
  BY DEF Fine, FilesFine, ToSet
<1>2. /\ boot.at \in ToSet(Phases) \cup {"start", "ready", "serving"}
      /\ boot.stage \in {"number", "shell", "commit", "hang", "finish"}
  <2>1. ToSet(Phases) = {"places", "links", "check", "prototypes", "items", "npcs", "spawners", "loot",
                         "resources", "schedules", "admin", "done"}
    <3>1. DOMAIN Phases = 1 .. 12
      BY DEF Phases
    <3>2. ToSet(Phases) = {Phases[i] : i \in 1 .. 12}
      BY <3>1 DEF ToSet
    <3>3. 1 .. 12 = {1, 2, 3, 4, 5, 6, 7, 8, 9, 10, 11, 12}
      OBVIOUS
    <3> QED
      BY <3>2, <3>3 DEF Phases
  <2> QED
    BY <2>1 DEF Fine, MadeFine, PhaseFine, StageFine
<1>3. ASSUME NEW id \in DOMAIN rows \ DOMAIN Residents,
             id[1] \in {"player", "area", "room", "item"}, loading.at # "serving"
      PROVE  id[3] < Get(counters, <<id[1], id[2]>>, 1)
  BY <1>3 DEF Fine, MadeFine, NumbersFine, Numbered
<1>4. boot.held # Nil /\ boot.stage \notin {"number", "shell"} => boot.held \in DOMAIN rows
  BY DEF Fine, MadeFine, StageFine
<1>5. \A id \in PlaceIds(boot.names) : id \in DOMAIN rows
  BY DEF Fine, MadeFine, NamesFine, PlaceIds
<1>6. stops \in 0 .. MaxStops /\ whole \in BOOLEAN
  BY DEF Fine, MadeFine, PhaseFine
<1>7. ASSUME NEW n \in DOMAIN buckets, NEW k \in RateLimitKinds
      PROVE  buckets[n][k].tokens \in 0 .. Full(k) /\ buckets[n][k].last \in 0 .. clock
  <2>1. IsBucket(buckets[n][k], k) /\ buckets[n][k].last <= clock /\ clock \in Nat
    BY DEF Fine, Admitted, Limits, Agrees
  <2> QED
    BY <2>1 DEF IsBucket
<1>8. policy = Nobody => \A n \in Nicks : seat[n] = Nobody
  BY DEF Fine, Admitted, Seated
<1> QED
  BY <1>1, <1>2, <1>3, <1>4, <1>5, <1>6, <1>7, <1>8 DEF TypeOK, Fine, SeatsFine

LEMMA AlwaysFine == Spec => []Fine
<1>1. AccessAssumption /\ ClockAssumption /\ BootstrapAssumption
  BY AccessAssumption, ClockAssumption, BootstrapAssumption
<1>2. Init => Fine
  BY <1>1, InitFine
<1>3. Fine /\ [Next]_vars => Fine'
  BY <1>1, NextFine
<1> QED
  BY <1>2, <1>3, PTL DEF Spec

\* While a module is read and its world is made, and after, everything has its
\* type: an id that is in use was taken from its counter, what a creation
\* holds is there as soon as its shell is, and nobody is in before the world is.
THEOREM TypeOKHolds == Spec => []TypeOK
BY FineTypes, AlwaysFine, PTL

\* However often the process ends while a world is made, of whatever files: at
\* no moment does a row refer to one that is not there.
THEOREM NothingDanglesHolds == Spec => []NothingDangles
<1>1. Fine => NothingDangles
  <2> SUFFICES ASSUME Fine, NEW id \in DOMAIN rows
               PROVE  Refs(rows[id]) \ {Nil} \subseteq DOMAIN rows
    BY DEF NothingDangles
  <2>1. Grounded(rows[id], DOMAIN rows)
    BY DEF Fine, MadeFine, RowsFine
  <2> QED
    BY <2>1, GroundedRefs
<1> QED
  BY <1>1, AlwaysFine, PTL
=============================================================================
