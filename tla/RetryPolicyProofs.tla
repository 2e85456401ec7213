--------------------------- MODULE RetryPolicyProofs ---------------------------
(* Theorems about RetryPolicy, for every limit, policy, attempt and override.  *)
EXTENDS RetryPolicy, WellFoundedInduction, TLAPS

-----------------------------------------------------------------------------
(* Arithmetic.                                                               *)

\* Quotient and remainder.
LEMMA Division ==
  ASSUME NEW a \in Int, NEW m \in Nat \ {0}
  PROVE  /\ a \div m \in Int /\ a % m \in 0 .. m - 1
         /\ a = m * (a \div m) + (a % m)
BY Z3

\* A product is smaller than the product with a larger factor.
LEMMA Monotone ==
  ASSUME NEW m \in Nat, NEW a \in Int, NEW b \in Int, a <= b
  PROVE  m * a \in Int /\ m * b \in Int /\ m * a <= m * b
BY Z3

\* A multiple leaves no remainder.
LEMMA Multiple ==
  ASSUME NEW m \in Nat \ {0}, NEW k \in Int
  PROVE  m * k \in Int /\ (m * k) % m = 0
<1> DEFINE q == (m * k) \div m
           r == (m * k) % m
<1>1. m * k \in Int
  OBVIOUS
<1>2. q \in Int /\ r \in 0 .. m - 1 /\ m * k = m * q + r
  BY <1>1, Division
<1> HIDE DEF q, r
<1>3. r = m * (k - q)
  BY <1>2, Z3
<1>4. CASE k - q >= 1
  <2>1. m * 1 <= m * (k - q)
    BY <1>2, <1>4, Monotone
  <2>2. QED
    BY <1>2, <1>3, <2>1
<1>5. CASE k - q <= -1
  <2>1. m * (k - q) <= m * (-1)
    BY <1>2, <1>5, Monotone
  <2>2. QED
    BY <1>2, <1>3, <2>1
<1>6. CASE k = q
  BY <1>2, <1>6 DEF r
<1>7. QED
  BY <1>1, <1>2, <1>4, <1>5, <1>6

\* A product is a multiple if a factor is.
LEMMA MultipleOfProduct ==
  ASSUME NEW m \in Nat \ {0}, NEW a \in Int, NEW k \in Int, a % m = 0
  PROVE  a * k \in Int /\ (a * k) % m = 0
<1> DEFINE q == a \div m
<1>1. q \in Int /\ a = m * q
  BY Division
<1> HIDE DEF q
<1>2. q * k \in Int /\ a * k = m * (q * k)
  BY <1>1, Z3
<1>3. QED
  BY <1>1, <1>2, Multiple

\* The quotient is the largest factor.
LEMMA Quotient ==
  ASSUME NEW M \in Int, NEW n \in Nat \ {0}, NEW a \in Int, a * n <= M
  PROVE  a <= M \div n
<1> DEFINE q == M \div n
           r == M % n
<1>1. q \in Int /\ r \in 0 .. n - 1 /\ M = n * q + r
  BY Division
<1> HIDE DEF q, r
<1>2. SUFFICES ASSUME q + 1 <= a PROVE FALSE
  BY <1>1 DEF q
<1>3. n * (q + 1) <= n * a
  BY <1>1, <1>2, Monotone
<1>4. n * (q + 1) = n * q + n /\ n * a = a * n
  BY <1>1, Z3
<1>5. QED
  BY <1>1, <1>3, <1>4

\* Rounding up to the next multiple stays below a multiple.
LEMMA RoundedUp ==
  ASSUME NEW m \in Nat \ {0}, NEW a \in Int, NEW b \in Int, a <= b, a % m # 0, b % m = 0
  PROVE  /\ a + (m - (a % m)) \in Int
         /\ (a + (m - (a % m))) % m = 0
         /\ a + (m - (a % m)) <= b /\ a < a + (m - (a % m))
<1> DEFINE q == a \div m
           r == a % m
           s == b \div m
<1>1. q \in Int /\ r \in 0 .. m - 1 /\ a = m * q + r /\ s \in Int /\ b = m * s
  BY Division
<1>2. r # 0
  OBVIOUS
<1> HIDE DEF q, r, s
<1>3. a + (m - r) = m * (q + 1)
  BY <1>1, Z3
<1>4. q < s
  <2>1. SUFFICES ASSUME s <= q PROVE FALSE
    BY <1>1
  <2>2. m * s <= m * q
    BY <1>1, <2>1, Monotone
  <2>3. m * q \in Int
    BY <1>1
  <2>4. QED
    BY <1>1, <1>2, <2>2, <2>3
<1>5. m * (q + 1) <= m * s
  BY <1>1, <1>4, Monotone
<1>6. (m * (q + 1)) % m = 0
  BY <1>1, Multiple
<1>7. a + (m - r) \in Int /\ a < a + (m - r)
  BY <1>1
<1>8. QED
  BY <1>1, <1>3, <1>5, <1>6, <1>7 DEF r

-----------------------------------------------------------------------------
(* The loop.  The functions that are defined by recursion over the attempts    *)
(* exist, and agree with the growth they stand for, because there is no least  *)
(* attempt for which they do not.                                              *)

\* A set of numbers has a least one.
LEMMA LeastAttempt ==
  ASSUME NEW S \in SUBSET Nat, S # {}
  PROVE  \E n \in S : \A m \in S : n <= m
<1> DEFINE R == OpToRel(<, Nat)
<1>1. R = {p \in Nat \X Nat : p[1] < p[2]}
  BY DEF OpToRel
<1>2. IsWellFoundedOn(R, Nat)
  BY NatLessThanWellFounded
<1> HIDE DEF R
<1>3. PICK n \in S : \A m \in S : ~ (<<m, n>> \in R)
  BY <1>2, WFMin
<1>4. \A m \in S : ~(m < n)
  BY <1>1, <1>3
<1>5. QED
  BY <1>4

\* One turn of the loop.
Step(p, a) ==
  IF a >= p.max THEN a ELSE IF a > p.max \div 2 THEN p.max ELSE Wrap(2 * a)

\* The delays of the first n attempts, as Exponential computes them.
Delays(p, n, f) == f = [k \in 1 .. n |-> IF k = 1 THEN p.delay ELSE Step(p, f[k - 1])]

\* The powers of two of the first n attempts.
Powers(n, f) == f = [k \in 1 .. n |-> IF k = 1 THEN 1 ELSE 2 * f[k - 1]]

\* The loop of every number of attempts has its delays.
LEMMA DelaysExist ==
  ASSUME NEW p, NEW n \in Nat
  PROVE  \E f : Delays(p, n, f)
<1> DEFINE S == {m \in Nat : ~ \E f : Delays(p, m, f)}
<1>1. SUFFICES ASSUME S # {} PROVE FALSE
  OBVIOUS
<1>2. PICK m \in S : \A l \in S : m <= l
  BY <1>1, LeastAttempt
<1>3. m # 0
  <2>1. Delays(p, 0, [k \in 1 .. 0 |-> 0])
    BY DEF Delays
  <2>2. QED
    BY <2>1
<1>4. PICK f : Delays(p, m - 1, f)
  <2>1. m - 1 \in Nat /\ ~(m <= m - 1)
    BY <1>3
  <2>2. QED
    BY <1>2, <2>1
<1> DEFINE g == [k \in 1 .. m |-> IF k = m THEN (IF k = 1 THEN p.delay ELSE Step(p, f[k - 1])) ELSE f[k]]
<1>5. ASSUME NEW k \in 1 .. m
      PROVE  g[k] = IF k = 1 THEN p.delay ELSE Step(p, g[k - 1])
  <2>1. k # 1 => k - 1 \in 1 .. m /\ k - 1 # m
    BY <1>3
  <2>2. k # 1 => g[k - 1] = f[k - 1]
    BY <2>1
  <2>3. CASE k = m
    BY <2>2, <2>3
  <2>4. CASE k # m
    <3>1. k \in 1 .. m - 1 /\ f = [j \in 1 .. m - 1 |-> IF j = 1 THEN p.delay ELSE Step(p, f[j - 1])]
      BY <1>4, <2>4 DEF Delays
    <3>2. f[k] = IF k = 1 THEN p.delay ELSE Step(p, f[k - 1])
      BY <3>1
    <3>3. QED
      BY <2>2, <2>4, <3>2
  <2>5. QED
    BY <2>3, <2>4
<1>6. Delays(p, m, g)
  <2>1. g = [k \in 1 .. m |-> g[k]]
    OBVIOUS
  <2> HIDE DEF g
  <2>2. QED
    BY <1>5, <2>1 DEF Delays
<1>7. QED
  BY <1>6

\* And the same for the powers.
LEMMA PowersExist ==
  ASSUME NEW n \in Nat
  PROVE  \E f : Powers(n, f)
<1> DEFINE S == {m \in Nat : ~ \E f : Powers(m, f)}
<1>1. SUFFICES ASSUME S # {} PROVE FALSE
  OBVIOUS
<1>2. PICK m \in S : \A l \in S : m <= l
  BY <1>1, LeastAttempt
<1>3. m # 0
  <2>1. Powers(0, [k \in 1 .. 0 |-> 0])
    BY DEF Powers
  <2>2. QED
    BY <2>1
<1>4. PICK f : Powers(m - 1, f)
  <2>1. m - 1 \in Nat /\ ~(m <= m - 1)
    BY <1>3
  <2>2. QED
    BY <1>2, <2>1
<1> DEFINE g == [k \in 1 .. m |-> IF k = m THEN (IF k = 1 THEN 1 ELSE 2 * f[k - 1]) ELSE f[k]]
<1>5. ASSUME NEW k \in 1 .. m
      PROVE  g[k] = IF k = 1 THEN 1 ELSE 2 * g[k - 1]
  <2>1. k # 1 => k - 1 \in 1 .. m /\ k - 1 # m
    BY <1>3
  <2>2. k # 1 => g[k - 1] = f[k - 1]
    BY <2>1
  <2>3. CASE k = m
    BY <2>2, <2>3
  <2>4. CASE k # m
    <3>1. k \in 1 .. m - 1 /\ f = [j \in 1 .. m - 1 |-> IF j = 1 THEN 1 ELSE 2 * f[j - 1]]
      BY <1>4, <2>4 DEF Powers
    <3>2. f[k] = IF k = 1 THEN 1 ELSE 2 * f[k - 1]
      BY <3>1
    <3>3. QED
      BY <2>2, <2>4, <3>2
  <2>5. QED
    BY <2>3, <2>4
<1>6. Powers(m, g)
  <2>1. g = [k \in 1 .. m |-> g[k]]
    OBVIOUS
  <2> HIDE DEF g
  <2>2. QED
    BY <1>5, <2>1 DEF Powers
<1>7. QED
  BY <1>6

\* Exponential is the last delay of the loop.
LEMMA ExponentialDelays ==
  ASSUME NEW p, NEW n \in Nat \ {0}
  PROVE  \E f : Delays(p, n, f) /\ Exponential(p, n) = f[n]
<1> DEFINE D(f) == f = [k \in 1 .. n |-> IF k = 1 THEN p.delay ELSE Step(p, f[k - 1])]
           c == CHOOSE f : D(f)
<1>1. \E f : D(f)
  <2>1. PICK f : Delays(p, n, f)
    BY DelaysExist, Zenon
  <2>2. D(f)
    BY <2>1 DEF Delays
  <2>3. QED
    BY <2>2
<1>2. D(c)
  BY <1>1
<1>3. Exponential(p, n) = c[n]
  BY DEF Exponential, Step
<1>4. QED
  BY <1>2, <1>3 DEF Delays

\* Doubled is the last power of two.
LEMMA DoubledPowers ==
  ASSUME NEW n \in Nat \ {0}
  PROVE  \E f : Powers(n, f) /\ Doubled(n) = f[n]
<1> DEFINE D(f) == f = [k \in 1 .. n |-> IF k = 1 THEN 1 ELSE 2 * f[k - 1]]
           c == CHOOSE f : D(f)
<1>1. \E f : D(f)
  BY PowersExist DEF Powers
<1>2. D(c)
  BY <1>1
<1>3. Doubled(n) = c[n]
  BY DEF Doubled
<1>4. QED
  BY <1>2, <1>3 DEF Powers

-----------------------------------------------------------------------------
(* The delay of a policy.                                                    *)

\* The fields of a policy.
LEMMA PolicyFields ==
  ASSUME NEW p \in Policy
  PROVE  /\ p.delay \in 1 .. MaxTaskRetryDelay /\ p.max \in 1 .. MaxTaskRetryDelay
         /\ p.delay % Millisecond = 0 /\ p.max % Millisecond = 0
         /\ p.delay <= p.max
         /\ p.backoff \in {"fixed", "linear", "exponential"}
BY DEF Policy, WholeMilliseconds

\* The limits keep every product of a delay and an attempt in range.
LEMMA Limits ==
  /\ MaxInt \in Nat /\ Millisecond \in Nat \ {0} /\ MaxTaskRetryDelay \in Nat
  /\ MaxTaskAttempts \in Nat \ {0}
  /\ MaxTaskRetryDelay <= MaxInt /\ MaxTaskRetryDelay % Millisecond = 0
  /\ \A d \in 0 .. MaxTaskRetryDelay, n \in 1 .. MaxTaskAttempts : d * n \in Nat /\ d * n <= MaxInt
<1>1. /\ MaxInt \in Nat /\ Millisecond \in Nat \ {0} /\ MaxTaskRetryDelay \in Nat
      /\ MaxTaskAttempts \in Nat \ {0} /\ MaxTaskRetryDelay % Millisecond = 0
      /\ MaxTaskAttempts * MaxTaskRetryDelay <= MaxInt
  BY RetryAssumption
<1>2. ASSUME NEW d \in 0 .. MaxTaskRetryDelay, NEW n \in 1 .. MaxTaskAttempts
      PROVE  d * n \in Nat /\ d * n <= MaxInt
  <2>1. /\ d * 0 <= d * n /\ d * n <= d * MaxTaskAttempts /\ d * n \in Int
    BY <1>1, Monotone
  <2>2. MaxTaskAttempts * d <= MaxTaskAttempts * MaxTaskRetryDelay
    BY <1>1, Monotone
  <2>3. d * MaxTaskAttempts = MaxTaskAttempts * d /\ d * 0 = 0
    BY <1>1, Z3
  <2>4. QED
    BY <1>1, <2>1, <2>2, <2>3
<1>3. MaxTaskRetryDelay * 1 <= MaxInt
  BY <1>1, <1>2
<1>4. QED
  BY <1>1, <1>2, <1>3

\* The linear delay does not wrap: the guard of the product never fails within
\* the limits.
LEMMA LinearGrowth ==
  ASSUME NEW p \in Policy, NEW n \in 1 .. MaxTaskAttempts
  PROVE  Linear(p, n) = p.delay * n
<1>1. /\ p.delay \in 1 .. MaxTaskRetryDelay /\ n \in Nat \ {0} /\ MaxInt \in Nat
      /\ p.delay * n \in Nat /\ p.delay * n <= MaxInt
  <2>1. p.delay \in 1 .. MaxTaskRetryDelay /\ n \in Nat \ {0} /\ MaxInt \in Nat
    BY PolicyFields, Limits
  <2>2. p.delay \in 0 .. MaxTaskRetryDelay
    BY <2>1
  <2>3. QED
    BY <2>1, <2>2, Limits
<1>2. p.delay <= MaxInt \div n
  BY <1>1, Quotient
<1>3. n = 1 => p.delay * n = p.delay
  BY <1>1
<1>4. QED
  BY <1>1, <1>2, <1>3 DEF Linear, Wrap

\* The loop doubles up to the maximum, and stays there.
LEMMA ExponentialGrowth ==
  ASSUME NEW p \in Policy, NEW n \in Nat \ {0}
  PROVE  /\ Doubled(n) \in Nat \ {0}
         /\ Exponential(p, n) = Smaller(p.delay * Doubled(n), p.max)
<1> DEFINE d == p.delay
           x == p.max
<1>1. d \in Nat \ {0} /\ x \in Nat \ {0} /\ d <= x /\ x <= MaxInt /\ MaxInt \in Nat
  BY PolicyFields, Limits
<1>2. PICK f : Delays(p, n, f) /\ Exponential(p, n) = f[n]
  BY ExponentialDelays
<1>3. PICK g : Powers(n, g) /\ Doubled(n) = g[n]
  BY DoubledPowers
<1>4. \A k \in 1 .. n : /\ f[k] = (IF k = 1 THEN d ELSE Step(p, f[k - 1]))
                         /\ g[k] = (IF k = 1 THEN 1 ELSE 2 * g[k - 1])
  BY <1>2, <1>3 DEF Delays, Powers
<1> HIDE DEF d, x
<1> DEFINE Good(k) == g[k] \in Nat \ {0} /\ f[k] = Smaller(d * g[k], x)
           S == {k \in 1 .. n : ~Good(k)}
<1>5. S = {}
  <2>1. SUFFICES ASSUME S # {} PROVE FALSE
    OBVIOUS
  <2>2. PICK k \in S : \A l \in S : k <= l
    <3>1. S \in SUBSET Nat
      OBVIOUS
    <3> HIDE DEF S
    <3>2. QED
      BY <2>1, <3>1, LeastAttempt
  <2>3. k # 1
    <3>1. 1 \in 1 .. n => g[1] = 1 /\ f[1] = d
      BY <1>4
    <3>2. 1 \in 1 .. n => Good(1)
      BY <1>1, <3>1 DEF Smaller
    <3>3. QED
      BY <3>2
  <2>4. Good(k - 1)
    <3>1. k - 1 \in 1 .. n /\ ~(k <= k - 1)
      BY <2>3
    <3>2. QED
      BY <2>2, <3>1
  <2> DEFINE a == f[k - 1]
             t == g[k - 1]
  <2>5. t \in Nat \ {0} /\ a = Smaller(d * t, x) /\ d * t \in Nat
    BY <1>1, <2>4
  <2>6. f[k] = Step(p, a) /\ g[k] = 2 * t
    BY <1>4, <2>3
  <2> HIDE DEF a, t
  <2>7. d * (2 * t) = 2 * (d * t)
    BY <1>1, <2>5, Z3
  <2>8. Step(p, a) = Smaller(2 * (d * t), x)
    <3>1. Step(p, a) = IF a >= x THEN a ELSE IF a > x \div 2 THEN x ELSE Wrap(2 * a)
      BY DEF Step, x
    <3> DEFINE e == d * t
    <3>2. e \in Nat /\ a = Smaller(e, x)
      BY <2>5
    <3> HIDE DEF e
    <3>3. Step(p, a) = Smaller(2 * e, x)
      BY <1>1, <3>1, <3>2 DEF Smaller, Wrap
    <3>4. QED
      BY <3>3 DEF e
  <2>9. Good(k)
    BY <2>5, <2>6, <2>7, <2>8
  <2>10. QED
    BY <2>9
<1>6. Good(n)
  BY <1>5
<1>7. QED
  BY <1>2, <1>3, <1>6 DEF d, x

\* Without an override the delay is the policy's growth, capped.
LEMMA CappedGrowth ==
  ASSUME NEW p \in Policy, NEW n \in 1 .. MaxTaskAttempts, NEW over \in Int, over <= 0
  PROVE  taskRetryDelay(p, n, over) = Smaller(Growth(p, n), p.max)
<1>1. taskRetryDelay(p, n, over) = Smaller(Backoff(p, n), p.max)
  BY DEF taskRetryDelay
<1>2. /\ p.delay \in Nat /\ p.max \in Nat /\ p.backoff \in {"fixed", "linear", "exponential"}
      /\ n \in Nat \ {0}
  BY PolicyFields, Limits
<1>3. CASE p.backoff = "fixed"
  BY <1>1, <1>3 DEF Backoff, Growth
<1>4. CASE p.backoff = "linear"
  BY <1>1, <1>4, LinearGrowth DEF Backoff, Growth
<1>5. CASE p.backoff = "exponential"
  <2>1. Exponential(p, n) = Smaller(p.delay * Doubled(n), p.max) /\ p.delay * Doubled(n) \in Nat
    BY <1>2, ExponentialGrowth
  <2>2. Backoff(p, n) = Exponential(p, n) /\ Growth(p, n) = p.delay * Doubled(n)
    BY <1>5 DEF Backoff, Growth
  <2>3. QED
    BY <1>1, <1>2, <2>1, <2>2 DEF Smaller
<1>6. QED
  BY <1>2, <1>3, <1>4, <1>5

\* Whatever the policy, the attempt and the override, the delay is a positive
\* number of whole milliseconds within the limit.
LEMMA AcceptedDelay ==
  ASSUME NEW p \in Policy, NEW n \in 1 .. MaxTaskAttempts, NEW over \in Int
  PROVE  /\ taskRetryDelay(p, n, over) \in 1 .. MaxTaskRetryDelay
         /\ taskRetryDelay(p, n, over) % Millisecond = 0
<1>1. /\ p.delay \in 1 .. MaxTaskRetryDelay /\ p.max \in 1 .. MaxTaskRetryDelay
      /\ p.delay % Millisecond = 0 /\ p.max % Millisecond = 0
      /\ p.backoff \in {"fixed", "linear", "exponential"}
      /\ MaxInt \in Nat /\ Millisecond \in Nat \ {0} /\ MaxTaskRetryDelay \in Nat
      /\ MaxTaskRetryDelay <= MaxInt /\ n \in Nat \ {0}
  BY PolicyFields, Limits
<1>2. ASSUME over <= 0
      PROVE  /\ taskRetryDelay(p, n, over) \in 1 .. MaxTaskRetryDelay
             /\ taskRetryDelay(p, n, over) % Millisecond = 0
  <2> DEFINE G == Growth(p, n)
  <2>1. \E k \in Nat \ {0} : G = p.delay * k
    <3>1. p.delay = p.delay * 1
      BY <1>1
    <3>2. Doubled(n) \in Nat \ {0}
      BY <1>1, ExponentialGrowth
    <3>3. CASE p.backoff = "fixed"
      BY <3>1, <3>3 DEF Growth
    <3>4. CASE p.backoff = "linear"
      BY <1>1, <3>4 DEF Growth
    <3>5. CASE p.backoff = "exponential"
      BY <3>2, <3>5 DEF Growth
    <3>6. QED
      BY <1>1, <3>3, <3>4, <3>5
  <2>2. taskRetryDelay(p, n, over) = Smaller(G, p.max)
    BY <1>2, CappedGrowth
  <2> HIDE DEF G
  <2>3. PICK k \in Nat \ {0} : G = p.delay * k
    BY <2>1
  <2>4. G \in Int /\ G % Millisecond = 0
    <3>1. /\ Millisecond \in Nat \ {0} /\ p.delay \in Int /\ k \in Int
          /\ p.delay % Millisecond = 0
      BY <1>1
    <3>2. p.delay * k \in Int /\ (p.delay * k) % Millisecond = 0
      BY <3>1, MultipleOfProduct, Zenon
    <3>3. QED
      BY <2>3, <3>2
  <2>5. p.delay * 1 <= G
    BY <1>1, <2>3, Monotone
  <2>6. QED
    BY <1>1, <2>2, <2>4, <2>5 DEF Smaller
<1>3. ASSUME over > 0
      PROVE  /\ taskRetryDelay(p, n, over) \in 1 .. MaxTaskRetryDelay
             /\ taskRetryDelay(p, n, over) % Millisecond = 0
  <2>1. CASE over > p.max
    BY <1>1, <1>3, <2>1 DEF taskRetryDelay
  <2>2. CASE ~(over > p.max) /\ over % Millisecond = 0
    <3>1. taskRetryDelay(p, n, over) = over
      BY <1>1, <1>3, <2>2 DEF taskRetryDelay, ceilTaskMilliseconds, Smaller
    <3>2. QED
      BY <1>1, <1>3, <2>2, <3>1
  <2>3. CASE ~(over > p.max) /\ over % Millisecond # 0
    <3> DEFINE u == over + (Millisecond - (over % Millisecond))
    <3>1. u \in Int /\ u % Millisecond = 0 /\ u <= p.max /\ over < u
      <4>1. /\ Millisecond \in Nat \ {0} /\ p.max \in Int /\ over <= p.max
            /\ over % Millisecond # 0 /\ p.max % Millisecond = 0
        BY <1>1, <2>3
      <4>2. QED
        BY <4>1, RoundedUp, Zenon
    <3>2. ceilTaskMilliseconds(over) = Wrap(u)
      BY <1>3, <2>3 DEF ceilTaskMilliseconds
    <3> HIDE DEF u
    <3>3. taskRetryDelay(p, n, over) = u
      BY <1>1, <1>3, <2>3, <3>1, <3>2 DEF taskRetryDelay, Smaller, Wrap
    <3>4. QED
      BY <1>1, <1>3, <3>1, <3>3
  <2>4. QED
    BY <2>1, <2>2, <2>3
<1>4. QED
  BY <1>2, <1>3

-----------------------------------------------------------------------------
(* The theorems.                                                             *)

\* A state is an attempt of a task under a policy, and its delay.
RetryInv ==
  /\ policy \in Policy
  /\ attempts \in 1 .. MaxTaskAttempts
  /\ override \in Overrides
  /\ delay = taskRetryDelay(policy, attempts, override)

\* Every failure is one of a policy, an attempt and an override.
LEMMA RetryInvariant == Spec => []RetryInv
<1>1. Init => RetryInv
  <2>1. 1 \in 1 .. MaxTaskAttempts
    BY Limits
  <2>2. QED
    BY <2>1 DEF Init, RetryInv
<1>2. RetryInv /\ [Next]_vars => RetryInv'
  <2> SUFFICES ASSUME RetryInv, [Next]_vars PROVE RetryInv'
    OBVIOUS
  <2>1. CASE UNCHANGED vars
    BY <2>1 DEF vars, RetryInv
  <2>2. CASE Next
    <3>1. /\ attempts' = attempts + 1 /\ attempts + 1 < MaxTaskAttempts /\ policy' = policy
          /\ override' \in Overrides /\ delay' = taskRetryDelay(policy', attempts', override')
      BY <2>2 DEF Next, Fails
    <3>2. attempts + 1 \in 1 .. MaxTaskAttempts
      BY <3>1, Limits DEF RetryInv
    <3>3. QED
      BY <3>1, <3>2 DEF RetryInv
  <2>3. QED
    BY <2>1, <2>2
<1>3. QED
  BY <1>1, <1>2, PTL DEF Spec

\* Without an override the delay that taskRetryDelay computes with guarded
\* machine integers is the policy's growth, in unbounded integers, capped by its
\* maximum.
THEOREM DelaysFollowPolicy == Spec => []DelayIsCappedGrowth
<1>1. RetryInv => DelayIsCappedGrowth
  <2> SUFFICES ASSUME RetryInv, override <= 0
               PROVE  delay = Smaller(Growth(policy, attempts), policy.max)
    BY DEF DelayIsCappedGrowth
  <2>1. override \in Int
    BY RetryAssumption DEF RetryInv
  <2>2. QED
    BY <2>1, CappedGrowth DEF RetryInv
<1>2. QED
  BY <1>1, RetryInvariant, PTL

\* No policy, attempt and override makes a delay that the failure of a task is
\* rejected for.
THEOREM DelaysAreAccepted == Spec => []FailTaskAcceptsDelay
<1>1. RetryInv => FailTaskAcceptsDelay
  <2> SUFFICES ASSUME RetryInv PROVE FailTaskAcceptsDelay
    OBVIOUS
  <2>1. override \in Int
    BY RetryAssumption DEF RetryInv
  <2>2. QED
    BY <2>1, AcceptedDelay DEF RetryInv, FailTaskAcceptsDelay
<1>2. QED
  BY <1>1, RetryInvariant, PTL
=============================================================================
