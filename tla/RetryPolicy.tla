----------------------------- MODULE RetryPolicy -----------------------------
(***************************************************************************)
(* How long a failed task waits for its next attempt: taskRetryDelay of     *)
(* core/task.go, over the policies validateTaskConfig admits and over any   *)
(* delay a handler passes to RetryTaskAfter.                                *)
(*                                                                          *)
(* A state is one failed attempt of one task; the next state is its next    *)
(* failure.  Durations are signed machine integers.                         *)
(***************************************************************************)
EXTENDS Integers

CONSTANTS
  MaxInt,             \* math.MaxInt64
  Millisecond,        \* time.Millisecond, in the unit of time.Duration
  MaxTaskRetryDelay,  \* 30 days
  MaxTaskAttempts,    \* 100
  Overrides           \* what handlers pass to RetryTaskAfter

\* The product of the two limits fits: 100 * 30 days < 2^63 nanoseconds.
ASSUME RetryAssumption ==
  /\ MaxInt \in Nat
  /\ Millisecond \in Nat \ {0}
  /\ MaxTaskRetryDelay \in Nat
  /\ MaxTaskRetryDelay % Millisecond = 0
  /\ MaxTaskAttempts \in Nat \ {0}
  /\ MaxTaskAttempts * MaxTaskRetryDelay <= MaxInt
  /\ Overrides \subseteq -MaxInt .. MaxInt

VARIABLES policy, attempts, override, delay

vars == <<policy, attempts, override, delay>>

\* What int64 arithmetic makes of a product or a sum.
Wrap(n) == IF n > MaxInt THEN n - 2 * (MaxInt + 1) ELSE n

WholeMilliseconds == {d \in 1 .. MaxTaskRetryDelay : d % Millisecond = 0}

\* The policies validateTaskConfig and ValidateTaskAdmission accept.
Policy == {p \in [backoff : {"fixed", "linear", "exponential"},
                  delay   : WholeMilliseconds,
                  max     : WholeMilliseconds] : p.delay <= p.max}

\* Mutant of ceilTaskMilliseconds: the fraction stays.
ceilTaskMillisecondsNot(d) == d

ceilTaskMilliseconds(d) ==
  IF d <= 0 \/ d % Millisecond = 0 THEN d
  ELSE Wrap(d + (Millisecond - (d % Millisecond)))

Linear(p, n) ==
  IF n > 1 /\ p.delay <= MaxInt \div n THEN Wrap(p.delay * n) ELSE p.delay

\* Mutant of Exponential: one doubling too many.
ExponentialFromZero(p, n) ==
  LET after[k \in 1 .. n + 1] ==
        IF k = 1 THEN p.delay
        ELSE IF after[k - 1] > p.max \div 2 THEN p.max ELSE 2 * after[k - 1]
  IN after[n + 1]

\* The loop doubles n - 1 times and stops at max.
Exponential(p, n) ==
  LET after[k \in 1 .. n] ==
        IF k = 1 THEN p.delay
        ELSE IF after[k - 1] >= p.max THEN after[k - 1]
        ELSE IF after[k - 1] > p.max \div 2 THEN p.max
        ELSE Wrap(2 * after[k - 1])
  IN after[n]

Smaller(a, b) == IF a <= b THEN a ELSE b

Backoff(p, n) ==
  CASE p.backoff = "fixed"       -> p.delay
    [] p.backoff = "linear"      -> Linear(p, n)
    [] p.backoff = "exponential" -> Exponential(p, n)

taskRetryDelay(p, n, over) ==
  IF over > 0
  THEN IF over > p.max THEN p.max ELSE Smaller(ceilTaskMilliseconds(over), p.max)
  ELSE Smaller(Backoff(p, n), p.max)

-----------------------------------------------------------------------------

\* Attempt n of the task failed and attempts remain.
Fails(n) ==
  /\ attempts' = n
  /\ \E over \in Overrides :
       /\ override' = over
       /\ delay' = taskRetryDelay(policy, n, over)

Init ==
  /\ policy \in Policy
  /\ attempts = 1
  /\ override \in Overrides
  /\ delay = taskRetryDelay(policy, 1, override)

Next ==
  /\ attempts + 1 < MaxTaskAttempts
  /\ Fails(attempts + 1)
  /\ UNCHANGED policy

Spec == Init /\ [][Next]_vars

-----------------------------------------------------------------------------

\* 2^(n - 1) in unbounded integers.
Doubled(n) == LET two[k \in 1 .. n] == IF k = 1 THEN 1 ELSE 2 * two[k - 1]
              IN two[n]

\* What a policy means: the delay grows not at all, linearly or exponentially
\* with the attempt, without bound.
Growth(p, n) ==
  CASE p.backoff = "fixed"       -> p.delay
    [] p.backoff = "linear"      -> p.delay * n
    [] p.backoff = "exponential" -> p.delay * Doubled(n)

\* Without an override the delay taskRetryDelay computes with guarded 64-bit
\* steps is the policy's growth capped by its maximum.
DelayIsCappedGrowth ==
  override <= 0 => delay = Smaller(Growth(policy, attempts), policy.max)

\* store.ValidateTaskFailure rejects a delay that is not a positive number of
\* whole milliseconds within 30 days; a rejected failure would leave the row
\* leased.  No policy and no override makes one.
FailTaskAcceptsDelay ==
  delay \in 1 .. MaxTaskRetryDelay /\ delay % Millisecond = 0
=============================================================================
