----------------------------- MODULE FlagProofs ------------------------------
(***************************************************************************)
(* Proofs about ThreadSafeFlag and poll_and_wait(), for any number of      *)
(* flags, slots and external contexts, any tick rate and any timeout cap.  *)
(***************************************************************************)
EXTENDS ThreadSafeFlag, TimerProofs

\* poll_and_wait() has computed a timeout and blocks or is about to.
Blocking == loop \in {"sampled", "asleep"}

\* Where the scheduler thread is inside the calls of several steps.  A task runs in
\* run_pass() only, not in ~Scheduler() either.  A signal that arrives between
\* await_ready() and await_suspend() leaves the pending mark.
CallState ==
  /\ current # NoSlot => phase = "pass"
  /\ walk # << >> => phase = "signals"
  /\ checked # NoFlag => /\ phase = "pass" /\ current # NoSlot /\ live[checked]
                         /\ signaled[checked] => pending
  /\ loop # "poll" => wake_ready /\ ~shutting_down
  /\ Blocking => phase = "idle" /\ ready = << >>
  /\ ~Blocking => slip = 0

\* A task is parked on the signaled flag f, or is about to park, and the current
\* walk over the armed flags will not find it.
Unnoticed(f) ==
  /\ signaled[f]
  /\ waiter[f] # NoSlot \/ checked = f
  /\ f \notin Range(walk)

WakeOnItsWay == token \/ \E c \in Contexts : set_pc[c] = "wake"

\* poll_and_wait() may start with a token that older signals did not leave, but from
\* the first critical section of its poll() on, what that poll() does not find wakes
\* the thread.
WakeComing ==
  loop # "poll" /\ ~(phase = "signals" /\ walk = << >>) =>
    \A f \in Flags : Unnoticed(f) => WakeOnItsWay

FlagInv ==
  TimerInv /\ ArmedExact /\ NoLostSignal /\ CallState /\ WakeComing /\ NoOversleep

-----------------------------------------------------------------------------
(* The timeout of poll_and_wait(), in ticks.                               *)

\* Division with remainder.
LEMMA Euclid ==
  ASSUME NEW n \in Nat, NEW m \in Nat \ {0}
  PROVE  /\ n \div m \in Nat /\ n % m \in Nat /\ n % m < m
         /\ n = ((n \div m) * m) + (n % m)
<1> DEFINE q == n \div m
           r == n % m
<1>1. q \in Nat /\ r \in 0..(m - 1) /\ r = n - (m * q)
  OBVIOUS
<1> HIDE DEF q, r
<1>2. n = (q * m) + r
  BY <1>1
<1> QED
  BY <1>1, <1>2 DEF q, r

\* CeilDiv() rounds up, by less than one.
LEMMA CeilDivBounds ==
  ASSUME NEW n \in Nat
  PROVE  /\ CeilDiv(n) \in Nat
         /\ (CeilDiv(n) - 1) * MicrosPerSecond < n
         /\ n <= CeilDiv(n) * MicrosPerSecond
<1> DEFINE m == MicrosPerSecond
           q == n \div m
           r == n % m
<1>1. m \in Nat \ {0}
  BY FlagAssumption
<1>2. q \in Nat /\ r \in Nat /\ r < m /\ n = (q * m) + r
  BY <1>1, Euclid
<1>3. CeilDiv(n) = q + (IF r # 0 THEN 1 ELSE 0)
  BY DEF CeilDiv
<1> HIDE DEF m, q, r
<1>4. (q - 1) * m = (q * m) - m /\ (q + 1) * m = (q * m) + m /\ q * m \in Int
  BY <1>1, <1>2
<1>5. CASE r = 0
  <2>1. CeilDiv(n) = q
    BY <1>2, <1>3, <1>5
  <2> QED
    BY <1>1, <1>2, <1>4, <1>5, <2>1 DEF m
<1>6. CASE r # 0
  <2>1. CeilDiv(n) = q + 1 /\ (q + 1) - 1 = q
    BY <1>2, <1>3, <1>6
  <2>2. ((q + 1) - 1) * m = q * m
    BY <2>1
  <2> QED
    BY <1>1, <1>2, <1>4, <1>6, <2>1, <2>2 DEF m
<1> QED
  BY <1>5, <1>6

\* A product with a sum.
LEMMA Distribute ==
  ASSUME NEW a \in Int, NEW b \in Int, NEW c \in Int
  PROVE  (a + b) * c = (a * c) + (b * c) /\ c * (a + b) = (c * a) + (c * b)
  OBVIOUS

\* A larger number of positive units.
LEMMA Monotone ==
  ASSUME NEW a \in Int, NEW b \in Int, NEW c \in Nat, a <= b
  PROVE  a * c <= b * c
<1>1. PICK d \in Nat : b = a + d
  <2>1. b - a \in Nat /\ b = a + (b - a)
    OBVIOUS
  <2> QED
    BY <2>1
<1>2. b * c = (a * c) + (d * c)
  BY <1>1, Distribute
<1>3. d * c \in Nat /\ a * c \in Int
  OBVIOUS
<1> QED
  BY <1>2, <1>3

\* The timeout for a deadline n > 0 microseconds ahead, from its whole seconds w and
\* the r microseconds beyond: not capped.
LEMMA UncappedTicks ==
  ASSUME NEW w \in Nat, NEW r \in Nat, NEW M \in Nat \ {0}, NEW R \in Nat \ {0},
         NEW f \in Nat, (f - 1) * M < r * R, r * R <= f * M, (w * M) + r > 0
  PROVE  LET k == (w * R) + f
             n == (w * M) + r IN
         /\ k >= 1 /\ k * M >= n * R /\ (k - 1) * M < n * R
<1> DEFINE k == (w * R) + f
           n == (w * M) + r
           p == (w * R) * M
<1>1. (w * M) * R = p
  OBVIOUS
<1>2. n * R = p + (r * R)
  BY <1>1, Distribute
<1>3. k * M = p + (f * M)
  BY Distribute
<1>4. (k - 1) * M = p + ((f - 1) * M)
  <2>1. k - 1 = (w * R) + (f - 1)
    OBVIOUS
  <2> QED
    BY <2>1, Distribute
<1>5. p \in Int /\ r * R \in Int /\ f * M \in Int /\ (f - 1) * M \in Int
  OBVIOUS
<1>6. k * M >= n * R /\ (k - 1) * M < n * R
  <2> HIDE DEF p, k, n
  <2> QED
    BY <1>2, <1>3, <1>4, <1>5
<1>7. k >= 1
  <2>1. n * R >= n /\ n \in Nat /\ n > 0 /\ k \in Nat
    <3>1. n \in Nat /\ n > 0 /\ k \in Nat
      OBVIOUS
    <3> HIDE DEF n
    <3>2. 1 <= R
      OBVIOUS
    <3>3. 1 * n <= R * n /\ R * n = n * R /\ 1 * n = n
      BY <3>1, <3>2, Monotone
    <3> QED
      BY <3>1, <3>3
  <2> HIDE DEF k, n
  <2>2. SUFFICES ASSUME k = 0 PROVE FALSE
    BY <2>1
  <2>3. k * M = 0
    BY <2>2
  <2> QED
    BY <1>6, <2>1, <2>3
<1> QED
  BY <1>6, <1>7

\* The cap F on finite timeouts is less than a tick beyond the deadline: because of
\* the whole seconds alone, or with the ticks f of the fraction.
LEMMA CappedTicks ==
  ASSUME NEW w \in Nat, NEW r \in Nat, NEW M \in Nat \ {0}, NEW R \in Nat \ {0},
         NEW F \in Nat \ {0}, NEW f \in Nat, (f - 1) * M < r * R,
         w > F \div R \/ f > F - (w * R)
  PROVE  (F - 1) * M < ((w * M) + r) * R
<1> DEFINE p == (w * R) * M
           n == (w * M) + r
<1>1. n * R = p + (r * R) /\ p \in Int /\ r * R \in Nat /\ (F - 1) * M \in Int
  <2>1. (w * M) * R = p
    OBVIOUS
  <2> QED
    BY <2>1, Distribute
<1>2. CASE w > F \div R
  <2>1. /\ F \div R \in Nat /\ F % R \in Nat /\ F % R < R
        /\ F = ((F \div R) * R) + (F % R)
    BY Euclid
  <2> DEFINE q == F \div R
             s == F % R
  <2>2. q \in Nat /\ s \in Nat /\ s < R /\ F = (q * R) + s /\ q + 1 <= w
    BY <1>2, <2>1
  <2> HIDE DEF q, s
  <2>3. (q + 1) * R <= w * R
    BY <2>2, Monotone
  <2>4. (q + 1) * R = (q * R) + (1 * R) /\ 1 * R = R /\ q * R \in Int /\ w * R \in Int
    BY <2>2, Distribute
  <2>5. F <= w * R
    BY <2>2, <2>3, <2>4
  <2>6. F * M <= p
    BY <2>4, <2>5, Monotone
  <2>7. (F - 1) * M = (F * M) - M /\ F * M \in Int
    OBVIOUS
  <2> HIDE DEF p, n
  <2> QED
    BY <1>1, <2>6, <2>7 DEF n
<1>3. CASE f > F - (w * R)
  <2>1. w * R \in Int
    OBVIOUS
  <2>2. F - 1 <= (w * R) + (f - 1)
    BY <1>3, <2>1
  <2>3. (F - 1) * M <= ((w * R) + (f - 1)) * M
    BY <2>1, <2>2, Monotone
  <2>4. ((w * R) + (f - 1)) * M = p + ((f - 1) * M) /\ (f - 1) * M \in Int
    BY <2>1, Distribute
  <2> HIDE DEF p, n
  <2> QED
    BY <1>1, <2>3, <2>4 DEF n
<1> QED
  BY <1>2, <1>3

\* platform_timeout_ticks() for a deadline ahead, whatever the tick rate and the cap.
LEMMA TimeoutBounds ==
  ASSUME NEW t \in Nat, NEW d \in Nat, d > t
  PROVE  LET k == platform_timeout_ticks(t, d) IN
         /\ k \in 1..MaxFiniteTicks
         /\ k < MaxFiniteTicks => k * MicrosPerSecond >= (d - t) * TickRate
         /\ (k - 1) * MicrosPerSecond < (d - t) * TickRate
<1> DEFINE M == MicrosPerSecond
           R == TickRate
           F == MaxFiniteTicks
           n == d - t
           w == n \div M
           r == n % M
           f == CeilDiv(r * R)
           k == platform_timeout_ticks(t, d)
<1>1. M \in Nat \ {0} /\ R \in Nat \ {0} /\ F \in Nat \ {0}
  BY FlagAssumption
<1>2. n \in Nat /\ n > 0
  OBVIOUS
<1>3. w \in Nat /\ r \in Nat /\ n = (w * M) + r
  BY <1>1, <1>2, Euclid
<1>4. r * R \in Nat
  <2> HIDE DEF r
  <2> QED
    BY <1>1, <1>3
<1>5. f \in Nat /\ (f - 1) * M < r * R /\ r * R <= f * M
  BY <1>4, CeilDivBounds
<1>6. ~(d <= t)
  OBVIOUS
<1>7. k = IF w > F \div R \/ f > F - (w * R) THEN F ELSE (w * R) + f
  BY <1>6 DEF platform_timeout_ticks
<1> HIDE DEF M, R, F, n, w, r, f, k
<1>8. CASE w > F \div R \/ f > F - (w * R)
  <2>1. (F - 1) * M < n * R
    BY <1>1, <1>3, <1>5, <1>8, CappedTicks
  <2>2. k = F
    BY <1>7, <1>8
  <2>3. k \in 1..F /\ ~(k < F)
    BY <1>1, <2>2
  <2> QED
    BY <2>1, <2>2, <2>3 DEF M, R, F, n, k
<1>9. CASE ~(w > F \div R \/ f > F - (w * R))
  <2>1. k = (w * R) + f /\ w * R \in Int
    BY <1>1, <1>3, <1>7, <1>9
  <2>2. k >= 1 /\ k * M >= n * R /\ (k - 1) * M < n * R
    <3>1. (w * M) + r > 0
      BY <1>2, <1>3
    <3> QED
      BY <1>1, <1>3, <1>5, <2>1, <3>1, UncappedTicks
  <2>3. k \in 1..F
    BY <1>1, <1>3, <1>5, <1>9, <2>1, <2>2
  <2> QED
    BY <2>2, <2>3 DEF M, R, F, n, k
<1> QED
  BY <1>8, <1>9

\* The types of the three timeouts.
LEMMA TimeoutTypes ==
  ASSUME NEW t \in Ticks, NEW d \in Ticks
  PROVE  /\ portMAX_DELAY \in Nat
         /\ platform_timeout_ticks(t, d) \in 0..MaxFiniteTicks
         /\ platform_ticks_until(t, d) \in 0..portMAX_DELAY
<1>1. /\ MaxFiniteTicks \in Nat /\ t \in Nat /\ d \in Nat
      /\ portMAX_DELAY = MaxFiniteTicks + 1
  BY FlagAssumption, SchedulerAssumption DEF Ticks, portMAX_DELAY
<1>2. platform_timeout_ticks(t, d) \in 0..MaxFiniteTicks
  <2>1. CASE d <= t
    BY <1>1, <2>1 DEF platform_timeout_ticks
  <2>2. CASE ~(d <= t)
    BY <1>1, <2>2, TimeoutBounds
  <2> QED
    BY <2>1, <2>2
<1>3. platform_ticks_until(t, d) \in {portMAX_DELAY, platform_timeout_ticks(t, d)}
  BY DEF platform_ticks_until
<1> QED
  BY <1>1, <1>2, <1>3

\* The tick interrupts up to a time.
LEMMA TickCountBounds ==
  ASSUME NEW t \in Nat
  PROVE  TickCount(t) \in Nat /\ TickCount(t) * MicrosPerSecond <= t * TickRate
<1> DEFINE x == t * TickRate
<1>1. x \in Nat /\ MicrosPerSecond \in Nat \ {0}
  BY FlagAssumption
<1> HIDE DEF x
<1>2. /\ x \div MicrosPerSecond \in Nat /\ x % MicrosPerSecond \in Nat
      /\ x = ((x \div MicrosPerSecond) * MicrosPerSecond) + (x % MicrosPerSecond)
  BY <1>1, Euclid
<1>3. TickCount(t) = x \div MicrosPerSecond
  BY DEF TickCount, x
<1>4. TickCount(t) * MicrosPerSecond \in Int
  BY <1>1, <1>2, <1>3
<1> QED
  BY <1>1, <1>2, <1>3, <1>4 DEF x

\* They only grow.
LEMMA TickCountMonotone ==
  ASSUME NEW t \in Nat, NEW u \in Nat, t <= u
  PROVE  TickCount(t) <= TickCount(u)
<1> DEFINE m == MicrosPerSecond
           x == t * TickRate
           y == u * TickRate
           p == x \div m
           q == y \div m
<1>1. x \in Nat /\ y \in Nat /\ x <= y /\ m \in Nat \ {0}
  BY FlagAssumption, Monotone
<1> HIDE DEF m, x, y
<1>2. p \in Nat /\ q \in Nat /\ x >= p * m /\ y < (q * m) + m
  <2>1. x % m \in Nat /\ x = (p * m) + (x % m) /\ p \in Nat
    BY <1>1, Euclid
  <2>2. y % m < m /\ y = (q * m) + (y % m) /\ q \in Nat /\ y % m \in Nat
    BY <1>1, Euclid
  <2> HIDE DEF p, q
  <2>3. p * m \in Int /\ q * m \in Int
    BY <1>1, <2>1, <2>2
  <2> QED
    BY <1>1, <2>1, <2>2, <2>3
<1> HIDE DEF p, q
<1>3. ASSUME q < p PROVE FALSE
  <2>1. q + 1 <= p
    BY <1>2, <1>3
  <2>2. (q + 1) * m <= p * m
    BY <1>1, <1>2, <2>1, Monotone
  <2>3. (q + 1) * m = (q * m) + (1 * m) /\ 1 * m = m /\ q * m \in Int /\ p * m \in Int
    BY <1>1, <1>2, Distribute
  <2> QED
    BY <1>1, <1>2, <2>2, <2>3
<1> QED
  BY <1>2, <1>3 DEF TickCount, m, x, y, p, q

\* A blocked poll_and_wait() ends less than a tick after the deadline d it was given,
\* and after any later one.
LEMMA TimeoutEnds ==
  ASSUME NEW t \in Nat, NEW d \in Nat, NEW e \in Nat, d > t, d <= e
  PROVE  (TickCount(t) + platform_timeout_ticks(t, d) - 1) * MicrosPerSecond
           < e * TickRate
<1> DEFINE M == MicrosPerSecond
           R == TickRate
           a == TickCount(t)
           k == platform_timeout_ticks(t, d)
<1>1. M \in Nat \ {0} /\ R \in Nat \ {0} /\ MaxFiniteTicks \in Nat
  BY FlagAssumption
<1>2. k \in 1..MaxFiniteTicks /\ (k - 1) * M < (d - t) * R
  BY TimeoutBounds
<1>3. a \in Nat /\ a * M <= t * R
  BY TickCountBounds
<1> HIDE DEF M, R, a, k
<1>4. (a + (k - 1)) * M = (a * M) + ((k - 1) * M)
  BY <1>1, <1>2, <1>3, Distribute
<1>5. ((d - t) + t) * R = ((d - t) * R) + (t * R) /\ (d - t) + t = d
  BY <1>1, Distribute
<1>6. d * R <= e * R
  BY <1>1, Monotone
<1>7. /\ a * M \in Int /\ (k - 1) * M \in Int /\ (d - t) * R \in Int /\ t * R \in Int
      /\ e * R \in Int /\ d * R \in Int
  BY <1>1, <1>2, <1>3
<1>8. a + k - 1 = a + (k - 1)
  BY <1>1, <1>2, <1>3
<1>9. d * R = ((d - t) * R) + (t * R)
  BY <1>5
<1>10. (a + (k - 1)) * M < e * R
  BY <1>2, <1>3, <1>4, <1>6, <1>7, <1>9
<1> QED
  BY <1>8, <1>10 DEF M, R, a, k

-----------------------------------------------------------------------------
(* The flags.                                                              *)

\* What is left of the walk over the armed flags after one iteration.
LEMMA WalkOn ==
  ASSUME NEW q \in Seq(Flags), q # << >>
  PROVE  /\ Head(q) \in Flags /\ Tail(q) \in Seq(Flags)
         /\ \A f \in Range(q) : f = Head(q) \/ f \in Range(Tail(q))
<1>1. /\ DOMAIN q = 1..Len(q) /\ Len(q) \in Nat \ {0} /\ Head(q) = q[1]
      /\ Tail(q) \in Seq(Flags) /\ DOMAIN Tail(q) = 1..(Len(q) - 1)
      /\ \A i \in 1..(Len(q) - 1) : Tail(q)[i] = q[i + 1]
  OBVIOUS
<1>2. ASSUME NEW i \in DOMAIN q, i # 1 PROVE q[i] \in Range(Tail(q))
  <2>1. i - 1 \in DOMAIN Tail(q) /\ Tail(q)[i - 1] = q[(i - 1) + 1] /\ (i - 1) + 1 = i
    BY <1>1, <1>2
  <2> QED
    BY <2>1 DEF Range
<1>3. Head(q) \in Flags
  OBVIOUS
<1> QED
  BY <1>1, <1>2, <1>3 DEF Range

\* unarm() unlinks one flag and keeps the others in order.
LEMMA UnarmList ==
  ASSUME armed \in Seq(Flags), NEW f \in Flags, unarm(f)
  PROVE  /\ armed' \in Seq(Flags)
         /\ IsInjective(armed) => /\ IsInjective(armed')
                                  /\ Range(armed') = Range(armed) \ {f}
<1>1. CASE f \notin Range(armed) /\ UNCHANGED armed
  BY <1>1
<1>2. ASSUME NEW i \in DOMAIN armed, armed[i] = f, armed' = RemoveAt(armed, i)
      PROVE  /\ armed' \in Seq(Flags)
             /\ IsInjective(armed) => /\ IsInjective(armed')
                                      /\ Range(armed') = Range(armed) \ {f}
  <2>1. i \in 1..Len(armed)
    BY <1>2
  <2>2. armed' = SubSeq(armed, 1, i - 1) \o SubSeq(armed, i + 1, Len(armed))
    BY <1>2 DEF RemoveAt
  <2> DEFINE q == armed
  <2>3. q \in Seq(Flags) /\ i \in 1..Len(q)
    BY <2>1
  <2> HIDE DEF q
  <2>4. LET r == SubSeq(q, 1, i - 1) \o SubSeq(q, i + 1, Len(q)) IN
        /\ r \in Seq(Flags)
        /\ IsInjective(q) => IsInjective(r) /\ Range(r) = Range(q) \ {q[i]}
    BY <2>3, UnlinkFifo
  <2> QED
    BY <1>2, <2>2, <2>4 DEF q
<1> QED
  BY <1>1, <1>2 DEF unarm

\* A step that arms and unarms nothing keeps the armed list exact.
LEMMA KeepsArmed ==
  ASSUME ArmedExact, FlagTypeOK', UNCHANGED <<waiter, live, armed>>,
         shutting_down => shutting_down',
         ~shutting_down' => \A s \in Slots :
                              state'[s] = "waiting_local" <=> state[s] = "waiting_local"
  PROVE  ArmedExact'
<1> SUFFICES ASSUME ~shutting_down' PROVE ArmedExact'
  BY DEF ArmedExact
<1>1. ~shutting_down
  OBVIOUS
<1>2. \A f \in Flags : waiter[f] # NoSlot => waiter[f] \in Slots
  BY DEF ArmedExact, FlagTypeOK
<1>3. \A f \in Flags : waiter[f] # NoSlot => live[f] /\ state'[waiter[f]] = "waiting_local"
  BY <1>1, <1>2 DEF ArmedExact
<1> QED
  BY <1>1, <1>3 DEF ArmedExact

\* Without a blocked thread there is nothing to oversleep.
LEMMA KeepsNoOversleep ==
  ASSUME NoOversleep,
         \/ ~Blocking'
         \/ UNCHANGED <<state, deadline_us, clock, timeout, slip, loop>>
  PROVE  NoOversleep'
<1>1. CASE ~Blocking'
  BY <1>1 DEF NoOversleep, Blocking
<1>2. CASE UNCHANGED <<state, deadline_us, clock, timeout, slip, loop>>
  BY <1>2 DEF NoOversleep, Waiting, TickCount, portMAX_DELAY
<1> QED
  BY <1>1, <1>2

\* The types a step of a flag starts from.
LEMMA FlagTypes ==
  ASSUME FlagInv
  PROVE  FlagTypeOK /\ Typed
  BY DEF FlagInv, ArmedExact, TimerInv, FifoInv

-----------------------------------------------------------------------------

\* A step of the scheduler alone.
LEMMA FlagSchedulerStep == FlagInv /\ SchedulerStep => FlagInv'
<1> SUFFICES ASSUME FlagInv, SchedulerStep PROVE FlagInv'
  OBVIOUS
<1>1. /\ CoreNext /\ checked = NoFlag /\ (phase = "idle" => loop = "poll")
      /\ UNCHANGED <<clock, signaled, waiter, live, armed, pending, walk, checked, set_pc,
                     wake_ready, token, loop, timeout, slip>>
  BY DEF SchedulerStep, InCall, InWait, flagVars, flagObjects, waitVars
<1>2. Next
  BY <1>1 DEF Next
<1>3. TimerInv'
  BY <1>2, TimerNext DEF FlagInv
<1>4. FlagTypeOK'
  BY <1>1, FlagTypes DEF FlagTypeOK, portMAX_DELAY
<1>5. ArmedExact'
  <2>1. shutting_down => shutting_down'
    BY <1>2, TeardownIsFinal
  <2>2. ~shutting_down => \A s \in Slots :
          state'[s] = "waiting_local" <=> state[s] = "waiting_local"
    BY <1>2, SchedulerKeepsParked DEF FlagInv, TimerInv
  <2> QED
    BY <1>1, <1>4, <2>1, <2>2, KeepsArmed DEF FlagInv
<1>6. NoLostSignal'
  BY <1>1 DEF FlagInv, NoLostSignal
<1>7. ~Blocking
  BY <1>1 DEF FlagInv, CallState, Blocking
<1>8. CallState'
  BY <1>1, <1>7, CoreStages DEF FlagInv, CallState, Blocking
<1>9. WakeComing'
  <2> SUFFICES ASSUME loop # "poll", ~(phase' = "signals" /\ walk = << >>)
               PROVE  \A f \in Flags : Unnoticed(f) => WakeOnItsWay
    BY <1>1 DEF WakeComing, Unnoticed, WakeOnItsWay
  <2>1. ~(phase = "signals" /\ walk = << >>)
    BY <1>1, CoreStages
  <2> QED
    BY <2>1 DEF FlagInv, WakeComing
<1>10. NoOversleep'
  BY <1>1, <1>7, KeepsNoOversleep DEF FlagInv, Blocking
<1> QED
  BY <1>3, <1>5, <1>6, <1>8, <1>9, <1>10 DEF FlagInv

\* The critical section of set(): a flag that it raises wakes the thread later.
LEMMA FlagSetStep ==
  ASSUME FlagInv, NEW c \in Contexts, NEW f \in Flags, Set(c, f)
  PROVE  FlagInv'
<1>1. /\ signaled \in [Flags -> BOOLEAN] /\ set_pc \in [Contexts -> {"idle", "wake"}]
      /\ FlagTypeOK
  BY FlagTypes DEF FlagTypeOK
<1>2. /\ signaled' = [signaled EXCEPT ![f] = TRUE] /\ pending' = TRUE
      /\ set_pc' = [set_pc EXCEPT ![c] = IF signaled[f] THEN "idle" ELSE "wake"]
      /\ set_pc[c] = "idle" /\ UNCHANGED vars
      /\ UNCHANGED <<waiter, live, armed, walk, checked, wake_ready, token, loop, timeout,
                     slip>>
  BY DEF Set, MarkPending, waitVars
<1>3. UNCHANGED <<state, deadline_us, ready, current, phase, clock>>
  BY <1>2 DEF vars, slotVars, timeVars
<1>4. TimerInv'
  BY <1>2, TimerNext DEF FlagInv
<1>5. FlagTypeOK'
  BY <1>1, <1>2 DEF FlagTypeOK, portMAX_DELAY
<1>6. ArmedExact'
  BY <1>2, <1>3, <1>5, KeepsArmed DEF FlagInv, shutting_down
<1>7. NoLostSignal'
  BY <1>2 DEF NoLostSignal
<1>8. CallState'
  BY <1>2, <1>3 DEF FlagInv, CallState, Blocking, shutting_down
<1>9. WakeComing'
  <2> SUFFICES ASSUME loop # "poll", ~(phase = "signals" /\ walk = << >>),
                      NEW g \in Flags, Unnoticed(g)'
               PROVE  WakeOnItsWay'
    BY <1>2, <1>3 DEF WakeComing
  <2>1. CASE signaled[f]
    <3>1. signaled' = signaled /\ set_pc' = set_pc
      BY <1>1, <1>2, <2>1
    <3>2. Unnoticed(g)
      BY <1>2, <3>1 DEF Unnoticed
    <3> QED
      BY <1>2, <3>1, <3>2 DEF FlagInv, WakeComing, WakeOnItsWay
  <2>2. CASE ~signaled[f]
    BY <1>1, <1>2, <2>2 DEF WakeOnItsWay
  <2> QED
    BY <2>1, <2>2
<1>10. NoOversleep'
  BY <1>2, <1>3, KeepsNoOversleep DEF FlagInv
<1> QED
  BY <1>4, <1>6, <1>7, <1>8, <1>9, <1>10 DEF FlagInv

\* set() gives the semaphore, which poll_and_wait() has created before it waits.
LEMMA FlagWakeStep ==
  ASSUME FlagInv, NEW c \in Contexts, platform_wake_scheduler(c)
  PROVE  FlagInv'
<1>1. /\ set_pc \in [Contexts -> {"idle", "wake"}] /\ token \in BOOLEAN
      /\ wake_ready \in BOOLEAN /\ FlagTypeOK
  BY FlagTypes DEF FlagTypeOK
<1>2. /\ set_pc' = [set_pc EXCEPT ![c] = "idle"] /\ (token' = (token \/ wake_ready))
      /\ UNCHANGED vars
      /\ UNCHANGED <<signaled, waiter, live, armed, pending, walk, checked, wake_ready,
                     loop, timeout, slip>>
  BY DEF platform_wake_scheduler, GiveToken, flagObjects
<1>3. UNCHANGED <<state, deadline_us, ready, current, phase, clock>>
  BY <1>2 DEF vars, slotVars, timeVars
<1>4. TimerInv'
  BY <1>2, TimerNext DEF FlagInv
<1>5. token' \in BOOLEAN /\ (wake_ready => token')
  BY <1>1, <1>2
<1>6. FlagTypeOK'
  BY <1>1, <1>2, <1>5 DEF FlagTypeOK, portMAX_DELAY
<1>7. ArmedExact'
  BY <1>2, <1>3, <1>6, KeepsArmed DEF FlagInv, shutting_down
<1>8. NoLostSignal'
  BY <1>2 DEF FlagInv, NoLostSignal
<1>9. CallState'
  BY <1>2, <1>3 DEF FlagInv, CallState, Blocking, shutting_down
<1>10. WakeComing'
  BY <1>2, <1>5 DEF FlagInv, CallState, Blocking, WakeComing, WakeOnItsWay
<1>11. NoOversleep'
  BY <1>2, <1>3, KeepsNoOversleep DEF FlagInv
<1> QED
  BY <1>4, <1>7, <1>8, <1>9, <1>10, <1>11 DEF FlagInv

\* A step that takes a signal back, finds none or refuses a waiter.
LEMMA FlagCheckStep ==
  ASSUME FlagInv, NEW f \in Flags,
         WaitConsumes(f) \/ WaitChecks(f) \/ WaitRejected(f) \/ Clear(f)
  PROVE  FlagInv'
<1>1. FlagTypeOK /\ Typed /\ signaled \in [Flags -> BOOLEAN] /\ NoFlag \notin Flags
  BY FlagTypes, FlagAssumption DEF FlagTypeOK
<1>2. /\ UNCHANGED restVars /\ error' \in Errors
      /\ UNCHANGED <<waiter, live, armed, pending, walk, set_pc, wake_ready, token, loop,
                     timeout, slip>>
  BY DEF WaitConsumes, WaitChecks, WaitRejected, Clear, waitVars, Errors
<1>3. UNCHANGED <<state, deadline_us, ready, current, phase, clock>>
  BY <1>2 DEF restVars, slotVars, timeVars
<1>4. /\ signaled' \in [Flags -> BOOLEAN] /\ checked' \in {checked, NoFlag, f}
      /\ \A g \in Flags : signaled'[g] => signaled[g]
      /\ checked' = f /\ checked # f => ~signaled'[f] /\ live[f] /\ current # NoSlot
  BY <1>1 DEF WaitConsumes, WaitChecks, WaitRejected, Clear
<1>5. TimerInv'
  BY <1>2, ReportKeeps DEF FlagInv
<1>6. FlagTypeOK'
  BY <1>1, <1>2, <1>4 DEF FlagTypeOK, portMAX_DELAY
<1>7. ArmedExact'
  BY <1>2, <1>3, <1>6, KeepsArmed DEF FlagInv, shutting_down
<1>8. NoLostSignal'
  BY <1>2, <1>4 DEF FlagInv, NoLostSignal
<1>9. CallState'
  <2>1. /\ walk' # << >> => phase' = "signals"
        /\ current' # NoSlot => phase' = "pass"
    BY <1>2, <1>3 DEF FlagInv, CallState, Blocking
  <2>2. loop' # "poll" => wake_ready' /\ ~shutting_down'
    BY <1>2, <1>3 DEF FlagInv, CallState, Blocking, shutting_down
  <2>3. /\ Blocking' => phase' = "idle" /\ ready' = << >>
        /\ ~Blocking' => slip' = 0
    BY <1>2, <1>3 DEF FlagInv, CallState, Blocking
  <2>4. ASSUME checked' # NoFlag
        PROVE  /\ phase' = "pass" /\ current' # NoSlot /\ live'[checked']
               /\ signaled'[checked'] => pending'
    <3>1. CASE checked' = checked
      <4>1. checked \in Flags
        BY <1>1, <2>4, <3>1 DEF FlagTypeOK
      <4> QED
        BY <1>2, <1>3, <1>4, <2>4, <3>1, <4>1 DEF FlagInv, CallState, Blocking
    <3>2. CASE checked' = f /\ checked # f
      <4>1. current # NoSlot /\ live[f] /\ ~signaled'[f]
        BY <1>4, <3>2
      <4>2. phase = "pass"
        BY <4>1 DEF FlagInv, CallState, Blocking
      <4> QED
        BY <1>2, <1>3, <3>2, <4>1, <4>2
    <3> QED
      BY <1>4, <2>4, <3>1, <3>2
  <2> QED
    BY <2>1, <2>2, <2>3, <2>4 DEF CallState, Blocking
<1>10. WakeComing'
  <2> SUFFICES ASSUME loop # "poll", ~(phase = "signals" /\ walk = << >>),
                      NEW g \in Flags, Unnoticed(g)'
               PROVE  WakeOnItsWay'
    BY <1>2, <1>3 DEF WakeComing
  <2>1. g # NoFlag
    BY <1>1
  <2>2. Unnoticed(g)
    BY <1>2, <1>4, <2>1 DEF Unnoticed
  <2> QED
    BY <1>2, <2>2 DEF FlagInv, WakeComing, WakeOnItsWay
<1>11. NoOversleep'
  BY <1>2, <1>3, KeepsNoOversleep DEF FlagInv
<1> QED
  BY <1>5, <1>7, <1>8, <1>9, <1>10, <1>11 DEF FlagInv

\* await_suspend(): the running task, which no flag holds, parks on a flag without a
\* waiter.  A signal that came after await_ready() has left the pending mark.
LEMMA FlagParkStep ==
  ASSUME FlagInv, NEW f \in Flags, WaitParks(f)
  PROVE  FlagInv'
<1>1. /\ FlagTypeOK /\ armed \in Seq(Flags) /\ waiter \in [Flags -> Slots \union {NoSlot}]
      /\ live \in [Flags -> BOOLEAN] /\ state \in [Slots -> States] /\ NoFlag \notin Flags
  BY FlagTypes, FlagAssumption DEF FlagTypeOK, Typed
<1>2. /\ checked = f /\ checked' = NoFlag /\ waiter[f] = NoSlot
      /\ waiter' = [waiter EXCEPT ![f] = current] /\ armed' = <<f>> \o armed /\ Park
      /\ UNCHANGED <<signaled, live, pending, walk, set_pc, wake_ready, token, loop,
                     timeout, slip>>
  BY DEF WaitParks, arm, waitVars
<1>3. /\ phase = "pass" /\ current \in Slots /\ NoSlot \notin Slots /\ live[f]
      /\ signaled[f] => pending
  BY <1>1, <1>2, FlagTypes DEF FlagInv, CallState, Blocking, Typed, NoSlot, Slots
<1>4. /\ state[current] = "running" /\ state' = [state EXCEPT ![current] = "waiting_local"]
      /\ UNCHANGED <<phase, ready>> /\ current' = NoSlot /\ ~Blocking
  BY <1>2, <1>3 DEF Park, Suspends, FlagInv, CallState
<1>5. TimerInv'
  BY <1>2, ParkKeeps DEF FlagInv
<1>6. FlagTypeOK'
  <2>1. armed' \in Seq(Flags)
    BY <1>1, <1>2
  <2>2. waiter' \in [Flags -> Slots \union {NoSlot}]
    BY <1>1, <1>2, <1>3
  <2> QED
    BY <1>1, <1>2, <2>1, <2>2 DEF FlagTypeOK, portMAX_DELAY
<1>7. ArmedExact'
  <2>1. ~shutting_down /\ ~shutting_down'
    BY <1>3, <1>4 DEF shutting_down
  <2>2. /\ IsInjective(armed)
        /\ \A g \in Flags : g \in Range(armed) <=> waiter[g] # NoSlot
        /\ \A g \in Flags : waiter[g] # NoSlot =>
             live[g] /\ state[waiter[g]] = "waiting_local"
        /\ \A g, h \in Flags : waiter[g] = waiter[h] /\ waiter[g] # NoSlot => g = h
        /\ \A s \in Slots : state[s] = "waiting_local" =>
             (\E g \in Flags : waiter[g] = s) \/ (\E g \in Flags : ~live[g])
    BY <2>1 DEF FlagInv, ArmedExact
  <2>3. waiter'[f] = current /\ \A g \in Flags \ {f} : waiter'[g] = waiter[g]
    BY <1>1, <1>2
  <2>4. \A g \in Flags : waiter[g] # current
    BY <1>3, <1>4, <2>2
  <2>5. IsInjective(armed') /\ Range(armed') = {f} \union Range(armed)
    <3>1. <<f>> \in Seq(Flags) /\ IsInjective(<<f>>) /\ Range(<<f>>) = {f}
      BY DEF IsInjective, Range
    <3>2. f \notin Range(armed)
      BY <1>2, <2>2
    <3>3. Range(<<f>>) \cap Range(armed) = {}
      BY <3>1, <3>2
    <3> DEFINE a == <<f>>
    <3>4. a \in Seq(Flags) /\ IsInjective(a) /\ Range(a) \cap Range(armed) = {}
      BY <3>1, <3>3
    <3> HIDE DEF a
    <3>5. Range(a \o armed) = Range(a) \union Range(armed) /\ IsInjective(a \o armed)
      BY <1>1, <2>2, <3>4, ConcatFifo
    <3> QED
      BY <1>2, <3>1, <3>5 DEF a
  <2>6. \A g \in Flags : g \in Range(armed') <=> waiter'[g] # NoSlot
    BY <1>3, <2>2, <2>3, <2>5
  <2>7. ASSUME NEW g \in Flags, waiter'[g] # NoSlot
        PROVE  live'[g] /\ state'[waiter'[g]] = "waiting_local"
    <3>1. CASE g = f
      BY <1>1, <1>2, <1>3, <1>4, <2>3, <3>1
    <3>2. CASE g # f
      <4>1. waiter'[g] = waiter[g] /\ waiter[g] \in Slots
        BY <1>1, <2>3, <2>7, <3>2
      <4> QED
        BY <1>1, <1>2, <1>4, <2>2, <2>4, <2>7, <4>1
    <3> QED
      BY <3>1, <3>2
  <2>8. \A g, h \in Flags : waiter'[g] = waiter'[h] /\ waiter'[g] # NoSlot => g = h
    BY <2>2, <2>3, <2>4
  <2>9. ASSUME NEW s \in Slots, state'[s] = "waiting_local"
        PROVE  (\E g \in Flags : waiter'[g] = s) \/ (\E g \in Flags : ~live'[g])
    <3>1. CASE s = current
      BY <2>3, <3>1
    <3>2. CASE s # current
      <4>1. state[s] = "waiting_local"
        BY <1>1, <1>4, <2>9, <3>2
      <4>2. CASE \E g \in Flags : waiter[g] = s
        <5>1. PICK g \in Flags : waiter[g] = s
          BY <4>2
        <5>2. g # f
          BY <1>2, <1>3, <5>1
        <5> QED
          BY <2>3, <5>1, <5>2
      <4> QED
        BY <1>2, <2>2, <4>1, <4>2
    <3> QED
      BY <3>1, <3>2
  <2> QED
    BY <1>6, <2>5, <2>6, <2>7, <2>8, <2>9 DEF ArmedExact
<1>8. NoLostSignal'
  BY <1>1, <1>2, <1>3 DEF FlagInv, NoLostSignal
<1>9. CallState'
  BY <1>2, <1>4 DEF FlagInv, CallState, Blocking, shutting_down
<1>10. WakeComing'
  <2> SUFFICES ASSUME loop # "poll", ~(phase = "signals" /\ walk = << >>),
                      NEW g \in Flags, Unnoticed(g)'
               PROVE  WakeOnItsWay'
    BY <1>2, <1>4 DEF WakeComing
  <2>1. Unnoticed(g)
    BY <1>1, <1>2 DEF Unnoticed
  <2> QED
    BY <1>2, <2>1 DEF FlagInv, WakeComing, WakeOnItsWay
<1>11. NoOversleep'
  BY <1>2, <1>4, KeepsNoOversleep DEF FlagInv, Blocking
<1> QED
  BY <1>5, <1>7, <1>8, <1>9, <1>10, <1>11 DEF FlagInv

\* Taking the waiter of f off its flag: the armed list stays exact for the others.
LEMMA ArmedWithout ==
  ASSUME ArmedExact, ~shutting_down, NEW f \in Flags, unarm(f),
         waiter' = [waiter EXCEPT ![f] = NoSlot]
  PROVE  /\ IsInjective(armed')
         /\ \A g \in Flags : g \in Range(armed') <=> waiter'[g] # NoSlot
         /\ waiter'[f] = NoSlot /\ \A g \in Flags \ {f} : waiter'[g] = waiter[g]
         /\ \A g, h \in Flags : waiter'[g] = waiter'[h] /\ waiter'[g] # NoSlot => g = h
<1>1. /\ waiter \in [Flags -> Slots \union {NoSlot}] /\ armed \in Seq(Flags)
      /\ IsInjective(armed)
      /\ \A g \in Flags : g \in Range(armed) <=> waiter[g] # NoSlot
      /\ \A g, h \in Flags : waiter[g] = waiter[h] /\ waiter[g] # NoSlot => g = h
  BY DEF ArmedExact, FlagTypeOK
<1>2. waiter'[f] = NoSlot /\ \A g \in Flags \ {f} : waiter'[g] = waiter[g]
  BY <1>1
<1>3. IsInjective(armed') /\ Range(armed') = Range(armed) \ {f}
  BY <1>1, UnarmList
<1> QED
  BY <1>1, <1>2, <1>3

\* ~ThreadSafeFlag() strands its waiter, which it reports, and leaves no link.
LEMMA FlagDestroyStep ==
  ASSUME FlagInv, NEW f \in Flags, Destroy(f)
  PROVE  FlagInv'
<1>1. /\ FlagTypeOK /\ armed \in Seq(Flags) /\ waiter \in [Flags -> Slots \union {NoSlot}]
      /\ live \in [Flags -> BOOLEAN] /\ NoFlag \notin Flags
  BY FlagTypes, FlagAssumption DEF FlagTypeOK
<1>2. /\ UNCHANGED restVars /\ error' \in Errors /\ unarm(f)
      /\ waiter' = [waiter EXCEPT ![f] = NoSlot] /\ live' = [live EXCEPT ![f] = FALSE]
      /\ UNCHANGED <<signaled, pending, walk, checked, set_pc, wake_ready, token, loop,
                     timeout, slip>>
      /\ checked = NoFlag \/ phase = "gone"
  BY DEF Destroy, InCall, waitVars, Errors
<1>3. UNCHANGED <<state, deadline_us, ready, current, phase, clock>>
  BY <1>2 DEF restVars, slotVars, timeVars
<1>4. checked = NoFlag
  BY <1>2 DEF FlagInv, CallState, Blocking
<1>5. TimerInv'
  BY <1>2, ReportKeeps DEF FlagInv
<1>6. /\ live' \in [Flags -> BOOLEAN] /\ ~live'[f]
      /\ \A g \in Flags \ {f} : live'[g] = live[g]
      /\ waiter' \in [Flags -> Slots \union {NoSlot}]
  BY <1>1, <1>2
<1>7. FlagTypeOK'
  BY <1>1, <1>2, <1>6, UnarmList DEF FlagTypeOK, portMAX_DELAY
<1>8. ArmedExact'
  <2> SUFFICES ASSUME ~shutting_down PROVE ArmedExact'
    BY <1>3, <1>7 DEF ArmedExact, shutting_down
  <2>1. /\ IsInjective(armed')
        /\ \A g \in Flags : g \in Range(armed') <=> waiter'[g] # NoSlot
        /\ waiter'[f] = NoSlot /\ \A g \in Flags \ {f} : waiter'[g] = waiter[g]
        /\ \A g, h \in Flags : waiter'[g] = waiter'[h] /\ waiter'[g] # NoSlot => g = h
    BY <1>2, ArmedWithout DEF FlagInv
  <2>2. \A g \in Flags : waiter[g] # NoSlot => live[g] /\ state[waiter[g]] = "waiting_local"
    BY DEF FlagInv, ArmedExact
  <2>3. \A g \in Flags : waiter'[g] # NoSlot =>
          live'[g] /\ state'[waiter'[g]] = "waiting_local"
    BY <1>3, <1>6, <2>1, <2>2
  <2> QED
    BY <1>6, <1>7, <2>1, <2>3 DEF ArmedExact
<1>9. \A g \in Flags : waiter'[g] # NoSlot => waiter[g] # NoSlot
  BY <1>1, <1>2
<1>10. NoLostSignal'
  BY <1>2, <1>9 DEF FlagInv, NoLostSignal
<1>11. CallState'
  BY <1>2, <1>3, <1>4 DEF FlagInv, CallState, Blocking, shutting_down
<1>12. WakeComing'
  BY <1>2, <1>3, <1>9 DEF FlagInv, WakeComing, Unnoticed, WakeOnItsWay
<1>13. NoOversleep'
  BY <1>2, <1>3, KeepsNoOversleep DEF FlagInv
<1> QED
  BY <1>5, <1>8, <1>10, <1>11, <1>12, <1>13 DEF FlagInv

\* The first critical section of poll_external_signals(): without the pending mark no
\* parked task is signaled; with it the walk is over all armed flags.
LEMMA FlagBeginStep ==
  ASSUME FlagInv, BeginSignals
  PROVE  FlagInv'
<1>1. FlagTypeOK /\ armed \in Seq(Flags) /\ walk \in Seq(Flags) /\ NoFlag \notin Flags
  BY FlagTypes, FlagAssumption DEF FlagTypeOK
<1>2. /\ phase = "signals" /\ walk = << >> /\ ~pending'
      /\ UNCHANGED <<signaled, waiter, live, armed, checked, set_pc, wake_ready, token,
                     loop, timeout, slip>>
      /\ pending' \in BOOLEAN
  BY DEF BeginSignals, waitVars
<1>3. /\ UNCHANGED <<state, deadline_us, ready, current, clock>>
      /\ \/ (~pending \/ armed = << >>) /\ NoExternalSignals /\ UNCHANGED walk
         \/ pending /\ walk' = armed /\ armed # << >> /\ UNCHANGED vars
  BY DEF BeginSignals, SignalsDone, NoExternalSignals, vars, slotVars, timeVars
<1>4. /\ phase' \in {"signals", "timers"}
      /\ \/ phase' = "timers" /\ walk' = walk
         \/ phase' = "signals" /\ walk' = armed /\ armed # << >>
      /\ ~shutting_down /\ ~shutting_down' /\ ~Blocking /\ checked = NoFlag
      /\ current = NoSlot
  BY <1>2, <1>3 DEF NoExternalSignals, vars, FlagInv, CallState, shutting_down
<1>5. TimerInv'
  BY <1>3, TimerNext DEF FlagInv, Next
<1>6. walk' \in Seq(Flags)
  BY <1>1, <1>2, <1>3
<1>7. FlagTypeOK'
  BY <1>1, <1>2, <1>6 DEF FlagTypeOK, portMAX_DELAY
<1>8. ArmedExact'
  BY <1>2, <1>3, <1>4, <1>7, KeepsArmed DEF FlagInv
<1>9. ASSUME NEW f \in Flags, signaled[f], waiter[f] # NoSlot PROVE f \in Range(walk')
  <2>1. f \in Range(armed)
    BY <1>4, <1>9 DEF FlagInv, ArmedExact
  <2>2. armed # << >>
    BY <2>1 DEF Range
  <2>3. f \notin Range(walk)
    BY <1>2 DEF Range
  <2>4. pending
    BY <1>9, <2>3 DEF FlagInv, NoLostSignal
  <2> QED
    BY <1>3, <2>1, <2>2, <2>4
<1>10. NoLostSignal'
  BY <1>2, <1>9 DEF NoLostSignal
<1>11. CallState'
  BY <1>2, <1>3, <1>4 DEF FlagInv, CallState, Blocking
<1>12. WakeComing'
  BY <1>1, <1>2, <1>4, <1>9 DEF WakeComing, Unnoticed
<1>13. NoOversleep'
  BY <1>2, <1>4, KeepsNoOversleep DEF FlagInv, Blocking
<1> QED
  BY <1>5, <1>8, <1>10, <1>11, <1>12, <1>13 DEF FlagInv

\* One iteration of its loop.
LEMMA FlagVisitStep ==
  ASSUME FlagInv, VisitFlag
  PROVE  FlagInv'
<1> DEFINE f == Head(walk)
           wakes == signaled[f] /\ waiter[f] # NoSlot
<1>1. /\ FlagTypeOK /\ walk \in Seq(Flags) /\ armed \in Seq(Flags)
      /\ waiter \in [Flags -> Slots \union {NoSlot}] /\ signaled \in [Flags -> BOOLEAN]
      /\ state \in [Slots -> States] /\ ready \in Seq(Slots) /\ NoFlag \notin Flags
  BY FlagTypes, FlagAssumption DEF FlagTypeOK, Typed
<1>2. /\ phase = "signals" /\ walk # << >> /\ walk' = Tail(walk) /\ error' = "none"
      /\ phase' = IF Tail(walk) = << >> THEN "timers" ELSE phase
      /\ UNCHANGED <<generation, handle, parent, deadline_us, active_count, current,
                     dying, budget, timeVars, agenda>>
      /\ UNCHANGED <<live, pending, checked, set_pc, wake_ready, token, loop, timeout,
                     slip>>
  BY DEF VisitFlag, waitVars
<1>3. \/ /\ wakes /\ signaled' = [signaled EXCEPT ![f] = FALSE] /\ wake_all(<<waiter[f]>>)
         /\ waiter' = [waiter EXCEPT ![f] = NoSlot] /\ unarm(f)
      \/ /\ ~wakes /\ UNCHANGED <<state, ready, signaled, waiter, armed>>
  BY DEF VisitFlag
<1>4. f \in Flags /\ Tail(walk) \in Seq(Flags)
      /\ \A g \in Range(walk) : g = f \/ g \in Range(walk')
  BY <1>1, <1>2, WalkOn
<1> HIDE DEF f
<1>5. /\ phase' = "signals" \/ (phase' = "timers" /\ walk' = << >>)
      /\ ~shutting_down /\ ~shutting_down' /\ ~Blocking /\ checked = NoFlag
      /\ current = NoSlot
  BY <1>2 DEF FlagInv, CallState, Blocking, shutting_down
<1>6. wakes => waiter[f] \in Slots /\ state[waiter[f]] = "waiting_local"
  BY <1>1, <1>4, <1>5 DEF FlagInv, ArmedExact
<1>7. TimerInv'
  <2>1. CASE wakes
    <3> DEFINE q == <<waiter[f]>>
    <3>1. q \in Seq(Slots) /\ IsInjective(q) /\ Range(q) = {waiter[f]}
      BY <1>6, <2>1 DEF IsInjective, Range
    <3>2. wake_all(q)
      BY <1>3, <2>1
    <3> HIDE DEF q
    <3>3. \A s \in Range(q) : state[s] = "waiting_local"
      BY <1>6, <2>1, <3>1
    <3>4. error' \in Errors /\ (phase' = phase \/ (phase = "signals" /\ phase' = "timers"))
      BY <1>2 DEF Errors
    <3> QED
      BY <1>2, <3>1, <3>2, <3>3, <3>4, WakeKeeps DEF FlagInv
  <2>2. CASE ~wakes
    <3>1. CASE Tail(walk) = << >>
      <4>1. NoExternalSignals
        BY <1>2, <1>3, <2>2, <3>1 DEF NoExternalSignals, slotVars
      <4> QED
        BY <4>1, TimerNext DEF FlagInv, Next
    <3>2. CASE Tail(walk) # << >>
      <4>1. UNCHANGED restVars /\ error' \in Errors
        BY <1>2, <1>3, <2>2, <3>2 DEF restVars, slotVars, Errors
      <4> QED
        BY <4>1, ReportKeeps DEF FlagInv
    <3> QED
      BY <3>1, <3>2
  <2> QED
    BY <2>1, <2>2
<1>8. /\ waiter' \in [Flags -> Slots \union {NoSlot}] /\ signaled' \in [Flags -> BOOLEAN]
      /\ armed' \in Seq(Flags)
      /\ \A g \in Flags : signaled'[g] => signaled[g]
      /\ \A g \in Flags : waiter'[g] # NoSlot => waiter[g] # NoSlot
      /\ ~(signaled'[f] /\ waiter'[f] # NoSlot)
  BY <1>1, <1>3, <1>4, UnarmList
<1>9. FlagTypeOK'
  BY <1>1, <1>2, <1>4, <1>8 DEF FlagTypeOK, portMAX_DELAY
<1>10. ArmedExact'
  <2>1. CASE ~wakes
    BY <1>2, <1>3, <1>5, <1>9, <2>1, KeepsArmed DEF FlagInv
  <2>2. CASE wakes
    <3> DEFINE w == waiter[f]
    <3>1. /\ IsInjective(armed')
          /\ \A g \in Flags : g \in Range(armed') <=> waiter'[g] # NoSlot
          /\ waiter'[f] = NoSlot /\ \A g \in Flags \ {f} : waiter'[g] = waiter[g]
          /\ \A g, h \in Flags : waiter'[g] = waiter'[h] /\ waiter'[g] # NoSlot => g = h
      BY <1>3, <1>4, <1>5, <2>2, ArmedWithout DEF FlagInv
    <3>2. /\ \A g \in Flags : waiter[g] # NoSlot =>
               live[g] /\ state[waiter[g]] = "waiting_local"
          /\ \A g, h \in Flags : waiter[g] = waiter[h] /\ waiter[g] # NoSlot => g = h
          /\ \A s \in Slots : state[s] = "waiting_local" =>
               (\E g \in Flags : waiter[g] = s) \/ (\E g \in Flags : ~live[g])
      BY <1>5 DEF FlagInv, ArmedExact
    <3>3. w \in Slots /\ w # NoSlot /\ state'[w] = "ready"
          /\ \A s \in Slots \ {w} : state'[s] = state[s]
      <4>1. state' = [s \in Slots |-> IF s \in Range(<<w>>) THEN "ready" ELSE state[s]]
        BY <1>3, <2>2 DEF wake_all
      <4>2. Range(<<w>>) = {w}
        BY DEF Range
      <4> QED
        BY <1>6, <2>2, <4>1, <4>2
    <3>4. ASSUME NEW g \in Flags, waiter'[g] # NoSlot
          PROVE  live'[g] /\ state'[waiter'[g]] = "waiting_local"
      <4>1. g # f /\ waiter'[g] = waiter[g] /\ waiter[g] \in Slots
        BY <1>1, <3>1, <3>4
      <4>2. waiter[g] # w
        BY <1>4, <3>2, <3>4, <4>1
      <4> QED
        BY <1>2, <3>2, <3>3, <3>4, <4>1, <4>2
    <3>5. ASSUME NEW s \in Slots, state'[s] = "waiting_local"
          PROVE  (\E g \in Flags : waiter'[g] = s) \/ (\E g \in Flags : ~live'[g])
      <4>1. s # w /\ state[s] = "waiting_local"
        BY <3>3, <3>5
      <4>2. CASE \E g \in Flags : waiter[g] = s
        BY <3>1, <4>1, <4>2
      <4> QED
        BY <1>2, <3>2, <4>1, <4>2
    <3> QED
      BY <1>9, <3>1, <3>4, <3>5 DEF ArmedExact
  <2> QED
    BY <2>1, <2>2
<1>11. NoLostSignal'
  BY <1>2, <1>4, <1>8 DEF FlagInv, NoLostSignal
<1>12. CallState'
  BY <1>2, <1>5 DEF FlagInv, CallState, Blocking
<1>13. WakeComing'
  <2> SUFFICES ASSUME loop # "poll", NEW g \in Flags, Unnoticed(g)'
               PROVE  WakeOnItsWay'
    BY <1>2 DEF WakeComing
  <2>1. waiter'[g] # NoSlot /\ g # f
    BY <1>1, <1>2, <1>5, <1>8 DEF Unnoticed
  <2>2. Unnoticed(g)
    BY <1>2, <1>4, <1>8, <2>1 DEF Unnoticed
  <2> QED
    BY <1>2, <2>2 DEF FlagInv, WakeComing, WakeOnItsWay
<1>14. NoOversleep'
  BY <1>2, <1>5, KeepsNoOversleep DEF FlagInv, Blocking
<1> QED
  BY <1>7, <1>10, <1>11, <1>12, <1>13, <1>14 DEF FlagInv

\* poll_and_wait() starts its poll(), or is refused.
LEMMA FlagPollStep ==
  ASSUME FlagInv, PollAndWait \/ PollAndWaitRejected
  PROVE  FlagInv'
<1>1. FlagTypeOK
  BY FlagTypes
<1>2. /\ UNCHANGED <<signaled, waiter, live, armed, pending, walk, checked, set_pc, token,
                     timeout, slip>>
      /\ wake_ready' = TRUE
  BY DEF PollAndWait, PollAndWaitRejected, platform_prepare_scheduler_wait, flagObjects
<1>3. CASE PollAndWait
  <2>1. /\ phase = "idle" /\ phase' = "signals" /\ loop' = "pass" /\ PollBegin
        /\ UNCHANGED <<state, current>>
    BY <1>3 DEF PollAndWait, PollBegin, slotVars
  <2>2. TimerInv'
    BY <2>1, TimerNext DEF FlagInv, Next, CoreNext, Poll
  <2>3. FlagTypeOK'
    BY <1>1, <1>2, <2>1 DEF FlagTypeOK, portMAX_DELAY
  <2>4. ArmedExact'
    BY <1>2, <2>1, <2>3, KeepsArmed DEF FlagInv, shutting_down
  <2>5. NoLostSignal'
    BY <1>2 DEF FlagInv, NoLostSignal
  <2>6. /\ walk = << >> /\ checked = NoFlag /\ current = NoSlot /\ slip = 0
    BY <1>3, <2>1 DEF PollAndWait, FlagInv, CallState, Blocking
  <2>7. CallState'
    BY <1>2, <2>1, <2>6 DEF CallState, Blocking, shutting_down
  <2>8. WakeComing'
    BY <1>2, <2>1, <2>6 DEF WakeComing
  <2>9. NoOversleep'
    BY <2>1, KeepsNoOversleep DEF FlagInv, Blocking
  <2> QED
    BY <2>2, <2>4, <2>5, <2>7, <2>8, <2>9 DEF FlagInv
<1>4. CASE PollAndWaitRejected
  <2>1. UNCHANGED restVars /\ error' \in Errors /\ UNCHANGED loop
    BY <1>4 DEF PollAndWaitRejected, PollRejected, Errors
  <2>2. UNCHANGED <<state, deadline_us, ready, current, phase, clock>>
    BY <2>1 DEF restVars, slotVars, timeVars
  <2>3. TimerInv'
    BY <2>1, ReportKeeps DEF FlagInv
  <2>4. FlagTypeOK'
    BY <1>1, <1>2, <2>1 DEF FlagTypeOK, portMAX_DELAY
  <2>5. ArmedExact'
    BY <1>2, <2>2, <2>4, KeepsArmed DEF FlagInv, shutting_down
  <2>6. NoLostSignal'
    BY <1>2 DEF FlagInv, NoLostSignal
  <2>7. CallState'
    BY <1>2, <2>1, <2>2 DEF FlagInv, CallState, Blocking, shutting_down
  <2>8. WakeComing'
    BY <1>2, <2>1, <2>2 DEF FlagInv, WakeComing, Unnoticed, WakeOnItsWay
  <2>9. NoOversleep'
    BY <1>2, <2>1, <2>2, KeepsNoOversleep DEF FlagInv
  <2> QED
    BY <2>3, <2>5, <2>6, <2>7, <2>8, <2>9 DEF FlagInv
<1> QED
  BY <1>3, <1>4

\* wait_for_work() goes on to block only with nothing ready, until the nearest
\* deadline as seen from the time it samples.
LEMMA FlagBlockStep ==
  ASSUME FlagInv, wait_for_work
  PROVE  FlagInv'
<1>1. FlagTypeOK /\ Typed
  BY FlagTypes
<1>2. /\ phase = "idle" /\ loop = "pass" /\ UNCHANGED vars
      /\ UNCHANGED <<signaled, waiter, live, armed, pending, walk, checked, set_pc,
                     wake_ready, token, slip>>
      /\ \/ loop' = "poll" /\ UNCHANGED timeout
         \/ /\ ~NoBlocking /\ loop' = "sampled"
            /\ timeout' = platform_ticks_until(clock, nearest_deadline)
  BY DEF wait_for_work, InWait, flagObjects
<1>3. UNCHANGED <<state, deadline_us, ready, current, phase, clock>>
  BY <1>2 DEF vars, slotVars, timeVars
<1>4. TimerInv'
  BY <1>2, TimerNext DEF FlagInv
<1>5. clock \in Ticks /\ nearest_deadline \in Ticks
  BY <1>1 DEF Typed
<1>6. timeout' \in 0..portMAX_DELAY
  BY <1>1, <1>2, <1>5, TimeoutTypes DEF FlagTypeOK
<1>7. FlagTypeOK'
  BY <1>1, <1>2, <1>6 DEF FlagTypeOK, portMAX_DELAY
<1>8. ArmedExact'
  BY <1>2, <1>3, <1>7, KeepsArmed DEF FlagInv, shutting_down
<1>9. NoLostSignal'
  BY <1>2 DEF FlagInv, NoLostSignal
<1>10. /\ loop' # "poll" => ready = << >>
       /\ slip = 0 /\ slip' = 0
  BY <1>2 DEF NoBlocking, FlagInv, CallState, Blocking
<1>11. CallState'
  BY <1>2, <1>3, <1>10 DEF FlagInv, CallState, Blocking, shutting_down
<1>12. WakeComing'
  BY <1>2, <1>3 DEF FlagInv, WakeComing, Unnoticed, WakeOnItsWay
<1>13. NoOversleep'
  <2> SUFFICES ASSUME loop' = "sampled", NEW s \in Waiting, deadline_us[s] < MaxTick
               PROVE  /\ timeout' # portMAX_DELAY
                      /\ timeout' > 0 =>
                           (TickCount(clock) + timeout' - 1) * MicrosPerSecond
                             < deadline_us[s] * TickRate
    <3>1. timeout' \in Int /\ TickCount(clock) \in Int
      BY <1>5, <1>6, TickCountBounds, SchedulerAssumption DEF Ticks
    <3>2. TickCount(clock) + timeout' - 1 - slip' = TickCount(clock) + timeout' - 1
      BY <1>10, <3>1
    <3>3. TickCount(clock)' = TickCount(clock) /\ Waiting' = Waiting
          /\ portMAX_DELAY' = portMAX_DELAY
      BY <1>3 DEF TickCount, Waiting, portMAX_DELAY
    <3> QED
      BY <1>2, <1>3, <3>2, <3>3 DEF NoOversleep
  <2>1. nearest_deadline <= deadline_us[s]
    BY <1>2 DEF FlagInv, TimerInv, Timers, NearestIsReal, IsNearest, shutting_down
  <2>2. /\ deadline_us[s] \in Nat /\ MaxTick \in Nat /\ clock \in Nat
        /\ nearest_deadline \in Nat
    BY <1>1, <1>5, SchedulerAssumption DEF Typed, Ticks, Waiting
  <2>3. timeout' = platform_timeout_ticks(clock, nearest_deadline)
    <3>1. nearest_deadline # MaxTick
      BY <2>1, <2>2
    <3> QED
      BY <1>2, <3>1 DEF platform_ticks_until
  <2>4. timeout' \in 0..MaxFiniteTicks /\ portMAX_DELAY = MaxFiniteTicks + 1
    BY <1>5, <2>3, TimeoutTypes DEF portMAX_DELAY
  <2>5. ASSUME timeout' > 0 PROVE nearest_deadline > clock
    <3>1. SUFFICES ASSUME nearest_deadline <= clock PROVE FALSE
      BY <2>2
    <3>2. timeout' = 0
      BY <2>3, <3>1 DEF platform_timeout_ticks
    <3> QED
      BY <2>5, <3>2
  <2>6. MaxFiniteTicks \in Nat
    BY FlagAssumption
  <2>7. timeout' # portMAX_DELAY
    BY <2>4, <2>6
  <2>8. ASSUME timeout' > 0
        PROVE  (TickCount(clock) + timeout' - 1) * MicrosPerSecond
                 < deadline_us[s] * TickRate
    <3>1. nearest_deadline > clock
      BY <2>5, <2>8
    <3> DEFINE e == deadline_us[s]
    <3>2. e \in Nat /\ nearest_deadline <= e
      BY <2>1, <2>2
    <3> HIDE DEF e
    <3>3. (TickCount(clock) + platform_timeout_ticks(clock, nearest_deadline) - 1)
            * MicrosPerSecond < e * TickRate
      BY <2>2, <3>1, <3>2, TimeoutEnds
    <3> QED
      BY <2>3, <3>3 DEF e
  <2> QED
    BY <2>7, <2>8
<1> QED
  BY <1>4, <1>8, <1>9, <1>11, <1>12, <1>13 DEF FlagInv

\* xSemaphoreTake() starts with the timeout as it was computed.
LEMMA FlagTakeStep ==
  ASSUME FlagInv, Block
  PROVE  FlagInv'
<1>1. FlagTypeOK
  BY FlagTypes
<1>2. /\ UNCHANGED vars /\ loop = "sampled" /\ loop' = "asleep"
      /\ UNCHANGED <<signaled, waiter, live, armed, pending, walk, checked, set_pc,
                     wake_ready, token, timeout, slip>>
  BY DEF Block, flagObjects
<1>3. UNCHANGED <<state, deadline_us, ready, current, phase, clock>>
  BY <1>2 DEF vars, slotVars, timeVars
<1>4. TimerInv'
  BY <1>2, TimerNext DEF FlagInv
<1>5. FlagTypeOK'
  BY <1>1, <1>2 DEF FlagTypeOK, portMAX_DELAY
<1>6. ArmedExact'
  BY <1>2, <1>3, <1>5, KeepsArmed DEF FlagInv, shutting_down
<1>7. NoLostSignal'
  BY <1>2 DEF FlagInv, NoLostSignal
<1>8. CallState'
  BY <1>2, <1>3 DEF FlagInv, CallState, Blocking, shutting_down
<1>9. WakeComing'
  BY <1>2, <1>3 DEF FlagInv, WakeComing, Unnoticed, WakeOnItsWay
<1>10. NoOversleep'
  BY <1>2, <1>3 DEF FlagInv, NoOversleep, Waiting, TickCount, portMAX_DELAY
<1> QED
  BY <1>4, <1>6, <1>7, <1>8, <1>9, <1>10 DEF FlagInv

\* xSemaphoreTake() returns: poll_and_wait() is over.
LEMMA FlagUnblockStep ==
  ASSUME FlagInv, WakeUp
  PROVE  FlagInv'
<1>1. FlagTypeOK /\ portMAX_DELAY \in Nat
  BY FlagTypes, FlagAssumption DEF portMAX_DELAY
<1>2. /\ UNCHANGED vars /\ loop' = "poll" /\ timeout' = 0 /\ slip' = 0 /\ token' = FALSE
      /\ UNCHANGED <<signaled, waiter, live, armed, pending, walk, checked, set_pc,
                     wake_ready>>
  BY DEF WakeUp, flagObjects
<1>3. UNCHANGED <<state, deadline_us, ready, current, phase, clock>>
  BY <1>2 DEF vars, slotVars, timeVars
<1>4. TimerInv'
  BY <1>2, TimerNext DEF FlagInv
<1>5. FlagTypeOK'
  <2>1. timeout' \in 0..portMAX_DELAY
    BY <1>1, <1>2
  <2>2. token' \in BOOLEAN
    BY <1>2
  <2>3. loop' \in {"poll", "pass", "sampled", "asleep"} /\ slip' \in Nat
    BY <1>2
  <2>4. UNCHANGED <<signaled, waiter, live, armed, pending, walk, checked, set_pc,
                    wake_ready>>
    BY <1>2
  <2> QED
    BY <1>1, <2>1, <2>2, <2>3, <2>4 DEF FlagTypeOK, portMAX_DELAY
<1>6. ArmedExact'
  BY <1>2, <1>3, <1>5, KeepsArmed DEF FlagInv, shutting_down
<1>7. NoLostSignal'
  BY <1>2 DEF FlagInv, NoLostSignal
<1>8. CallState'
  BY <1>2, <1>3 DEF FlagInv, CallState, Blocking
<1>9. WakeComing' /\ NoOversleep'
  BY <1>2 DEF WakeComing, NoOversleep
<1> QED
  BY <1>4, <1>6, <1>7, <1>8, <1>9 DEF FlagInv

\* Time passes: what the tick interrupts take from the timeout they add to the count,
\* and what they add before xSemaphoreTake() is set down in slip.
LEMMA FlagTickStep ==
  ASSUME FlagInv, ClockTick
  PROVE  FlagInv'
<1> DEFINE k == TickCount(clock') - TickCount(clock)
<1>1. FlagTypeOK /\ Typed
  BY FlagTypes
<1>2. /\ Tick
      /\ \/ loop # "sampled" /\ timeout' = TimeoutAfter(k) /\ UNCHANGED slip
         \/ loop = "sampled" /\ slip' = slip + k /\ UNCHANGED timeout
      /\ UNCHANGED <<signaled, waiter, live, armed, pending, walk, checked, set_pc,
                     wake_ready, token, loop>>
  BY DEF ClockTick, flagObjects
<1>3. UNCHANGED <<state, deadline_us, ready, current, phase>> /\ clock' = clock + 1
  BY <1>2 DEF Tick, slotVars
<1>4. TimerInv'
  BY <1>2, TimerNext DEF FlagInv, Next, CoreNext
<1>5. clock \in Nat /\ clock' \in Nat
  BY <1>1, <1>3, SchedulerAssumption DEF Typed, Ticks
<1>6. TickCount(clock) \in Nat /\ TickCount(clock') \in Nat
  BY <1>5, TickCountBounds
<1>7. k >= 0 /\ k \in Int
  <2>1. TickCount(clock) <= TickCount(clock')
    BY <1>3, <1>5, TickCountMonotone
  <2> QED
    BY <1>6, <2>1
<1> HIDE DEF k
<1>8. portMAX_DELAY \in Nat /\ timeout \in 0..portMAX_DELAY /\ slip \in Nat
  BY <1>1, FlagAssumption DEF portMAX_DELAY, FlagTypeOK
<1>9. /\ timeout' \in 0..portMAX_DELAY /\ slip' \in Nat
      /\ timeout # portMAX_DELAY => timeout' # portMAX_DELAY
      /\ timeout # portMAX_DELAY /\ timeout' > 0 =>
           timeout' - slip' = timeout - slip - k /\ timeout > 0
  BY <1>2, <1>7, <1>8 DEF TimeoutAfter
<1>10. FlagTypeOK'
  BY <1>1, <1>2, <1>9 DEF FlagTypeOK, portMAX_DELAY
<1>11. ArmedExact'
  BY <1>2, <1>3, <1>10, KeepsArmed DEF FlagInv, shutting_down
<1>12. NoLostSignal'
  BY <1>2 DEF FlagInv, NoLostSignal
<1>13. CallState'
  BY <1>2, <1>3 DEF FlagInv, CallState, Blocking, shutting_down
<1>14. WakeComing'
  BY <1>2, <1>3 DEF FlagInv, WakeComing, Unnoticed, WakeOnItsWay
<1>15. NoOversleep'
  <2> SUFFICES ASSUME Blocking, NEW s \in Waiting, deadline_us[s] < MaxTick
               PROVE  /\ timeout' # portMAX_DELAY
                      /\ timeout' > 0 =>
                           (TickCount(clock') + timeout' - 1 - slip') * MicrosPerSecond
                             < deadline_us[s] * TickRate
    BY <1>2, <1>3 DEF NoOversleep, Waiting, TickCount, portMAX_DELAY, Blocking
  <2>1. /\ timeout # portMAX_DELAY
        /\ timeout > 0 => (TickCount(clock) + timeout - 1 - slip) * MicrosPerSecond
                            < deadline_us[s] * TickRate
    BY DEF FlagInv, NoOversleep, Blocking
  <2>2. ASSUME timeout' > 0
        PROVE  TickCount(clock') + timeout' - 1 - slip' = TickCount(clock) + timeout - 1 - slip
    BY <1>6, <1>8, <1>9, <2>1, <2>2 DEF k
  <2> QED
    BY <1>9, <2>1, <2>2
<1> QED
  BY <1>4, <1>11, <1>12, <1>13, <1>14, <1>15 DEF FlagInv

-----------------------------------------------------------------------------

\* Nothing is armed, signaled or blocked at first.
LEMMA FlagInvInit == FlagInit => FlagInv
<1> SUFFICES ASSUME FlagInit PROVE FlagInv
  OBVIOUS
<1>1. TimerInv
  BY TimerInit DEF FlagInit
<1>2. /\ Init /\ \A s \in Slots : state[s] # "waiting_local"
      /\ current = NoSlot /\ phase = "idle" /\ portMAX_DELAY \in Nat
  BY FlagAssumption DEF FlagInit, Init, portMAX_DELAY
<1>3. FlagTypeOK
  <2>1. timeout \in 0..portMAX_DELAY
    BY <1>2 DEF FlagInit
  <2>2. /\ pending \in BOOLEAN /\ wake_ready \in BOOLEAN /\ token \in BOOLEAN
        /\ live \in [Flags -> BOOLEAN] /\ signaled \in [Flags -> BOOLEAN]
    BY DEF FlagInit
  <2>3. /\ waiter \in [Flags -> Slots \union {NoSlot}] /\ armed \in Seq(Flags)
        /\ walk \in Seq(Flags) /\ checked \in Flags \union {NoFlag}
        /\ set_pc \in [Contexts -> {"idle", "wake"}] /\ slip \in Nat
        /\ loop \in {"poll", "pass", "sampled", "asleep"}
    BY DEF FlagInit
  <2> QED
    BY <2>1, <2>2, <2>3 DEF FlagTypeOK
<1>4. ArmedExact
  <2>1. armed = << >> /\ Range(armed) = {} /\ IsInjective(armed)
    BY DEF FlagInit, Range, IsInjective
  <2>2. \A f \in Flags : waiter[f] = NoSlot
    BY DEF FlagInit
  <2> QED
    BY <1>2, <1>3, <2>1, <2>2 DEF ArmedExact
<1>5. NoLostSignal
  BY DEF FlagInit, NoLostSignal
<1>6. CallState /\ WakeComing /\ NoOversleep
  BY <1>2 DEF FlagInit, CallState, Blocking, WakeComing, NoOversleep
<1> QED
  BY <1>1, <1>4, <1>5, <1>6 DEF FlagInv

\* Every step of the scheduler thread and of the external contexts keeps it.
LEMMA FlagInvNext == FlagInv /\ [FlagNext]_fvars => FlagInv'
<1> SUFFICES ASSUME FlagInv, [FlagNext]_fvars PROVE FlagInv'
  OBVIOUS
<1>1. CASE UNCHANGED fvars
  <2>1. /\ UNCHANGED vars
        /\ UNCHANGED <<signaled, waiter, live, armed, pending, walk, checked, set_pc,
                       wake_ready, token, loop, timeout, slip>>
    BY <1>1 DEF fvars, flagVars, flagObjects, waitVars
  <2>2. UNCHANGED <<state, deadline_us, ready, current, phase, clock>>
    BY <2>1 DEF vars, slotVars, timeVars
  <2>3. TimerInv'
    BY <2>1, TimerNext DEF FlagInv
  <2>4. FlagTypeOK'
    BY <2>1, FlagTypes DEF FlagTypeOK, portMAX_DELAY
  <2>5. ArmedExact'
    BY <2>1, <2>2, <2>4, KeepsArmed DEF FlagInv, shutting_down
  <2>6. NoLostSignal' /\ CallState'
    BY <2>1, <2>2 DEF FlagInv, NoLostSignal, CallState, Blocking, shutting_down
  <2>7. WakeComing'
    BY <2>1, <2>2 DEF FlagInv, WakeComing, Unnoticed, WakeOnItsWay
  <2>8. NoOversleep'
    BY <2>1, <2>2, KeepsNoOversleep DEF FlagInv
  <2> QED
    BY <2>3, <2>5, <2>6, <2>7, <2>8 DEF FlagInv
<1>2. CASE SchedulerStep \/ BeginSignals \/ VisitFlag \/ PollAndWait \/ PollAndWaitRejected
           \/ wait_for_work \/ Block \/ WakeUp \/ ClockTick
  BY <1>2, FlagSchedulerStep, FlagBeginStep, FlagVisitStep, FlagPollStep, FlagBlockStep,
     FlagTakeStep, FlagUnblockStep, FlagTickStep
<1>3. CASE SetFlag
  BY <1>3, FlagSetStep, FlagWakeStep DEF SetFlag
<1>4. CASE FlagAwaits \/ \E f \in Flags : WaitConsumes(f) \/ Clear(f) \/ Destroy(f)
  BY <1>4, FlagCheckStep, FlagParkStep, FlagDestroyStep DEF FlagAwaits
<1> QED
  BY <1>1, <1>2, <1>3, <1>4 DEF FlagNext

\* The invariant holds in every execution with flags and poll_and_wait().
LEMMA FlagInvariant == FlagSpec => []FlagInv
  BY FlagInvInit, FlagInvNext, PTL DEF FlagSpec

\* For any number of flags, slots and external contexts, the armed list is exact: each
\* flag with a waiter is linked once, and no destroyed flag is.
THEOREM FlagsArmedExactly == FlagSpec => []ArmedExact
<1>1. FlagInv => ArmedExact
  BY DEF FlagInv
<1> QED
  BY <1>1, FlagInvariant, PTL

\* However set() interleaves with wait() and with the walk over the armed flags, a
\* signal for a parked task is found by this poll() or by the next.
THEOREM SignalsNeverLost == FlagSpec => []NoLostSignal
<1>1. FlagInv => NoLostSignal
  BY DEF FlagInv
<1> QED
  BY <1>1, FlagInvariant, PTL

\* poll_and_wait() never sleeps through a signal for a parked task.
THEOREM SleepEndsOnSignal == FlagSpec => []NoSleepOnSignal
<1>1. FlagInv => NoSleepOnSignal
  <2> SUFFICES ASSUME FlagInv, loop = "asleep"
               PROVE  /\ ready = << >>
                      /\ (\E f \in Flags : signaled[f] /\ waiter[f] # NoSlot) =>
                           token \/ \E c \in Contexts : set_pc[c] = "wake"
    BY DEF NoSleepOnSignal
  <2>1. ready = << >> /\ phase = "idle" /\ walk = << >>
    BY DEF FlagInv, CallState, Blocking
  <2>2. \A f \in Flags : signaled[f] /\ waiter[f] # NoSlot => Unnoticed(f)
    BY <2>1 DEF Unnoticed, Range
  <2> QED
    BY <2>1, <2>2 DEF FlagInv, WakeComing, WakeOnItsWay
<1> QED
  BY <1>1, FlagInvariant, PTL

\* The timeout poll_and_wait() computes is right for every deadline, tick rate and cap
\* on finite timeouts, at whatever time it is computed.
THEOREM TimeoutsAlwaysCover == FlagSpec => []TimeoutsCover
<1>1. FlagInv => TimeoutsCover
  <2> SUFFICES ASSUME FlagInv PROVE TimeoutsCover
    OBVIOUS
  <2>1. /\ clock \in Nat
        /\ (MaxFiniteTicks + 1) * MicrosPerSecond \in Nat
    BY FlagTypes, FlagAssumption, SchedulerAssumption DEF Typed, Ticks
  <2> DEFINE b == (MaxFiniteTicks + 1) * MicrosPerSecond
  <2> HIDE DEF b
  <2>2. ASSUME NEW r \in 1..b
        PROVE  LET k == platform_timeout_ticks(clock, clock + r) IN
                 /\ k \in 1..MaxFiniteTicks
                 /\ k < MaxFiniteTicks => k * MicrosPerSecond >= r * TickRate
                 /\ (k - 1) * MicrosPerSecond < r * TickRate
    <3>1. clock + r \in Nat /\ clock + r > clock /\ (clock + r) - clock = r
      BY <2>1 DEF b
    <3> QED
      BY <2>1, <3>1, TimeoutBounds
  <2> QED
    BY <2>2 DEF TimeoutsCover, b
<1> QED
  BY <1>1, FlagInvariant, PTL

\* poll_and_wait() never sleeps a tick past the deadline of a waiting task, but for the
\* ticks that pass between its sample of the clock and xSemaphoreTake().
THEOREM NeverOversleeps == FlagSpec => []NoOversleep
<1>1. FlagInv => NoOversleep
  BY DEF FlagInv
<1> QED
  BY <1>1, FlagInvariant, PTL
==============================================================================
