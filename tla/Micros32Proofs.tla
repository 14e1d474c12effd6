--------------------------- MODULE Micros32Proofs ----------------------------
(***************************************************************************)
(* Proofs about the wrap-counting clock, for every period of micros() and  *)
(* any time between two samples.                                           *)
(***************************************************************************)
EXTENDS Micros32Extender, TLAPS

\* Quotient and remainder.
LEMMA DivMod ==
  ASSUME NEW n \in Nat, NEW p \in Nat \ {0}
  PROVE  /\ n \div p \in Nat /\ n % p \in 0..(p - 1)
         /\ n = (n \div p) * p + (n % p)
<1> DEFINE q == n \div p
           r == n % p
<1>1. q \in Nat /\ r \in 0..(p - 1)
  OBVIOUS
<1>2. r = n - p * q
  OBVIOUS
<1> HIDE DEF q, r
<1>3. n = q * p + r
  BY <1>1, <1>2
<1> QED
  BY <1>1, <1>3 DEF q, r

\* They are unique.
LEMMA Quotient ==
  ASSUME NEW q \in Int, NEW p \in Nat \ {0}, NEW r \in 0..(p - 1)
  PROVE  (q * p + r) \div p = q
  OBVIOUS

\* The difference of two numbers given by quotient and remainder.
LEMMA Difference ==
  ASSUME NEW q \in Int, NEW m \in Int, NEW r \in Int, NEW l \in Int, NEW p \in Int
  PROVE  /\ (q * p + m) - (r * p + l) = (q - r) * p + (m - l)
         /\ (q * p + m) - (r * p + l) = (q - r - 1) * p + (m - l + p)
  OBVIOUS

\* The whole periods between two times, from the quotients and remainders of both.
LEMMA WholePeriods ==
  ASSUME NEW s \in Nat, NEW t \in Nat, NEW p \in Nat \ {0}
  PROVE  (t - s) \div p = (t \div p) - (s \div p) - (IF t % p < s % p THEN 1 ELSE 0)
<1> DEFINE q == t \div p
           m == t % p
           r == s \div p
           l == s % p
<1>1. q \in Int /\ m \in 0..(p - 1) /\ t = q * p + m
  BY DivMod
<1>2. r \in Int /\ l \in 0..(p - 1) /\ s = r * p + l
  BY DivMod
<1> HIDE DEF q, m, r, l
<1>3. CASE m < l
  <2>1. t - s = (q - r - 1) * p + (m - l + p)
    BY <1>1, <1>2, Difference
  <2>2. m - l + p \in 0..(p - 1) /\ q - r - 1 \in Int
    BY <1>1, <1>2, <1>3
  <2>3. (t - s) \div p = q - r - 1
    BY <2>1, <2>2, Quotient
  <2> QED
    BY <1>3, <2>3 DEF q, m, r, l
<1>4. CASE ~(m < l)
  <2>1. t - s = (q - r) * p + (m - l)
    BY <1>1, <1>2, Difference
  <2>2. m - l \in 0..(p - 1) /\ q - r \in Int
    BY <1>1, <1>2, <1>4
  <2>3. (t - s) \div p = q - r
    BY <2>1, <2>2, Quotient
  <2>4. q - r - 0 = q - r
    BY <1>1, <1>2
  <2> QED
    BY <1>4, <2>3, <2>4 DEF q, m, r, l
<1> QED
  BY <1>3, <1>4

-----------------------------------------------------------------------------

\* The extender's state is a function of the last sample: last is its remainder, and
\* wraps the whole periods up to it that some sample noticed.
ClockInv ==
  /\ {time, last, wraps, reading, sampled, lost} \subseteq Nat
  /\ sampled <= time
  /\ last = sampled % Period
  /\ wraps + lost = sampled \div Period
  /\ reading = wraps * Period + last

\* extend() counts one wrap exactly when the remainder has decreased.
LEMMA SampleKeeps == ClockInv /\ Sample => ClockInv'
<1> SUFFICES ASSUME ClockInv, Sample PROVE ClockInv'
  OBVIOUS
<1>1. /\ time \in Nat /\ last \in Nat /\ wraps \in Nat /\ sampled \in Nat /\ lost \in Nat
      /\ Period \in Nat \ {0} /\ sampled <= time
  BY ExtenderAssumption DEF ClockInv
<1>2. /\ time \div Period \in Nat /\ time % Period \in Nat
      /\ sampled \div Period \in Nat /\ sampled % Period \in Nat
      /\ (time - sampled) \div Period \in Nat
  BY <1>1, DivMod
<1>3. (time - sampled) \div Period
        = (time \div Period) - (sampled \div Period)
          - (IF time % Period < sampled % Period THEN 1 ELSE 0)
  BY <1>1, WholePeriods
<1>4. /\ wraps' = wraps + (IF time % Period < sampled % Period THEN 1 ELSE 0)
      /\ last' = time % Period
      /\ reading' = wraps' * Period + last'
      /\ sampled' = time /\ time' = time
      /\ lost' = lost + (time - sampled) \div Period
  BY DEF Sample, extend, Wrapped, micros, ClockInv
<1>5. wraps' + lost' = sampled' \div Period
  <2> DEFINE a == time \div Period
             b == sampled \div Period
             x == (time - sampled) \div Period
             c == IF time % Period < sampled % Period THEN 1 ELSE 0
  <2>1. wraps + lost = b /\ x = a - b - c /\ wraps' = wraps + c /\ lost' = lost + x
    BY <1>3, <1>4 DEF ClockInv
  <2>2. a \in Int /\ b \in Int /\ x \in Int /\ c \in Int
    BY <1>2
  <2> HIDE DEF a, b, c, x
  <2>3. wraps' + lost' = a
    BY <1>1, <2>1, <2>2
  <2> QED
    BY <1>4, <2>3 DEF a
<1>6. wraps' \in Nat /\ lost' \in Nat
  BY <1>1, <1>2, <1>4
<1>7. reading' \in Nat
  BY <1>1, <1>2, <1>4, <1>6
<1> QED
  BY <1>1, <1>2, <1>4, <1>5, <1>6, <1>7 DEF ClockInv

\* Time passes without the extender.
LEMMA PassKeeps == ClockInv /\ Pass => ClockInv'
  BY DEF ClockInv, Pass

\* A new extender has seen time 0.
LEMMA ClockInvInit == ClockInit => ClockInv
<1> SUFFICES ASSUME ClockInit PROVE ClockInv
  OBVIOUS
<1>1. 0 \div Period = 0 /\ 0 % Period = 0 /\ 0 * Period = 0
  BY ExtenderAssumption
<1> QED
  BY <1>1 DEF ClockInit, ClockInv

\* The clock invariant holds always.
LEMMA ClockInvariant == ClockSpec => []ClockInv
<1>1. ClockInv /\ UNCHANGED cvars => ClockInv'
  BY DEF ClockInv, cvars
<1> QED
  BY <1>1, ClockInvInit, SampleKeeps, PassKeeps, PTL DEF ClockSpec, ClockNext

\* What the clock invariant says of the reading.
LEMMA LagFromInv == ClockInv => LagExact
<1> SUFFICES ASSUME ClockInv PROVE LagExact
  OBVIOUS
<1>1. /\ wraps \in Nat /\ lost \in Nat /\ sampled \in Nat /\ Period \in Nat \ {0}
      /\ sampled \div Period = wraps + lost
      /\ reading = wraps * Period + (sampled % Period)
  BY ExtenderAssumption DEF ClockInv
<1>2. PICK m \in Nat : m = sampled % Period
  BY <1>1, DivMod
<1>3. sampled = (wraps + lost) * Period + m
  BY <1>1, <1>2, DivMod
<1> QED
  BY <1>1, <1>2, <1>3 DEF LagExact

\* For every period, 2^32 included, the reading lags by exactly the whole periods
\* that passed between two samples: it is exact as long as poll() is called at least
\* once per period.
THEOREM ReadingLagsExactly == ClockSpec => []LagExact
  BY LagFromInv, ClockInvariant, PTL

\* A sample advances the reading by the true time since the last one less its whole
\* periods.
LEMMA SampleAdvance ==
  ASSUME ClockInv, Sample
  PROVE  reading' \in reading..(reading + (sampled' - sampled))
<1> DEFINE x == (time - sampled) \div Period
           m == (time - sampled) % Period
<1>1. /\ time - sampled \in Nat /\ Period \in Nat \ {0}
      /\ sampled \in Nat /\ time \in Nat /\ lost \in Nat
  BY ExtenderAssumption DEF ClockInv
<1>2. x \in Nat /\ m \in Nat /\ time - sampled = x * Period + m
  BY <1>1, DivMod
<1>3. reading = sampled - lost * Period
  BY LagFromInv DEF LagExact
<1>4. sampled' = time /\ lost' = lost + x
  BY DEF Sample
<1>5. reading' = sampled' - lost' * Period
  <2>1. ClockInv'
    BY SampleKeeps
  <2>2. LagExact'
    BY <2>1, LagFromInv, PTL
  <2> QED
    BY <2>2 DEF LagExact
<1> HIDE DEF x, m
<1>6. x * Period \in Nat /\ lost' * Period = lost * Period + x * Period
      /\ lost * Period \in Nat
  BY <1>1, <1>2, <1>4
<1> QED
  BY <1>1, <1>2, <1>3, <1>4, <1>5, <1>6

\* For every period the clock neither goes back nor runs ahead of the true time.
THEOREM ReadingNeverEarly == ClockSpec => NeverEarly
<1>1. ClockInv /\ [ClockNext]_cvars =>
        [reading' \in reading..(reading + (sampled' - sampled))]_cvars
  <2> SUFFICES ASSUME ClockInv, [ClockNext]_cvars
               PROVE  [reading' \in reading..(reading + (sampled' - sampled))]_cvars
    OBVIOUS
  <2>1. CASE Pass
    BY <2>1 DEF ClockInv, Pass
  <2>2. CASE Sample
    BY <2>2, SampleAdvance
  <2> QED
    BY <2>1, <2>2 DEF ClockNext
<1> QED
  BY <1>1, ClockInvariant, PTL DEF ClockSpec, NeverEarly
==============================================================================
