--------------------------- MODULE Micros32Extender --------------------------
(***************************************************************************)
(* The clock of the generic Arduino back end (src/src/simpleawait/detail/  *)
(* platform_clock.h): Micros32Extender widens the 32-bit micros() by       *)
(* counting wraps.  A wrap is noticed when a sample is smaller than the    *)
(* one before; poll() is the only caller, so between two samples any time  *)
(* may pass.                                                               *)
(***************************************************************************)
EXTENDS Integers

CONSTANTS
  Period,   \* 2^32 microseconds: the period of micros()
  MaxGap,   \* longest time between two polls (bound)
  MaxTime   \* end of the model's time (bound)

ASSUME ExtenderAssumption ==
  /\ Period \in Nat \ {0}
  /\ MaxGap \in Nat
  /\ MaxTime \in Nat

VARIABLES
  time,     \* true time since power-up
  last,     \* Micros32Extender::last
  wraps,    \* Micros32Extender::wraps
  reading,  \* what platform_now_us() returned last
  sampled,  \* history: the true time of that sample
  lost      \* history: whole periods that passed between two samples

cvars == <<time, last, wraps, reading, sampled, lost>>

ClockInit ==
  /\ time = 0
  /\ last = 0
  /\ wraps = 0
  /\ reading = 0
  /\ sampled = 0
  /\ lost = 0

micros == time % Period

\* A wrap has happened since the last sample.
Wrapped_mut == micros <= last
Wrapped == micros < last

\* extend(micros())
extend ==
  /\ wraps' = wraps + (IF Wrapped THEN 1 ELSE 0)
  /\ last' = micros
  /\ reading' = wraps' * Period + micros

\* poll() samples the clock.
Sample ==
  /\ extend
  /\ sampled' = time
  /\ lost' = lost + (time - sampled) \div Period
  /\ UNCHANGED time

\* Time passes between two samples.
Pass ==
  /\ time < MaxTime
  /\ time - sampled < MaxGap
  /\ time' = time + 1
  /\ UNCHANGED <<last, wraps, reading, sampled, lost>>

ClockNext == Sample \/ Pass

ClockSpec == ClockInit /\ [][ClockNext]_cvars

-----------------------------------------------------------------------------

\* The reading lags behind the true time of the sample by exactly the whole
\* periods in which nobody sampled: it is exact while every gap is shorter than
\* Period, one microsecond included, and a longer gap loses its whole periods and
\* nothing else.
LagExact == reading = sampled - lost * Period

\* The clock never runs ahead: between two samples it advances by no more than the
\* true time and never goes back, so a delay can end late but not early.
NeverEarly ==
  [][reading' \in reading..(reading + (sampled' - sampled))]_cvars
==============================================================================
