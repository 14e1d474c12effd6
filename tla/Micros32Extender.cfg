CONSTANTS
  Period = 5
  MaxGap = 16
  MaxTime = 40
SPECIFICATION ClockSpec
INVARIANT LagExact
PROPERTY NeverEarly
