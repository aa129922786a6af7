SPECIFICATION Spec
CONSTANTS
  Ids = {i1, i2}
  Ttls = {0, 1, 3}
  Hz = 3
  Period = 4
  Start = 1
  MaxNow = 18
INVARIANTS
  ClockInvariant
  NotEarly
  NotLate
