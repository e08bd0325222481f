SPECIFICATION Spec
CONSTANTS
  Readers = {r1, r2}
  StatsCallers = {s1, s2}
  Writers = {w1, w2}
PROPERTIES
  StopsOnlyInStats
CHECK_DEADLOCK FALSE
