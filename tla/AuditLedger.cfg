SPECIFICATION Spec
CONSTANTS
  Writers = {w1, w2}
  Traces = {t1, t2}
  Classes = {operational}
  Scheduled = operational
  Checkers = {beat, admin}
  Beat = beat
  None = None
  MaxEvents = 2
  LastDay = 1
  Anchored = {0}
  LastTick = 1
INVARIANTS ChainUnbroken ForksOverlap AnchorsExact
CHECK_DEADLOCK FALSE
