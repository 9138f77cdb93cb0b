\* Two threads; the lower half of the clock runs over at 4; a time that fits
\* into a long and one that does not.  A wild call ends the task, hence no check
\* for deadlock.
SPECIFICATION ClockSpec
CHECK_DEADLOCK FALSE
CONSTANTS
  Thread = {t1, t2}
  Half = 4
  Million = 2
  Second = {0, 1}
  ClockId <- MCClockId
  Start = 2
  MaxClock = 5
  MaxCalls = 3
SYMMETRY MCSymmetry
PROPERTIES
  MonotonicIsNow
  RealTimeAsSet
