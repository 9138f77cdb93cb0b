\* Alarms and timers, faults and handlers, three calls in five ticks.
SPECIFICATION FairSpec
CONSTANTS
  Never = never
  Seconds = {0, 2}
  Times = {0, 2}
  Room = 2
  MaxClock = 5
  MaxCalls = 3
INVARIANTS
  TypeOK
  TimerSurvives
PROPERTIES
  AlarmFires
  MainResumes
\* The clock stops at its bound, and the main thread may be left waiting.
CHECK_DEADLOCK FALSE
