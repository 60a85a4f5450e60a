SPECIFICATION Spec
CONSTANTS
  ClockMod <- Ticks
  MaxGap = 4
  MinInterval = 3
  DebounceArgs = {0, 2}
  Steps <- Pauses
  Setbacks = {1, 2, 6}
INVARIANTS
  EventsSpaced
CHECK_DEADLOCK TRUE
