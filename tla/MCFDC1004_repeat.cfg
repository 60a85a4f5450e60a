SPECIFICATION Spec
CONSTANTS
  Slots = {m1, m2}
  Configs = {c1}
  Rates = {sps100}
  DefaultRate = sps100
  Values = {v1}
  Limits = {2}
  DefaultLimit = 2
  ClockMod = 4
  StartTimes = {0, 3}
  Delays = {1}
  WriteFaults = {"nack"}
  Resets = FALSE
  NoValue = NoValue
  NoConfig = NoConfig
  NoSlot = NoSlot
PROPERTY
  RepeatSurvivesTrigger
CHECK_DEADLOCK TRUE
