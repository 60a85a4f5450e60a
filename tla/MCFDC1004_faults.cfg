SPECIFICATION FairSpec
CONSTANTS
  Slots = {m1}
  Configs = {c1, c2}
  Rates = {sps100}
  DefaultRate = sps100
  Values = {v1}
  Limits = {0, 3}
  DefaultLimit = 3
  ClockMod = 5
  StartTimes = {3}
  Delays = {1, 2}
  WriteFaults = {"nack", "unacked"}
  Resets = TRUE
  NoValue = NoValue
  NoConfig = NoConfig
  NoSlot = NoSlot
INVARIANTS
  ConfigCoherent
  SingleShotOffset
  DeadlineKept
PROPERTIES
  ImplementsSingleShot
  CallReturns
CHECK_DEADLOCK TRUE
