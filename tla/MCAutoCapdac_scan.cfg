SPECIFICATION FairTuneSpec
CONSTANTS
  Slots = {m1}
  Configs = {0, 1, 2}
  MaxCode = 2
  Rates = {sps100}
  DefaultRate = sps100
  Values <- Readings
  Targets = {2}
  Margins = {0}
  SatLow <- Lowest
  SatHigh = 4
  NearLow <- Low
  NearHigh = 3
  Limits = {3}
  DefaultLimit = 3
  ClockMod = 6
  StartTimes = {5}
  Delays = {1, 2}
  WriteFaults = {"nack", "unacked"}
  Resets = TRUE
  NoValue = NoValue
  NoConfig = NoConfig
  NoSlot = NoSlot
INVARIANTS
  TunedIsBest
  NotReadyIsSaturated
  TunedSlot
  TunedReadingIsOwn
PROPERTIES
  TuneReturns
CHECK_DEADLOCK TRUE
