SPECIFICATION Spec
CONSTANTS
  Slots = {m1, m2}
  Configs = {c1}
  Rates = {sps100, sps400}
  DefaultRate = sps100
  Values = {v1, v2}
  Limits = {2}
  DefaultLimit = 2
  ClockMod = 4
  StartTimes = {3}
  Delays = {1}
  WriteFaults = {"nack"}
  Resets = FALSE
  NoValue = NoValue
  NoConfig = NoConfig
  NoSlot = NoSlot
SYMMETRY Symmetry
INVARIANTS
  TypeOK
  SingleShotFresh
  IdleIsQuiet
CHECK_DEADLOCK TRUE
