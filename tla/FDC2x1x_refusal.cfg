SPECIFICATION Spec
CONSTANTS
  Variants = {"FDC2214"}
  DefaultVariant = "FDC2214"
  UsedChannels = {0, 1}
  SetRegisters = {}
  RrSequences = {0}
  Sources = {FALSE}
  Chips = {"FDC221x"}
  Settings = {s1}
  Unset = Unset
  Deglitches = {d1}
  DefaultDeglitch = d1
  Options = {o1}
  DefaultOptions = o1
  Limits = {0}
  DefaultLimit = 0
  ClockMod = 4
  StartTimes = {0}
  Delays = {1}
  WriteFaults = {"nack"}
  Resets = FALSE
  NoCall = NoCall
PROPERTY
  ConfigureRefusalIsHarmless
CHECK_DEADLOCK TRUE
