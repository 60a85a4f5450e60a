SPECIFICATION FairSpec
CONSTANTS
  Variants = {"FDC2214"}
  DefaultVariant = "FDC2214"
  UsedChannels = {0, 1}
  SetRegisters = {"clock"}
  RrSequences = {0}
  Sources = {FALSE, TRUE}
  Chips = {"FDC211x", "FDC221x", "other"}
  Settings = {s1}
  Unset = Unset
  Deglitches = {d1, d2}
  DefaultDeglitch = d1
  Options = {o1}
  DefaultOptions = o1
  Limits = {0}
  DefaultLimit = 3
  ClockMod = 5
  StartTimes = {3}
  Delays = {1, 2}
  WriteFaults = {"nack", "unacked"}
  Resets = FALSE
  NoCall = NoCall
PROPERTIES
  SuccessIsComplete
  FailureIsSafe
  CallReturns
CHECK_DEADLOCK TRUE
