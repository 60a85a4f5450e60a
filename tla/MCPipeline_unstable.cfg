SPECIFICATION PipelineSpec
CONSTANTS
  Samples = {1, 2, 3, 5}
  WarmupArgs = {0, 2, 3}
  StableArgs = {0, 1, 2, 3}
  LimitArgs <- TrackerLimits
  CountMax = 7
  StableMax = 3
  NotFinite = NotFinite
  None = None
  Setups <- DiagnosedSetups
  Deltas <- AllDeltas
  Inputs <- AllInputs
  UsualTracker <- TheTracker
  UsualProximity <- TheProximity
  Limits <- TheLimits
INVARIANTS
  UnstableIsRefused
CHECK_DEADLOCK TRUE
