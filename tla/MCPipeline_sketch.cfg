SPECIFICATION PipelineSpec
CONSTANTS
  Samples = {1, 2, 3, 5}
  WarmupArgs = {0, 2, 3}
  StableArgs = {0, 1, 2, 3}
  LimitArgs <- TrackerLimits
  CountMax = 7
  StableMax = 3
  NotFinite = NotFinite
  None = None
  Setups <- AllSetups
  Deltas <- AllDeltas
  Inputs <- AllInputs
  UsualTracker <- TheTracker
  UsualProximity <- TheProximity
  Limits <- TheLimits
INVARIANTS
  LearnedIsEarned
  BaselineInRange
  ReportedWhenSettled
  SurfaceIsOrdered
  LookupFollowsTable
PROPERTIES
  LearnedWhenQuiet
  LearnedNeverJumps
  SwitchIsEarned
  AnsweredFromMeasurement
  FillIsTheLevel
  ImplementsProximity
CHECK_DEADLOCK TRUE
