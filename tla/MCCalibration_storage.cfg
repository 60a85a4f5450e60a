SPECIFICATION Spec
CONSTANTS
  Channels = 2
  ByteBits = 2
  MagicBytes = 1
  VersionBytes = 1
  FloatBytes = 2
  ReservedBytes = 1
  CrcBytes = 2
  Poly <- ThePoly
  Known <- TheKnown
  Finite <- Numbers
  CodeMax31 <- Codes
  Bounded <- TheBounds
  Calibrations <- TheCalibrations
  MaxEdits = 1
  None = None
INVARIANTS
  LoadsWhatWasSaved
  StaleCrcIsNoticed
PROPERTIES
  ValidStaysValid
CHECK_DEADLOCK TRUE
