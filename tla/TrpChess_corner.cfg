SPECIFICATION CSpec
CONSTANTS
  Program <- CornerOnly
  Unknown = Unknown
INVARIANT CaptureEpIsCapture
CHECK_DEADLOCK FALSE
