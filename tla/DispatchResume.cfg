CONSTANTS
  Runner = {r1}
  Target = {shell}
  Adapter <- HighAdapter
  Ceiling <- HighCeiling
  Declared = {0, 3}
  Outcome = {"done"}
  TicksPerMinute = 2
  MaxTime = 3
  MaxIntents = 2
  MaxMarkers = 0
  MaxMishaps = 1
SPECIFICATION Spec
INVARIANT CrashResumeNeverRepeats
CHECK_DEADLOCK FALSE
