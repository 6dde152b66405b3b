CONSTANTS
  Runner = {r1, r2}
  Target = {shell}
  Adapter <- HighAdapter
  Ceiling <- HighCeiling
  Declared = {0}
  Outcome <- WithEffect
  TicksPerMinute = 2
  MaxTime = 2
  MaxIntents = 2
  MaxMarkers = 2
  MaxMishaps = 1
SPECIFICATION Spec
SYMMETRY Runners
INVARIANTS TypeOK AdapterOncePerIntent NoUnsealedHighEffect BrakeBoundsOverrun AccountedFor
PROPERTIES RepeatsOnlyInFlight ImplementsLife
CHECK_DEADLOCK FALSE
