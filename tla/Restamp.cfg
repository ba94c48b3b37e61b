CONSTANTS
  M = 9
  MaxInterval = 2
  MaxElapsed = 12
SPECIFICATION Spec
INVARIANTS DistanceKept
PROPERTIES RunsOn
