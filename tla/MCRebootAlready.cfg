CONSTANTS
  Buses <- MCBuses
  Leftovers <- NoLeftovers
  MaxFaults = 0
SPECIFICATION Spec
INVARIANT AlreadyMeansBootsel
CHECK_DEADLOCK FALSE
