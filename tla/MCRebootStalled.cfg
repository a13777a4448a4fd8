CONSTANTS
  Buses <- MCBuses
  Leftovers <- NoLeftovers
  MaxFaults = 0
SPECIFICATION Spec
INVARIANT BootselDeviceIsRebooted
CHECK_DEADLOCK FALSE
