CONSTANTS
  Buses <- MCBuses
  Leftovers <- MCLeftovers
  MaxFaults = 2
SPECIFICATION Spec
INVARIANTS
  RebootTypeOK
  ReportMatchesDevice
PROPERTIES
  ReportedRebootComes
  FreshDeviceIsRebooted
  RebootEnds
CHECK_DEADLOCK FALSE
