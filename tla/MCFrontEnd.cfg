CONSTANTS
  Buses <- MCBuses
  Others <- MCOthers
  Empty = ""
  MaxArgs = 3
SPECIFICATION FrontSpec
INVARIANTS
  ScanTypeOK
  HoldsWhatItMatched
  FindsFirstUsable
  StartsOnlyAsAsked
PROPERTIES
  GoodCommandLinesRun
  DevicesAreOpenedWhenAsked
CHECK_DEADLOCK FALSE
