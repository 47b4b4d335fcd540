\* The environment the O-RU is specified for.
CONSTANTS
  RadioPeriod = 12
  Period = 6
  RepoSize = 3
  NofSymbols = 2
  Ports = {1}
  Ranges <- MCRanges
  NofGrids = 2
  FinalizeOffset <- MCAhead
  RadioShift = 11
  Offsets = {0, 1}
  TtiLeads <- MCTtiLeads
  CplaneLeads <- MCTimelyCplane
  UplaneLeads <- MCTimelyUplane
  SkipsTicks = FALSE
  StallsRx = FALSE
  MaxSlot = 7
  MaxNow = 13
  MaxCommands = 3
SPECIFICATION FairSpec
INVARIANTS
  PushedOnceInOrder
  OnlyOwnData
  ScheduledUntilClosed
PROPERTIES
  PushedToItsSlot
  WrittenWhereScheduled
  GridsReturn
