\* Late and early messages, missed symbols, a stalled receive thread.
CONSTANTS
  RadioPeriod = 8
  Period = 4
  RepoSize = 2
  NofSymbols = 2
  Ports = {1}
  Ranges <- MCRanges
  NofGrids = 2
  FinalizeOffset <- MCAhead
  RadioShift = 5
  Offsets = {2, 3}
  TtiLeads <- MCOneTtiLead
  CplaneLeads <- MCWildCplane
  UplaneLeads <- MCWildUplane
  SkipsTicks = TRUE
  StallsRx = TRUE
  MaxSlot = 3
  MaxNow = 5
  MaxCommands = 3
SPECIFICATION Spec
INVARIANTS
  TypeOK
  GridServesOneSlot
  OneGridPerSlot
