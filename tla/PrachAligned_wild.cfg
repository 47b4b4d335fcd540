\* No alignment at first, a radio clock that drifts both ways, a host clock that is
\* misread, late requests, any SCS, captures lost.
CONSTANTS
  RadioPeriod = 32
  Period = 16
  RepoSize = 2
  RadioShift = 17
  NofSymbols = 2
  Ranges <- MCRange
  SectionIds = {1}
  Eaxcs <- MCEaxcs
  DlEaxc <- MCNoEaxc
  UlEaxc <- MCNoEaxc
  PrachEaxc <- MCPrachEaxc
  Lookback = 1
  NofBuffers = 1
  BufferPorts = 2
  ScsChoices = {TRUE, FALSE}
  Leads <- MCLeads
  Latency = 1
  MaxTti = 9
  SettleTtis = 1
  NofMeasurements = 2
  Drifts <- MCDrifts
  ClockErrors <- MCClockErrors
  MinSlip <- MCMinSlip
  MaxSlip = 1
  MaxMisreads = 1
SPECIFICATION AlignedSpec
INVARIANTS
  AlignedTypeOK
  WireSlotNearRequested
  FollowsDrift
PROPERTY
  RealignsToTruth
