\* As PrachCapture_timely: requests recorded before their occasion is peeked, captures delivered in time.
CONSTANTS
  RadioPeriod = 16
  Period = 8
  RepoSize = 4
  RadioShift = 11
  NofSymbols = 2
  Ranges <- MCRanges
  SectionIds = {1}
  Eaxcs <- MCEaxcs
  DlEaxc <- MCNoEaxc
  UlEaxc <- MCNoEaxc
  PrachEaxc <- MCPrachEaxc
  Lookback = 2
  NofBuffers = 2
  BufferPorts = 2
  ScsChoices = {TRUE}
  Leads <- MCTimelyLeads
  Latency = 1
  MaxTti = 12
SPECIFICATION Spec
PROPERTIES
  OccasionCaptured
