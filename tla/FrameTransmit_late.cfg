\* A PRACH occasion that is longer than the transmit window reaches back.
CONSTANTS
  NofSymbols = 3
  FrameSlots = 2
  Ids = {1}
  Fragments = 1
  UlSymbols = 1
  PrachSymbols = 5
  TxStart = 3
  TxEnd = 1
  QueueSize = 8
  UlDelays = {2}
  PrachDelays = {4}
  UlLeads = {}
  PrachLeads = {}
  SkipsTicks = FALSE
  MaxLag = 1
  StallsRadio = FALSE
  MaxNow = 9
SPECIFICATION Spec
INVARIANTS
  SentInWindow
