\* Late captures, missed symbols, a full task queue, threads that stall.
CONSTANTS
  NofSymbols = 2
  FrameSlots = 1
  Ids = {b1, b2}
  Fragments = 2
  UlSymbols = 2
  PrachSymbols = 2
  TxStart = 2
  TxEnd = 1
  QueueSize = 2
  UlDelays = {2}
  PrachDelays = {1}
  UlLeads = {1}
  PrachLeads = {}
  SkipsTicks = TRUE
  MaxLag = 3
  StallsRadio = TRUE
  MaxNow = 3
SYMMETRY IdSymmetry
SPECIFICATION Spec
INVARIANTS
  TypeOK
  OneOwner
  ListedInItsState
