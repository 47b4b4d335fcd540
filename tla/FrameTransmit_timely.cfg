\* The environment the O-RU is specified for.  A deployment replies to captures or,
\* in loopback mode, ahead of the air time; one run covers both.
CONSTANTS
  NofSymbols = 4
  FrameSlots = 2
  Ids = {1}
  Fragments = 1
  UlSymbols = 2
  PrachSymbols = 2
  TxStart = 3
  TxEnd = 1
  QueueSize = 11
  UlDelays = {2}
  PrachDelays = {1}
  UlLeads = {1}
  PrachLeads = {1}
  SkipsTicks = FALSE
  MaxLag = 1
  StallsRadio = FALSE
  MaxNow = 9
SPECIFICATION Spec
INVARIANTS
  SentInWindow
  ReservationSucceeds
  NothingOverdue
