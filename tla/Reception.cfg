\* From the start of the program to its end, with messages late and early,
\* lost, repeated and overtaken, and a timing worker that misses symbols.
CONSTANTS
  TicksPerSecond = 9
  SlotsPerSecond = 3
  NofSymbols = 2
  HyperSlots = 34
  Period = 17
  RoundedDown = {2}
  FirstClock = 98
  MaxClock = 102
  MaxLag = 2
  T2aMin = 2
  T2aMax = 5
  NofSeqIds = 4
  Messages <- MCMessages
  MaxEvents = 3
SPECIFICATION Spec
CHECK_DEADLOCK FALSE
INVARIANTS
  TypeOK
  NotifiedIsOnAir
  NoNotificationAfterClear
  RowAccountsForFrames
PROPERTIES
  VerdictWithinT2a
  ErrorsMatchStream
  StopCompletes
