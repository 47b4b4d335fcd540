\* The environment the O-RU is specified for.
CONSTANTS
  RadioPeriod = 16
  Period = 4
  RepoSize = 2
  NofSymbols = 2
  Ranges <- MCTwoRanges
  SectionIds = {1}
  Eaxcs <- MCEaxcs
  DlEaxc <- MCDlEaxc
  UlEaxc <- MCUlEaxc
  PrachEaxc <- MCPrachEaxc
  Leads <- MCTimelyLeads
  LossyCapture = FALSE
  MaxAir = 5
SPECIFICATION FairSpec
INVARIANTS
  NoStaleReply
PROPERTIES
  ImplementsContract
  EveryRequestReleased
