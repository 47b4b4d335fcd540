\* Late, early and overlong requests, symbols lost by the radio.
CONSTANTS
  RadioPeriod = 16
  Period = 4
  RepoSize = 2
  NofSymbols = 2
  Ranges <- MCWildRanges
  SectionIds = {1}
  Eaxcs <- MCEaxcs
  DlEaxc <- MCDlEaxc
  UlEaxc <- MCUlEaxc
  PrachEaxc <- MCPrachEaxc
  Leads <- MCWildLeads
  LossyCapture = TRUE
  MaxAir = 2
SPECIFICATION Spec
INVARIANTS
  TypeOK
  ReplyMatchesRequest
PROPERTIES
  OnlyOwnRequestCleared
