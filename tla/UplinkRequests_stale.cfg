\* A timely O-DU, and a radio that may lose a symbol.
CONSTANTS
  RadioPeriod = 16
  Period = 4
  RepoSize = 2
  NofSymbols = 2
  Ranges <- MCTwoRanges
  SectionIds = {1}
  Eaxcs <- MCEaxcs
  DlEaxc <- MCDlEaxc
  UlEaxc <- MCUlEaxc
  PrachEaxc <- MCPrachEaxc
  Leads <- MCTimelyLeads
  LossyCapture = TRUE
  MaxAir = 5
SPECIFICATION Spec
INVARIANTS
  NoStaleReply
