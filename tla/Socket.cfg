SPECIFICATION FairSpec
CONSTANTS
  UserTexts <- MCUserTexts
  JobFile <- OneLine
  MaxLineNo = 4
  HistoryLimit = 2
  QuietLimit = 1
  MaxBacklog = 1
  ReportErrors = FALSE
  InitPath = "tcp"
  Devices <- PluggedOrNot
  Budget <- SocketBudget
INVARIANT Kept
PROPERTY Settles
CHECK_DEADLOCK FALSE
