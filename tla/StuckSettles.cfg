SPECIFICATION FairSpec
CONSTANTS
  UserTexts <- MCUserTexts
  JobFile <- OneLine
  MaxLineNo = 4
  HistoryLimit = 2
  QuietLimit = 1
  MaxBacklog = 1
  ReportErrors = FALSE
  InitPath = "serial"
  Devices <- AnyDevice
  Budget <- StuckBudget
PROPERTY Settles
CHECK_DEADLOCK FALSE
