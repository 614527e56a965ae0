SPECIFICATION FairSpec
CONSTANTS
  UserTexts <- MCUserTexts
  JobFile <- TwoLines
  MaxLineNo = 4
  HistoryLimit = 2
  QuietLimit = 1
  MaxBacklog = 1
  ReportErrors = FALSE
  InitPath = "serial"
  Devices <- PluggedOrNot
  Budget <- ProgressBudget
PROPERTY Answered
PROPERTY JobEnds
PROPERTY Settles
CHECK_DEADLOCK FALSE
