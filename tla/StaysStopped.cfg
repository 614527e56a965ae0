SPECIFICATION Spec
CONSTANTS
  UserTexts <- MCUserTexts
  JobFile <- OneLine
  MaxLineNo = 4
  HistoryLimit = 2
  QuietLimit = 1
  MaxBacklog = 1
  ReportErrors = FALSE
  InitPath = "serial"
  Devices <- PluggedOrNot
  Budget <- StartStopBudget
PROPERTY OnlyStartLeavesStopped
CHECK_DEADLOCK FALSE
