SPECIFICATION Spec
CONSTANTS
  UserTexts <- MCUserTexts
  JobFile <- OneLine
  MaxLineNo = 4
  HistoryLimit = 2
  QuietLimit = 1
  MaxBacklog = 1
  ReportErrors = TRUE
  InitPath = "serial"
  Devices <- PluggedOrNot
  Budget <- DamageBudget
INVARIANT ResendIsNoError
CHECK_DEADLOCK FALSE
