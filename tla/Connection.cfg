SPECIFICATION Spec
CONSTANTS
  UserTexts <- MCUserTexts
  JobFile <- OneLine
  MaxLineNo = 3
  HistoryLimit = 1
  QuietLimit = 1
  MaxBacklog = 1
  ReportErrors = FALSE
  InitPath = "serial"
  Devices <- AnyDevice
  Budget <- ConnectionBudget
INVARIANT TypeOK
INVARIANT Listening
INVARIANT Watched
INVARIANT Maintained
INVARIANT Released
INVARIANT Doomed
CHECK_DEADLOCK FALSE
