SPECIFICATION Spec
CONSTANTS
  UserTexts <- MCUserTexts
  JobFile <- ModeLines
  MaxLineNo = 4
  HistoryLimit = 2
  QuietLimit = 1
  MaxBacklog = 1
  ReportErrors = FALSE
  InitPath = "serial"
  Devices <- PluggedOrNot
  Budget <- TroubleBudget
INVARIANT JobAlive
INVARIANT InFlightIsFront
CHECK_DEADLOCK FALSE
PROPERTY ResumeRestoresMode
PROPERTY PausedUntilResumed
