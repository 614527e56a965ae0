SPECIFICATION JobsSpec
CONSTANTS
  UserTexts <- ModeUserTexts
  JobFile <- ThreeLines
  MaxLineNo = 4
  HistoryLimit = 2
  QuietLimit = 1
  MaxBacklog = 1
  ReportErrors = FALSE
  InitPath = "serial"
  Devices <- PluggedOrNot
  Budget <- ResendBudget
INVARIANT OneInFlight
INVARIANT PrintedInOrder
INVARIANT DoneIsPrinted
PROPERTY ImplementsService
INVARIANT ModeTracked
