SPECIFICATION Spec
CONSTANTS
  DayTicks = 6
  RthOpen = 2
  RthClose = 4
  PreSwapTicks = 2
  MarketOffset = 5
  SwapOffset = 1
  Unit = 4
  NoEntry = NoEntry
  NoValue = NoValue
  ProbabilityUnit = 2
  Requests <- MCRequests
CHECK_DEADLOCK FALSE
INVARIANTS
  Accounted
  EvaluationCompletes
  ScoredRows
  TrainsExactly
  CalendarSound
  SameData
  ResumeSound
